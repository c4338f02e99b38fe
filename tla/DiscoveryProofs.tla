-------------------------- MODULE DiscoveryProofs --------------------------
(***************************************************************************)
(* No file is skipped and none is taken twice, for any sources, limits and *)
(* models, as long as no time passes during a discovery, every directory   *)
(* can be listed, and no model clears the listings that another one is     *)
(* using (the cases in which files can be skipped: see the README).        *)
(***************************************************************************)
EXTENDS Discovery, WellFoundedInduction, TLAPS

(* Types, for any faults and any clock. *)
InBatch == {"begin", "submit", "job", "record"}
OldEnough(f) == arrived[f] # 0 /\ arrived[f] <= now - Buffer

LocalsOK(l) ==
    /\ l.pc \in {"list", "walk"} => l.root <= NumRoots
    /\ \A f \in l.found : arrived[f] # 0
    /\ \A f \in l.ready \cup l.batch : OldEnough(f)
    /\ l.pc \in InBatch => l.batch # {}

CacheOK(c) ==
    \A r \in Roots : c[r] = NotListed \/ (c[r] \subseteq Files /\ \A f \in c[r] : arrived[f] # 0)

WorldOK ==
    /\ now \in 0..MaxTime
    /\ arrived \in [Files -> 0..MaxTime] /\ \A f \in Files : arrived[f] <= now
    /\ cache \in [Roots -> SUBSET (Files \cup {0})] /\ CacheOK(cache)
    /\ infos \subseteq Files
    /\ cycles \in [Models -> Nat]
    /\ shutdown \in BOOLEAN
    /\ processes \in 1..MaxProcesses
    /\ watermark \in [Models -> {0} \cup 1..(now - Buffer)]
    /\ ingested \in [Models -> SUBSET Files]

ModelsOK == model \in [Models -> Locals] /\ \A m \in Models : LocalsOK(model[m])

TypeInv == WorldOK /\ ModelsOK

-----------------------------------------------------------------------------
(* Types *)

LEMMA NumberedFromOne == Files \subseteq Nat \ {0} /\ 0 \notin Files
BY SourceAssumption

LEMMA Consts ==
  /\ NumRoots \in Nat \ {0} /\ Buffer \in Nat /\ StartingTimestamp \in Nat
  /\ MaxTime \in Nat /\ MaxProcesses \in Nat \ {0} /\ MaxCarried \in Nat
  /\ RootOf \in [Dirs -> Roots] /\ DirOf \in [Files -> Dirs]
BY SourceAssumption, LimitsAssumption DEF Roots

LEMMA LeastTime ==
  ASSUME NEW U \in SUBSET Nat, U # {}
  PROVE  \E n \in U : \A k \in U : n <= k
<1> DEFINE Less == OpToRel(<, Nat)
<1>1. \A k, n \in Nat : k < n => <<k, n>> \in Less
  BY DEF OpToRel
<1>2. IsWellFoundedOn(Less, Nat)
  BY NatLessThanWellFounded
<1> HIDE DEF Less
<1>3. PICK n \in U : \A k \in U : ~(<<k, n>> \in Less)
  BY <1>2, WFMin, Zenon
<1>4. ASSUME NEW k \in U PROVE n <= k
  <2>1. n \in Nat /\ k \in Nat /\ ~(k < n)
    BY <1>1, <1>3
  <2>2. QED BY <2>1
<1>5. QED BY <1>4

(* compute_new_watermark: the position is that of the newest file. *)
LEMMA NewestIsNewest ==
  ASSUME NEW m, NEW fs \in SUBSET Files, fs # {}, arrived \in [Files -> 0..MaxTime]
  PROVE  /\ \E f \in fs : Newest(m, fs) = arrived[f]
         /\ \A f \in fs : arrived[f] <= Newest(m, fs)
<1> DEFINE T == {arrived[f] : f \in fs}
           Left == {n \in 0..MaxTime : \E t \in T : t + n = MaxTime}
<1>1. MaxTime \in Nat /\ \A f \in fs : arrived[f] \in 0..MaxTime
  BY Consts
<1>2. Left \in SUBSET Nat /\ Left # {}
  <2>1. PICK f \in fs : TRUE
    OBVIOUS
  <2>2. MaxTime - arrived[f] \in Left
    <3>1. arrived[f] \in T /\ arrived[f] + (MaxTime - arrived[f]) = MaxTime
      BY <1>1
    <3>2. QED BY <1>1, <3>1
  <2>3. QED BY <2>2
<1>3. PICK n \in Left : \A k \in Left : n <= k
  <2> HIDE DEF Left
  <2>1. QED BY <1>2, LeastTime, Zenon
<1>4. PICK t \in T : t + n = MaxTime
  BY <1>3
<1>5. \A f \in fs : arrived[f] <= t
  <2> SUFFICES ASSUME NEW f \in fs PROVE arrived[f] <= t
    OBVIOUS
  <2>1. MaxTime - arrived[f] \in Left
    BY <1>1
  <2>2. QED BY <1>1, <1>3, <1>4, <2>1
<1>6. Newest(m, fs) \in T /\ \A f \in fs : arrived[f] <= Newest(m, fs)
  BY <1>5 DEF Newest
<1>7. QED BY <1>6

(* What a step of one model may do to its locals and to the listings. *)
LEMMA ModelMoves ==
  ASSUME TypeInv, NEW m \in Models, NEW l \in Locals, LocalsOK(l),
         model' = [model EXCEPT ![m] = l], UNCHANGED world
  PROVE  ModelsOK' /\ model'[m] = l /\ \A n \in Models \ {m} : model'[n] = model[n]
<1>1. arrived' = arrived /\ now' = now
  BY DEF world
<1>2. model' \in [Models -> Locals] /\ \A n \in Models : LocalsOK(model'[n])
  BY DEF TypeInv, ModelsOK
<1>3. ModelsOK'
  BY <1>1, <1>2 DEF ModelsOK, LocalsOK, OldEnough
<1>4. QED BY <1>3 DEF TypeInv, ModelsOK

LEMMA PcMoves ==
  ASSUME TypeInv, NEW m \in Models, NEW pc \in PCs, Goto(m, pc), UNCHANGED world,
         pc \notin {"list", "walk"},
         pc \in InBatch => model[m].pc \in InBatch
  PROVE  ModelsOK'
<1>1. model[m] \in Locals /\ LocalsOK(model[m])
  BY DEF TypeInv, ModelsOK
<1>2. PICK l \in Locals : l = [model[m] EXCEPT !.pc = pc]
  BY <1>1 DEF Locals
<1>3. model' = [model EXCEPT ![m] = l]
  BY <1>2 DEF Goto
<1>4. LocalsOK(l)
  BY <1>1, <1>2 DEF LocalsOK, Locals
<1>5. QED BY <1>3, <1>4, ModelMoves

LEMMA StartsOver ==
  ASSUME TypeInv, NEW m \in Models, NEW c \in Configs, UNCHANGED world,
         model' = [model EXCEPT ![m] = [Discovering(@) EXCEPT !.config = c]]
  PROVE  ModelsOK'
<1>1. model[m] \in Locals /\ LocalsOK(model[m])
  BY DEF TypeInv, ModelsOK
<1>2. PICK l \in Locals :
        l = [model[m] EXCEPT !.pc = "list", !.root = 1, !.ready = {}, !.config = c]
  <2>1. "list" \in PCs /\ 1 \in 1..(NumRoots + 1) /\ {} \in SUBSET Files
    BY Consts DEF PCs
  <2>2. QED BY <1>1, <2>1, ZenonT(60) DEF Locals
<1>3. model' = [model EXCEPT ![m] = l]
  BY <1>2 DEF Discovering
<1>4. LocalsOK(l)
  BY <1>1, <1>2, Consts DEF LocalsOK, Locals, InBatch
<1>5. QED BY <1>3, <1>4, ModelMoves

LEMMA Restarts ==
  ASSUME TypeInv, NEW m \in Models, UNCHANGED world,
         model' = [model EXCEPT ![m] = Discovering(@)]
  PROVE  ModelsOK'
<1>1. model[m] \in Locals
  BY DEF TypeInv, ModelsOK
<1>2. model[m].config \in Configs /\
      [Discovering(model[m]) EXCEPT !.config = model[m].config] = Discovering(model[m])
  BY <1>1 DEF Discovering, Locals
<1>3. QED BY <1>2, StartsOver

LEMMA RootMoves ==
  ASSUME TypeInv, NEW m \in Models, NEW fs \in SUBSET Files, RootListed(m, fs),
         UNCHANGED world, model[m].pc \in {"list", "walk"}
  PROVE  ModelsOK'
<1>1. model[m] \in Locals /\ LocalsOK(model[m]) /\ model[m].root \in 1..NumRoots
  BY DEF TypeInv, ModelsOK, LocalsOK, Locals
<1>2. Eligible(m, fs) \subseteq Files /\ \A f \in Eligible(m, fs) : OldEnough(f)
  <2>1. Position(m) \in Nat
    BY Consts DEF Position, UsesStart, TypeInv, WorldOK
  <2>2. QED BY <2>1 DEF Eligible, OldEnough, TypeInv, WorldOK
<1>3. PICK pc \in {"choose", "list"} :
        pc = IF model[m].root + 1 > NumRoots THEN "choose" ELSE "list"
  OBVIOUS
<1>4. PICK l \in Locals :
        l = [model[m] EXCEPT !.ready = @ \cup Eligible(m, fs), !.root = @ + 1, !.pc = pc]
  <2>1. /\ pc \in PCs /\ model[m].root + 1 \in 1..(NumRoots + 1)
        /\ model[m].ready \cup Eligible(m, fs) \in SUBSET Files
    BY <1>1, <1>2, Consts DEF Locals, PCs
  <2>2. QED BY <1>1, <2>1, ZenonT(60) DEF Locals
<1>5. model' = [model EXCEPT ![m] = l]
  BY <1>1, <1>3, <1>4 DEF RootListed
<1>6. LocalsOK(l)
  BY <1>1, <1>2, <1>3, <1>4, Consts DEF LocalsOK, Locals, InBatch
<1>7. QED BY <1>5, <1>6, ModelMoves

LEMMA RelistedOK ==
  ASSUME TypeInv
  PROVE  /\ Relisted \in [Roots -> SUBSET (Files \cup {0})] /\ CacheOK(Relisted)
         /\ AllRelisted \subseteq Files
         /\ \A f \in AllRelisted : arrived[f] # 0
<1>1. \A r \in Roots : Present(r) \subseteq Files /\ \A f \in Present(r) : arrived[f] # 0
  BY DEF Present
<1>2. \A r \in Roots : Relisted[r] \subseteq Files /\ \A f \in Relisted[r] : arrived[f] # 0
  BY <1>1 DEF Relisted, TypeInv, WorldOK, CacheOK
<1>3. Relisted \in [Roots -> SUBSET (Files \cup {0})]
  BY <1>2 DEF Relisted
<1>4. QED BY <1>2, <1>3 DEF AllRelisted, CacheOK

LEMMA StepKeepsTypes ==
  ASSUME TypeInv, NEW m \in Models, Step(m)
  PROVE  TypeInv'
<1> USE DEF world, adapter, process, tables
<1>0. /\ model[m] \in Locals /\ LocalsOK(model[m]) /\ WorldOK /\ ModelsOK
      /\ "choose" \in PCs /\ "begin" \in PCs /\ "submit" \in PCs /\ "job" \in PCs
      /\ "record" \in PCs /\ "cycle" \in PCs /\ "asleep" \in PCs
      /\ "done" \in PCs /\ "failed" \in PCs /\ "walk" \in PCs
      /\ cycles[m] \in Nat
  BY DEF TypeInv, ModelsOK, WorldOK, PCs
<1>1. CASE Start(m)
  <2>1. PICK c \in Configs : Started(m, c) /\ cycles' \in {cycles, [cycles EXCEPT ![m] = 0]}
    BY <1>1 DEF Start
  <2>2. ModelsOK'
    BY <1>1, <2>1, StartsOver DEF Start, Started
  <2>3. WorldOK'
    BY <1>0, <1>1, <2>1 DEF Start, WorldOK, CacheOK
  <2>4. QED BY <2>2, <2>3 DEF TypeInv
<1>2. CASE CacheHit(m)
  <2>1. /\ cache[model[m].root] \in SUBSET Files
        /\ model[m].pc = "list"
    BY <1>0, <1>2 DEF CacheHit, At, LocalsOK, Locals, WorldOK, CacheOK, Roots
  <2>2. ModelsOK'
    BY <1>2, <2>1, RootMoves DEF CacheHit
  <2>3. WorldOK'
    BY <1>0, <1>2 DEF CacheHit, WorldOK, CacheOK
  <2>4. QED BY <2>2, <2>3 DEF TypeInv
<1>3. CASE StartWalk(m)
  <2>1. PICK todo \in SUBSET Dirs : todo = {d \in Dirs : RootOf[d] = model[m].root}
    OBVIOUS
  <2>2. PICK l \in Locals : l = [model[m] EXCEPT !.todo = todo, !.found = {}, !.pc = "walk"]
    BY <1>0, ZenonT(60) DEF Locals
  <2>3. model' = [model EXCEPT ![m] = l]
    BY <1>3, <2>1, <2>2 DEF StartWalk
  <2>4. LocalsOK(l)
    BY <1>0, <1>3, <2>2 DEF StartWalk, At, LocalsOK, Locals, InBatch
  <2>5. ModelsOK'
    BY <1>3, <2>3, <2>4, ModelMoves DEF StartWalk
  <2>6. WorldOK'
    BY <1>0, <1>3 DEF StartWalk, WorldOK, CacheOK
  <2>7. QED BY <2>5, <2>6 DEF TypeInv
<1>4. CASE \E d \in Dirs : ListDir(m, d)
  <2>1. PICK d \in Dirs, files \in SUBSET Files :
          /\ At(m, "walk")
          /\ \A f \in files : arrived[f] # 0
          /\ model' = [model EXCEPT ![m].todo = @ \ {d}, ![m].found = @ \cup files]
          /\ UNCHANGED <<world, adapter, process, tables>>
    BY <1>4 DEF ListDir
  <2>2. /\ model[m].todo \ {d} \in SUBSET Dirs
        /\ model[m].found \cup files \in SUBSET Files
    BY <1>0 DEF Locals
  <2>3. PICK l \in Locals : l = [model[m] EXCEPT !.todo = @ \ {d}, !.found = @ \cup files]
    BY <1>0, <2>2, ZenonT(60) DEF Locals
  <2>4. model' = [model EXCEPT ![m] = l]
    BY <2>1, <2>3
  <2>5. LocalsOK(l)
    BY <1>0, <2>1, <2>3 DEF At, LocalsOK, Locals, InBatch
  <2>6. ModelsOK'
    BY <2>1, <2>4, <2>5, ModelMoves
  <2>7. WorldOK'
    BY <1>0, <2>1 DEF WorldOK, CacheOK
  <2>8. QED BY <2>6, <2>7 DEF TypeInv
<1>5. CASE EndWalk(m)
  <2>1. /\ model[m].found \in SUBSET Files /\ model[m].pc = "walk"
        /\ model[m].root \in Roots
        /\ \A f \in model[m].found : arrived[f] # 0
    BY <1>0, <1>5 DEF EndWalk, At, LocalsOK, Locals, Roots
  <2>2. ModelsOK'
    BY <1>5, <2>1, RootMoves DEF EndWalk
  <2>3. cache' \in [Roots -> SUBSET (Files \cup {0})] /\ CacheOK(cache')
    BY <1>0, <1>5, <2>1 DEF EndWalk, WorldOK, CacheOK
  <2>4. CacheOK(cache)'
    BY <1>5, <2>3 DEF EndWalk, CacheOK
  <2>5. WorldOK'
    BY <1>0, <1>5, <2>3, <2>4 DEF EndWalk, WorldOK
  <2>6. QED BY <2>2, <2>5 DEF TypeInv
<1>6. CASE Choose(m)
  <2>1. PICK b \in SUBSET Files :
          /\ b # {} /\ b \subseteq model[m].ready
          /\ model' = [model EXCEPT ![m].batch = b, ![m].pc = "begin"]
    BY <1>0, <1>6 DEF Choose, OldestFirst, Locals
  <2>2. PICK l \in Locals : l = [model[m] EXCEPT !.batch = b, !.pc = "begin"]
    BY <1>0, <2>1, ZenonT(60) DEF Locals
  <2>3. model' = [model EXCEPT ![m] = l]
    BY <2>1, <2>2
  <2>4. LocalsOK(l)
    BY <1>0, <2>1, <2>2 DEF LocalsOK, Locals, InBatch
  <2>5. ModelsOK'
    BY <1>6, <2>3, <2>4, ModelMoves DEF Choose
  <2>6. WorldOK'
    BY <1>0, <1>6 DEF Choose, WorldOK, CacheOK, Locals
  <2>7. QED BY <2>5, <2>6 DEF TypeInv
<1>7. CASE ChooseFromStart(m)
  <2>1. PICK f \in Latest(AllRelisted) :
          /\ model' = [model EXCEPT ![m].batch = {f}, ![m].pc = "begin"]
          /\ infos' = infos \cup {f}
    BY <1>7 DEF ChooseFromStart
  <2>2. f \in Files /\ OldEnough(f) /\ {f} \in SUBSET Files
    BY <2>1, RelistedOK DEF Latest, OldEnough
  <2>3. PICK l \in Locals : l = [model[m] EXCEPT !.batch = {f}, !.pc = "begin"]
    BY <1>0, <2>2, ZenonT(60) DEF Locals
  <2>4. model' = [model EXCEPT ![m] = l]
    BY <2>1, <2>3
  <2>5. LocalsOK(l)
    BY <1>0, <2>2, <2>3 DEF LocalsOK, Locals, InBatch
  <2>6. ModelsOK'
    BY <1>7, <2>4, <2>5, ModelMoves DEF ChooseFromStart
  <2>7. WorldOK'
    BY <1>0, <1>7, <2>1, <2>2, RelistedOK DEF ChooseFromStart, WorldOK, CacheOK
  <2>8. QED BY <2>6, <2>7 DEF TypeInv
<1>8. CASE StartTooLate(m)
  <2>1. ModelsOK'
    BY <1>0, <1>8, PcMoves DEF StartTooLate, InBatch
  <2>2. /\ cache' \in [Roots -> SUBSET (Files \cup {0})] /\ CacheOK(cache')
    BY <1>0, <1>8, RelistedOK DEF StartTooLate, WorldOK, CacheOK
  <2>3. CacheOK(cache)'
    BY <1>8, <2>2 DEF StartTooLate, CacheOK
  <2>4. WorldOK'
    BY <1>0, <1>8, <2>2, <2>3 DEF StartTooLate, WorldOK
  <2>5. QED BY <2>1, <2>4 DEF TypeInv
<1>9. CASE NothingLeft(m)
  <2>1. PICK pc \in {"cycle", "done"} :
          pc = IF model[m].config.trigger = "processing_time" THEN "cycle" ELSE "done"
    OBVIOUS
  <2>2. ModelsOK'
    BY <1>0, <1>9, <2>1, PcMoves DEF NothingLeft, InBatch
  <2>3. WorldOK'
    BY <1>0, <1>9, RelistedOK DEF NothingLeft, WorldOK, CacheOK
  <2>4. QED BY <2>2, <2>3 DEF TypeInv
<1>10. CASE Begin(m)
  <2>1. PICK pc \in {"submit", "failed"} :
          pc = IF model[m].batch \subseteq infos THEN "submit" ELSE "failed"
    OBVIOUS
  <2>2. ModelsOK'
    BY <1>0, <1>10, <2>1, PcMoves DEF Begin, InBatch, At
  <2>3. WorldOK'
    BY <1>0, <1>10 DEF Begin, WorldOK, CacheOK
  <2>4. QED BY <2>2, <2>3 DEF TypeInv
<1>11. CASE Submit(m)
  <2>1. PICK pc \in {"job", "failed"} : pc = IF shutdown THEN "failed" ELSE "job"
    OBVIOUS
  <2>2. ModelsOK'
    BY <1>0, <1>11, <2>1, PcMoves DEF Submit, InBatch, At
  <2>3. WorldOK'
    BY <1>0, <1>11 DEF Submit, WorldOK, CacheOK
  <2>4. QED BY <2>2, <2>3 DEF TypeInv
<1>12. CASE JobDone(m)
  <2>1. ModelsOK'
    BY <1>0, <1>12, PcMoves DEF JobDone, InBatch, At
  <2>2. WorldOK'
    BY <1>0, <1>12 DEF JobDone, WorldOK, CacheOK, Locals
  <2>3. QED BY <2>1, <2>2 DEF TypeInv
<1>13. CASE JobFails(m)
  <2>1. ModelsOK'
    BY <1>0, <1>13, PcMoves DEF JobFails, InBatch, At
  <2>2. WorldOK'
    BY <1>0, <1>13 DEF JobFails, WorldOK, CacheOK
  <2>3. QED BY <2>1, <2>2 DEF TypeInv
<1>14. CASE Record(m)
  <2>1. ModelsOK'
    BY <1>14, Restarts DEF Record
  <2>2. PICK fs \in SUBSET model[m].batch :
          /\ cache' \in {cache, Relisted}
          /\ watermark' = IF fs = {} THEN watermark ELSE [watermark EXCEPT ![m] = Newest(m, fs)]
    BY <1>14 DEF Record
  <2>3. fs # {} => Newest(m, fs) \in 1..(now - Buffer)
    <3>1. fs \in SUBSET Files /\ \A f \in fs : OldEnough(f)
      BY <1>0 DEF Locals, LocalsOK
    <3>2. SUFFICES ASSUME fs # {} PROVE Newest(m, fs) \in 1..(now - Buffer)
      OBVIOUS
    <3>3. PICK f \in fs : Newest(m, fs) = arrived[f]
      BY <1>0, <3>1, <3>2, NewestIsNewest DEF WorldOK
    <3>4. arrived[f] \in 0..MaxTime /\ arrived[f] # 0 /\ arrived[f] <= now - Buffer
      BY <1>0, <3>1, <3>3 DEF WorldOK, OldEnough
    <3>5. QED BY <1>0, <3>3, <3>4, Consts DEF WorldOK
  <2>4. watermark' \in [Models -> {0} \cup 1..(now - Buffer)]
    BY <1>0, <2>2, <2>3 DEF WorldOK
  <2>5. WorldOK'
    BY <1>0, <1>14, <2>2, <2>4, RelistedOK DEF Record, WorldOK, CacheOK
  <2>6. QED BY <2>1, <2>5 DEF TypeInv
<1>15. CASE Cycle(m)
  <2>1. PICK turns \in Nat, pc \in {"done", "asleep"} :
          model' = [model EXCEPT ![m].turns = turns, ![m].pc = pc]
    <3>1. PICK turns \in Nat :
            turns = IF model[m].config.maxCycles = 0 THEN 0 ELSE model[m].turns + 1
      BY <1>0 DEF Locals
    <3>2. PICK pc \in {"done", "asleep"} :
            model' = [model EXCEPT ![m].turns = turns, ![m].pc = pc]
      BY <1>0, <1>15, <3>1 DEF Cycle, CycleEnds, ModelsOK
    <3>3. QED BY <3>2
  <2>2. PICK l \in Locals : l = [model[m] EXCEPT !.turns = turns, !.pc = pc]
    BY <1>0, <2>1, ZenonT(60) DEF Locals
  <2>3. model' = [model EXCEPT ![m] = l]
    BY <2>1, <2>2
  <2>4. LocalsOK(l)
    BY <1>0, <2>1, <2>2 DEF LocalsOK, Locals, InBatch
  <2>5. ModelsOK'
    BY <1>15, <2>3, <2>4, ModelMoves DEF Cycle
  <2>6. cycles' \in [Models -> Nat]
    BY <1>0, <1>15 DEF Cycle, CycleEnds, WorldOK
  <2>7. cache' \in [Roots -> SUBSET (Files \cup {0})] /\ CacheOK(cache)'
    BY <1>15 DEF Cycle, CacheOK, NotListed
  <2>8. WorldOK'
    BY <1>0, <1>15, <2>6, <2>7 DEF Cycle, WorldOK
  <2>9. QED BY <2>5, <2>8 DEF TypeInv
<1>16. CASE Wake(m)
  <2>1. ModelsOK'
    BY <1>0, <1>16, PcMoves, Restarts DEF Wake, InBatch
  <2>2. WorldOK'
    BY <1>0, <1>16 DEF Wake, WorldOK, CacheOK
  <2>3. QED BY <2>1, <2>2 DEF TypeInv
<1>17. QED
  BY <1>1, <1>2, <1>3, <1>4, <1>5, <1>6, <1>7, <1>8, <1>9, <1>10, <1>11, <1>12, <1>13,
     <1>14, <1>15, <1>16 DEF Step

LEMMA IdleOK == Idle \in Locals /\ LocalsOK(Idle)
<1>1. PICK c \in Configs : c = (CHOOSE d \in Configs : TRUE)
  BY ChoiceAssumption
<1>2. 1 \in 1..(NumRoots + 1) /\ "idle" \in PCs /\ 0 \in Nat
  BY Consts DEF PCs
<1>3. Idle = [pc |-> "idle", config |-> c, root |-> 1, todo |-> {},
              found |-> {}, ready |-> {}, batch |-> {}, turns |-> 0]
  BY <1>1 DEF Idle
<1>4. Idle \in Locals
  BY <1>2, <1>3 DEF Locals
<1>5. /\ Idle.pc = "idle" /\ Idle.found = {} /\ Idle.ready = {} /\ Idle.batch = {}
  BY <1>3
<1>6. QED BY <1>4, <1>5 DEF LocalsOK, InBatch

LEMMA InitTypes ==
  ASSUME Init
  PROVE  TypeInv
<1>1. Idle \in Locals /\ LocalsOK(Idle)
  BY IdleOK
<1>2. ModelsOK
  BY <1>1 DEF Init, ModelsOK
<1>3. cache \in [Roots -> SUBSET (Files \cup {0})] /\ CacheOK(cache)
  BY DEF Init, CacheOK, NotListed
<1>4. cycles \in [Models -> Nat]
  BY Consts DEF Init
<1>5. watermark \in [Models -> {0} \cup 1..(now - Buffer)] /\ ingested \in [Models -> SUBSET Files]
  BY DEF Init
<1>6. WorldOK
  <2>1. now \in 0..MaxTime /\ processes \in 1..MaxProcesses
    BY Consts DEF Init
  <2>2. arrived \in [Files -> 0..MaxTime] /\ \A f \in Files : arrived[f] <= now
    BY Consts DEF Init
  <2>3. QED BY <1>3, <1>4, <1>5, <2>1, <2>2 DEF Init, WorldOK
<1>7. QED BY <1>2, <1>6 DEF TypeInv

LEMMA NextKeepsTypes ==
  ASSUME TypeInv, [Next]_vars
  PROVE  TypeInv'
<1> USE DEF world, adapter, process, tables
<1>0. WorldOK /\ ModelsOK
  BY DEF TypeInv
<1>1. CASE \E m \in Models : Step(m)
  BY <1>1, StepKeepsTypes
<1>2. CASE Shutdown
  BY <1>0, <1>2 DEF Shutdown, TypeInv, WorldOK, CacheOK, ModelsOK, LocalsOK, OldEnough
<1>3. CASE NewProcess
  <2>1. Idle \in Locals /\ LocalsOK(Idle)
    BY IdleOK
  <2>2. PICK l \in Locals : l = Idle /\ LocalsOK(l)
    BY <2>1
  <2>3. model' = [n \in Models |-> l] /\ arrived' = arrived /\ now' = now
    BY <1>3, <2>2 DEF NewProcess
  <2>4. ModelsOK'
    BY <2>2, <2>3 DEF ModelsOK, LocalsOK, OldEnough
  <2>5. WorldOK'
    <3>1. cache' \in [Roots -> SUBSET (Files \cup {0})] /\ CacheOK(cache)'
      BY <1>3 DEF NewProcess, CacheOK, NotListed
    <3>2. cycles' \in [Models -> Nat] /\ processes' \in 1..MaxProcesses
      BY <1>0, <1>3, Consts DEF NewProcess, WorldOK
    <3>3. QED BY <1>0, <1>3, <3>1, <3>2 DEF NewProcess, WorldOK
  <2>6. QED BY <2>4, <2>5 DEF TypeInv
<1>4. CASE Tick \/ \E f \in Files : Arrive(f)
  <2>1. /\ now \in 0..MaxTime /\ now' = now + 1 /\ now' \in 0..MaxTime
        /\ UNCHANGED <<adapter, process, tables, model>>
    BY <1>0, <1>4, Consts DEF Tick, Arrive, ClockRuns, WorldOK
  <2>2. /\ arrived' \in [Files -> 0..MaxTime]
        /\ \A f \in Files : /\ arrived'[f] <= now'
                            /\ arrived[f] # 0 => arrived'[f] = arrived[f]
    BY <1>0, <1>4, <2>1 DEF Tick, Arrive, WorldOK
  <2>3. \A f \in Files : OldEnough(f) => OldEnough(f)'
    BY <1>0, <2>1, <2>2, Consts DEF OldEnough, WorldOK
  <2>4. ModelsOK'
    BY <1>0, <2>1, <2>2, <2>3 DEF ModelsOK, LocalsOK, Locals
  <2>5. watermark' \in [Models -> {0} \cup 1..(now' - Buffer)]
    BY <1>0, <2>1, Consts DEF WorldOK
  <2>6. CacheOK(cache)'
    BY <1>0, <2>1, <2>2 DEF WorldOK, CacheOK
  <2>7. WorldOK'
    BY <1>0, <2>1, <2>2, <2>5, <2>6 DEF WorldOK
  <2>8. QED BY <2>4, <2>7 DEF TypeInv
<1>5. CASE Terminated \/ UNCHANGED vars
  BY <1>0, <1>5
  DEF Terminated, vars, TypeInv, WorldOK, CacheOK, ModelsOK, LocalsOK, OldEnough
<1>6. QED BY <1>1, <1>2, <1>3, <1>4, <1>5 DEF Next

LEMMA TypesHold == Spec => []TypeInv
<1>1. Init => TypeInv
  BY InitTypes
<1>2. TypeInv /\ [Next]_vars => TypeInv'
  BY NextKeepsTypes
<1>3. QED BY <1>1, <1>2, PTL DEF Spec

(* No file is taken before it is there and old enough; every watermark is   *)
(* the time of such a file: so a file that arrives later, or gets old       *)
(* enough later, is not behind any watermark.                               *)
THEOREM DiscoveryTypeCorrect == Spec => []TypeOK
<1>1. TypeInv => TypeOK
  BY DEF TypeInv, WorldOK, CacheOK, ModelsOK, TypeOK, NotListed
<1>2. QED BY <1>1, TypesHold, PTL

-----------------------------------------------------------------------------
(* Cycles: the count that a thread keeps is the model's own. *)
CyclesAreTimed == \A c \in Configs : c.maxCycles # 0 => c.trigger = "processing_time"

Counted(m) ==
    LET l == model[m]
    IN  /\ l.pc = "idle" => l.turns = 0
        /\ l.config.maxCycles # 0 =>
            /\ l.pc \notin Over \cup {"idle"} =>
                  cycles[m] = l.turns /\ l.turns < l.config.maxCycles
            /\ l.pc = "done" /\ ~shutdown => l.turns = l.config.maxCycles

LEMMA CountKept ==
  ASSUME TypeInv, NEW m \in Models, Counted(m), cycles' = cycles, shutdown' = shutdown,
         model'[m].config = model[m].config, model'[m].turns = model[m].turns,
         model[m].pc \notin Over \cup {"idle"},
         model'[m].pc \in {"idle", "done"} => model[m].config.maxCycles = 0
  PROVE  model'[m].pc # "idle" => Counted(m)'
BY DEF Counted, Over

LEMMA StepKeepsCount ==
  ASSUME TypeInv, CyclesAreTimed, NEW m \in Models, Step(m), Counted(m)
  PROVE  Counted(m)'
<1> USE DEF world, adapter, process, tables
<1>0. /\ model \in [Models -> Locals] /\ model[m] \in Locals
      /\ cycles \in [Models -> Nat] /\ cycles[m] \in Nat
      /\ model[m].turns \in Nat /\ model[m].config.maxCycles \in Nat
      /\ model[m].config \in Configs
  BY ChoiceAssumption DEF TypeInv, ModelsOK, WorldOK, Locals
<1>1. CASE Start(m)
  <2>1. PICK c \in Configs :
          /\ model[m].pc = "idle"
          /\ model' = [model EXCEPT ![m] = [Discovering(@) EXCEPT !.config = c]]
          /\ c.trigger = "processing_time" => cycles' = [cycles EXCEPT ![m] = 0]
    BY <1>1 DEF Start, Started, At
  <2>2. /\ model'[m].pc = "list" /\ model'[m].turns = 0 /\ model'[m].config = c
        /\ c.maxCycles \in Nat
    BY <1>0, <2>1, ChoiceAssumption DEF Discovering, Locals, Counted
  <2>3. c.maxCycles # 0 => cycles'[m] = 0
    BY <1>0, <2>1 DEF CyclesAreTimed
  <2>4. QED BY <2>2, <2>3 DEF Counted, Over
<1>2. CASE Cycle(m)
  <2> DEFINE limit == model[m].config.maxCycles
  <2>1. /\ model[m].pc = "cycle" /\ shutdown' = shutdown
        /\ model'[m].config = model[m].config /\ model'[m].pc \in {"done", "asleep"}
        /\ limit # 0 => model'[m].turns = model[m].turns + 1
        /\ limit # 0 =>
              IF shutdown \/ cycles[m] + 1 >= limit
              THEN model'[m].pc = "done"
              ELSE model'[m].pc = "asleep" /\ cycles'[m] = cycles[m] + 1
    BY <1>0, <1>2 DEF Cycle, CycleEnds, At, Locals
  <2>2. limit # 0 => cycles[m] = model[m].turns /\ model[m].turns < limit
    BY <2>1 DEF Counted, Over
  <2>3. CASE limit = 0
    BY <2>1, <2>3 DEF Counted, Over
  <2>4. CASE limit # 0
    <3>1. /\ model'[m].turns = cycles[m] + 1 /\ cycles[m] + 1 <= limit
          /\ limit \in Nat
      BY <1>0, <2>1, <2>2, <2>4
    <3>2. CASE shutdown
      BY <2>1, <2>4, <3>2 DEF Counted, Over
    <3>3. CASE ~shutdown
      BY <1>0, <2>1, <2>4, <3>1, <3>3 DEF Counted, Over
    <3>4. QED BY <3>2, <3>3
  <2>5. QED BY <2>3, <2>4
<1>3. CASE Wake(m)
  <2>1. /\ model[m].pc = "asleep" /\ shutdown' = shutdown
        /\ model'[m].config = model[m].config /\ model'[m].turns = model[m].turns
        /\ IF shutdown THEN model'[m].pc = "done"
                       ELSE model'[m].pc = "list" /\ cycles' = cycles
    <3>1. model[m].pc = "asleep" /\ shutdown' = shutdown
      BY <1>3 DEF Wake, At
    <3>2. CASE shutdown
      <4>1. model' = [model EXCEPT ![m].pc = "done"]
        BY <1>3, <3>2 DEF Wake, Goto
      <4>2. QED BY <1>0, <3>1, <3>2, <4>1 DEF Locals
    <3>3. CASE ~shutdown
      <4>1. model' = [model EXCEPT ![m] = Discovering(model[m])] /\ cycles' = cycles
        BY <1>3, <3>3 DEF Wake
      <4>2. QED BY <1>0, <3>1, <3>3, <4>1 DEF Discovering, Locals
    <3>4. QED BY <3>2, <3>3
  <2>2. QED BY <2>1 DEF Counted, Over
<1>4. CASE \/ CacheHit(m) \/ StartWalk(m) \/ (\E d \in Dirs : ListDir(m, d)) \/ EndWalk(m)
           \/ Choose(m) \/ ChooseFromStart(m)
  <2>1. /\ model[m].pc \in {"list", "walk", "choose"}
        /\ model'[m].pc \in {"list", "walk", "choose", "begin"}
        /\ model'[m].config = model[m].config /\ model'[m].turns = model[m].turns
        /\ cycles' = cycles /\ shutdown' = shutdown
    <3>1. CASE CacheHit(m) \/ EndWalk(m)
      BY <1>0, <3>1 DEF CacheHit, EndWalk, RootListed, At, Locals
    <3>2. CASE StartWalk(m)
      <4>1. PICK todo :
              /\ model' = [model EXCEPT ![m].todo = todo, ![m].found = {}, ![m].pc = "walk"]
              /\ model[m].pc = "list" /\ cycles' = cycles /\ shutdown' = shutdown
        BY <3>2 DEF StartWalk, At
      <4>2. QED BY <1>0, <4>1 DEF Locals
    <3>3. CASE \E d \in Dirs : ListDir(m, d)
      <4>1. PICK d \in Dirs, files \in SUBSET Files :
              /\ model' = [model EXCEPT ![m].todo = @ \ {d}, ![m].found = @ \cup files]
              /\ model[m].pc = "walk" /\ cycles' = cycles /\ shutdown' = shutdown
        BY <3>3 DEF ListDir, At
      <4>2. QED BY <1>0, <4>1 DEF Locals
    <3>4. CASE Choose(m) \/ ChooseFromStart(m)
      <4>1. PICK b : /\ model' = [model EXCEPT ![m].batch = b, ![m].pc = "begin"]
                     /\ model[m].pc = "choose" /\ cycles' = cycles /\ shutdown' = shutdown
        BY <3>4 DEF Choose, ChooseFromStart, At
      <4>2. QED BY <1>0, <4>1 DEF Locals
    <3>5. QED BY <1>4, <3>1, <3>2, <3>3, <3>4
  <2>2. QED BY <2>1, CountKept DEF Over
<1>5. CASE \/ StartTooLate(m) \/ Begin(m) \/ Submit(m) \/ JobDone(m) \/ JobFails(m)
           \/ Record(m)
  <2>1. /\ model[m].pc \in {"choose", "begin", "submit", "job", "record"}
        /\ model'[m].pc \in {"failed", "submit", "job", "record", "list"}
        /\ model'[m].config = model[m].config /\ model'[m].turns = model[m].turns
        /\ cycles' = cycles /\ shutdown' = shutdown
    <3>1. CASE StartTooLate(m) \/ Begin(m) \/ Submit(m)
      BY <1>0, <3>1 DEF StartTooLate, Begin, Submit, Goto, At, Locals
    <3>2. CASE JobDone(m) \/ JobFails(m)
      BY <1>0, <3>2 DEF JobDone, JobFails, Goto, At, Locals
    <3>3. CASE Record(m)
      BY <1>0, <3>3 DEF Record, Discovering, At, Locals
    <3>4. QED BY <1>5, <3>1, <3>2, <3>3
  <2>2. QED BY <2>1, CountKept DEF Over
<1>6. CASE NothingLeft(m)
  <2>1. /\ model[m].pc = "choose"
        /\ model'[m].pc =
              IF model[m].config.trigger = "processing_time" THEN "cycle" ELSE "done"
        /\ model'[m].config = model[m].config /\ model'[m].turns = model[m].turns
        /\ cycles' = cycles /\ shutdown' = shutdown
    BY <1>0, <1>6 DEF NothingLeft, Goto, At, Locals
  <2>2. model'[m].pc = "done" => model[m].config.maxCycles = 0
    BY <1>0, <2>1 DEF CyclesAreTimed
  <2>3. QED BY <2>1, <2>2, CountKept DEF Over
<1>7. QED
  BY <1>1, <1>2, <1>3, <1>4, <1>5, <1>6 DEF Step

(* A step of one model leaves the others their locals and their count. *)
LEMMA OthersKept ==
  ASSUME TypeInv, NEW m \in Models, Step(m), NEW n \in Models, n # m
  PROVE  /\ model'[n] = model[n] /\ cycles'[n] = cycles[n] /\ shutdown' = shutdown
         /\ ingested'[n] = ingested[n] /\ watermark'[n] = watermark[n]
         /\ now' = now /\ arrived' = arrived
<1> USE DEF world, adapter, process, tables, TypeInv, WorldOK, ModelsOK
<1>1. CASE \/ Start(m) \/ CacheHit(m) \/ StartWalk(m) \/ (\E d \in Dirs : ListDir(m, d))
           \/ EndWalk(m) \/ Choose(m) \/ ChooseFromStart(m)
  BY <1>1 DEF Start, Started, CacheHit, StartWalk, ListDir, EndWalk, Choose, ChooseFromStart,
              RootListed
<1>2. CASE StartTooLate(m) \/ NothingLeft(m) \/ Begin(m) \/ Submit(m) \/ JobDone(m) \/ JobFails(m)
  BY <1>2 DEF StartTooLate, NothingLeft, Begin, Submit, JobDone, JobFails, Goto
<1>3. CASE Record(m) \/ Cycle(m) \/ Wake(m)
  BY <1>3 DEF Record, Cycle, CycleEnds, Wake, Goto
<1>4. QED BY <1>1, <1>2, <1>3 DEF Step

CountInv == \A m \in Models : Counted(m)

(* max_cycles means what it says, for every number of models and whatever   *)
(* ran on their threads before.                                             *)
THEOREM CyclesEndTheModel ==
  ASSUME CyclesAreTimed
  PROVE  Spec => []EndsAfterItsCycles
<1>1. Init => CountInv
  BY IdleOK DEF Init, CountInv, Counted, Idle, Over
<1>2. TypeInv /\ CountInv /\ [Next]_vars => CountInv'
  <2> SUFFICES ASSUME TypeInv, CountInv, [Next]_vars, NEW n \in Models PROVE Counted(n)'
    BY DEF CountInv
  <2>0. Counted(n)
    BY DEF CountInv
  <2>1. CASE \E m \in Models : Step(m)
    <3>1. PICK m \in Models : Step(m)
      BY <2>1
    <3>2. CASE n = m
      BY <2>0, <3>1, <3>2, StepKeepsCount
    <3>3. CASE n # m
      BY <2>0, <3>1, <3>3, OthersKept DEF Counted
    <3>4. QED BY <3>2, <3>3
  <2>2. CASE Shutdown
    BY <2>0, <2>2 DEF Shutdown, Counted
  <2>3. CASE NewProcess
    <3>1. model'[n] = Idle
      BY <2>3 DEF NewProcess
    <3>2. QED BY <3>1 DEF Counted, Idle, Over
  <2>4. CASE Tick \/ (\E f \in Files : Arrive(f)) \/ Terminated \/ UNCHANGED vars
    BY <2>0, <2>4 DEF Tick, Arrive, Terminated, vars, process, Counted
  <2>5. QED BY <2>1, <2>2, <2>3, <2>4 DEF Next
<1>3. CountInv => EndsAfterItsCycles
  BY DEF CountInv, Counted, EndsAfterItsCycles, At
<1>4. QED BY <1>1, <1>2, <1>3, TypesHold, PTL DEF Spec

-----------------------------------------------------------------------------
(* The assumptions of the theorems about files. *)
OneModel == \A m, n \in Models : m = n
NoCycles == \A c \in Configs : c.trigger = "available_now"
Hypotheses == Steady /\ "listFails" \notin Faults /\ (OneModel \/ NoCycles)

(* Everything in the cache was listed at one time, in the order of the      *)
(* roots, and the clock stands still until all roots are.                   *)
IsListed(r) == cache[r] # NotListed
Before(r, time) == {f \in Present(r) : arrived[f] <= time}
Partial == \E q, r \in Roots : IsListed(q) /\ ~IsListed(r)

Found(m, root, time) ==
    {f \in Files : /\ RootOf[DirOf[f]] < root
                   /\ Position(m) < arrived[f]
                   /\ arrived[f] <= time /\ arrived[f] <= now - Buffer}

Looking(m, l, time) ==
    /\ l.pc \in {"list", "walk", "choose"} =>
          /\ \A r \in Roots : r < l.root => IsListed(r)
          /\ l.ready = Found(m, l.root, time)
    /\ l.pc = "walk" =>
          /\ time = now
          /\ l.found = {f \in Present(l.root) : DirOf[f] \notin l.todo}
          /\ \A d \in l.todo : RootOf[d] = l.root
    /\ l.pc = "choose" => l.root = NumRoots + 1
    /\ NoCycles => l.pc # "cycle"

Coherent(time) ==
    /\ time <= now
    /\ \A r \in Roots : IsListed(r) => cache[r] = Before(r, time)
    /\ \A q, r \in Roots : IsListed(r) /\ q < r => IsListed(q)
    /\ Partial => time = now /\ \E m \in Models : InDiscovery(m)
    /\ \A m \in Models : Looking(m, model[m], time)

(* A batch follows what the watermark has passed, and leaves no file out.   *)
Follows(m, fs) ==
    /\ fs \subseteq infos
    /\ \A g \in fs : watermark[m] < arrived[g]
    /\ \A g \in fs : \A f \in Files :
          /\ StartingTimestamp < arrived[f] /\ watermark[m] < arrived[f]
          /\ arrived[f] <= arrived[g]
          => f \in fs

Recorded(m, l) ==
    /\ l.pc \in InBatch => Follows(m, l.batch)
    /\ l.pc = "record" => l.batch \subseteq ingested[m]
    /\ \A f \in ingested[m] :
          /\ arrived[f] # 0
          /\ arrived[f] <= watermark[m] \/ (l.pc = "record" /\ f \in l.batch)
    /\ \A f \in Files :
          StartingTimestamp < arrived[f] /\ arrived[f] <= watermark[m] => f \in ingested[m]

DistinctTimes == \A f, g \in Files : arrived[f] # 0 /\ arrived[f] = arrived[g] => f = g

DiscoveryInv ==
    /\ DistinctTimes
    /\ \E time \in Nat : Coherent(time)
    /\ \A m \in Models : Recorded(m, model[m])
-----------------------------------------------------------------------------
(* One step of a model: what the others see of it *)

LEMMA OthersRecorded ==
  ASSUME TypeInv, NEW m \in Models, Step(m), NEW n \in Models, n # m,
         infos \subseteq infos', Recorded(n, model[n])
  PROVE  Recorded(n, model[n])'
<1>1. /\ model'[n] = model[n] /\ ingested'[n] = ingested[n] /\ watermark'[n] = watermark[n]
      /\ arrived' = arrived
  BY OthersKept
<1>2. QED BY <1>1 DEF Recorded, Follows

LEMMA OthersLooking ==
  ASSUME TypeInv, NEW m \in Models, Step(m), NEW n \in Models, n # m, NEW time \in Nat,
         \A r \in Roots : IsListed(r) => IsListed(r)',
         Looking(n, model[n], time)
  PROVE  Looking(n, model[n], time)'
<1>1. /\ model'[n] = model[n] /\ watermark'[n] = watermark[n]
      /\ now' = now /\ arrived' = arrived
  BY OthersKept
<1>2. Position(n)' = Position(n)
  BY <1>1 DEF Position, UsesStart
<1>3. \A root : Found(n, root, time)' = Found(n, root, time)
  BY <1>1, <1>2 DEF Found
<1>4. \A r : Present(r)' = Present(r)
  BY <1>1 DEF Present
<1>5. QED BY <1>1, <1>3, <1>4 DEF Looking

(* The listings stay, and the model goes on looking or leaves complete      *)
(* listings behind.                                                         *)
LEMMA CoherentKept ==
  ASSUME TypeInv, NEW m \in Models, Step(m), NEW time \in Nat, Coherent(time),
         now' = now, arrived' = arrived, cache' = cache,
         Looking(m, model[m], time)',
         InDiscovery(m)' \/ ~InDiscovery(m) \/ ~Partial
  PROVE  Coherent(time)'
<1>1. \A r : /\ IsListed(r)' <=> IsListed(r)
             /\ Present(r)' = Present(r) /\ Before(r, time)' = Before(r, time)
  BY DEF IsListed, Present, Before
<1>2. \A n \in Models : Looking(n, model[n], time)'
  <2> SUFFICES ASSUME NEW n \in Models PROVE Looking(n, model[n], time)'
    OBVIOUS
  <2>1. CASE n = m
    BY <2>1
  <2>2. CASE n # m
    BY <1>1, <2>2, OthersLooking DEF Coherent
  <2>3. QED BY <2>1, <2>2
<1>3. Partial' => now' = time /\ \E n \in Models : InDiscovery(n)'
  <2> SUFFICES ASSUME Partial' PROVE now' = time /\ \E n \in Models : InDiscovery(n)'
    OBVIOUS
  <2>1. Partial /\ time = now
    BY <1>1 DEF Partial, Coherent
  <2>2. PICK n \in Models : InDiscovery(n)
    BY <2>1 DEF Coherent
  <2>3. n # m => InDiscovery(n)'
    BY <2>2, OthersKept DEF InDiscovery, At
  <2>4. QED BY <2>1, <2>2, <2>3
<1>4. QED BY <1>1, <1>2, <1>3 DEF Coherent

LEMMA RecordedKept ==
  ASSUME TypeInv, NEW m \in Models, Recorded(m, model[m]), infos \subseteq infos',
         arrived' = arrived, watermark'[m] = watermark[m], ingested'[m] = ingested[m],
         model'[m].batch = model[m].batch, model[m].pc # "record", model'[m].pc # "record",
         model'[m].pc \in InBatch => model[m].pc \in InBatch
  PROVE  Recorded(m, model[m])'
BY DEF Recorded, Follows

(* Outside of a batch nothing is asked of the locals. *)
LEMMA RecordedApart ==
  ASSUME TypeInv, NEW m \in Models, Recorded(m, model[m]),
         arrived' = arrived, watermark'[m] = watermark[m], ingested'[m] = ingested[m],
         model[m].pc # "record", model'[m].pc \notin InBatch
  PROVE  Recorded(m, model[m])'
BY DEF Recorded, InBatch

LEMMA StepTogether ==
  ASSUME TypeInv, DiscoveryInv, NEW m \in Models, Step(m), NEW time \in Nat, Coherent(time)',
         infos \subseteq infos' \/ OneModel, Recorded(m, model[m])', arrived' = arrived
  PROVE  DiscoveryInv'
<1>1. DistinctTimes'
  BY DEF DiscoveryInv, DistinctTimes
<1>2. ASSUME NEW n \in Models PROVE Recorded(n, model[n])'
  <2>1. CASE n = m
    BY <2>1
  <2>2. CASE n # m
    BY <2>2, OthersRecorded DEF OneModel, DiscoveryInv
  <2>3. QED BY <2>1, <2>2
<1>3. QED BY <1>1, <1>2 DEF DiscoveryInv

-----------------------------------------------------------------------------
(* The steps of a discovery *)

LEMMA FoundInRoot ==
  ASSUME TypeInv, NEW m \in Models, NEW time \in Nat, NEW root \in Roots
  PROVE  Found(m, root + 1, time) = Found(m, root, time) \cup Eligible(m, Before(root, time))
<1>1. Position(m) \in Nat /\ \A f \in Files : arrived[f] \in Nat
  BY Consts DEF Position, UsesStart, TypeInv, WorldOK
<1>2. \A f \in Files : RootOf[DirOf[f]] \in Nat /\ root \in Nat
  BY Consts DEF Roots
<1>3. \A f \in Files : RootOf[DirOf[f]] < root + 1 <=>
                          RootOf[DirOf[f]] < root \/ RootOf[DirOf[f]] = root
  BY <1>2
<1>4. \A f \in Files : Position(m) < arrived[f] => arrived[f] # 0
  BY <1>1
<1>5. QED BY <1>3, <1>4 DEF Found, Eligible, Before, Present

LEMMA NothingFound ==
  ASSUME TypeInv, NEW m \in Models, NEW time \in Nat
  PROVE  Found(m, 1, time) = {}
<1>1. \A f \in Files : ~(RootOf[DirOf[f]] < 1)
  BY Consts DEF Roots
<1>2. QED BY <1>1 DEF Found

LEMMA NextRoot ==
  ASSUME TypeInv, NEW m \in Models, NEW time \in Nat,
         model[m].pc \in {"list", "walk"}, Looking(m, model[m], time),
         RootListed(m, Before(model[m].root, time)),
         UNCHANGED <<now, arrived, watermark>>,
         \A r \in Roots : IsListed(r) => IsListed(r)', cache'[model[m].root] # NotListed
  PROVE  Looking(m, model[m], time)' /\ InDiscovery(m)' /\ model'[m].pc \notin InBatch
<1>1. PICK root \in Roots : root = model[m].root
  BY Consts DEF TypeInv, ModelsOK, LocalsOK, Locals, Roots
<1>2. model \in [Models -> Locals] /\ root \in Nat /\ root >= 1
  BY Consts DEF TypeInv, ModelsOK, Roots
<1>3. /\ model'[m].root = root + 1
      /\ model'[m].ready = model[m].ready \cup Eligible(m, Before(root, time))
      /\ model'[m].pc = IF root + 1 > NumRoots THEN "choose" ELSE "list"
  BY <1>1, <1>2 DEF RootListed, Locals
<1>4. model'[m].ready = Found(m, root + 1, time)
  BY <1>1, <1>3, FoundInRoot DEF Looking
<1>5. Found(m, root + 1, time)' = Found(m, root + 1, time)
  BY DEF Found, Position, UsesStart
<1>6. Found(m, model[m].root, time)' = Found(m, root + 1, time)
  BY <1>3, <1>5 DEF Found, Position, UsesStart
<1>7. \A r \in Roots : r < root + 1 => IsListed(r)'
  <2> SUFFICES ASSUME NEW r \in Roots, r < root + 1 PROVE IsListed(r)'
    OBVIOUS
  <2>1. r < root \/ r = root
    BY <1>2 DEF Roots
  <2>2. r < root => IsListed(r)
    BY <1>1 DEF Looking
  <2>3. QED BY <1>1, <2>1, <2>2 DEF IsListed
<1>8. model'[m].pc = "choose" => root + 1 = NumRoots + 1
  BY <1>1, <1>2, <1>3, Consts DEF Roots
<1>9. /\ model'[m].pc \in {"choose", "list"} /\ root + 1 > 1
  BY <1>2, <1>3
<1>10. Looking(m, model[m], time)'
  BY <1>3, <1>4, <1>6, <1>7, <1>8, <1>9 DEF Looking
<1>11. QED BY <1>3, <1>9, <1>10 DEF InDiscovery, At, InBatch

(* A root that is not listed yet is walked at the time of the others: a     *)
(* discovery that finds no listing sets the time.                           *)
LEMMA WalkIsNow ==
  ASSUME TypeInv, NEW time \in Nat, Coherent(time), NEW root \in Roots, ~IsListed(root)
  PROVE  \E t \in Nat : t = now /\ Coherent(t)
<1>1. PICK t \in Nat : t = now
  BY DEF TypeInv, WorldOK
<1>2. CASE \E r \in Roots : IsListed(r)
  BY <1>1, <1>2 DEF Coherent, Partial
<1>3. CASE \A r \in Roots : ~IsListed(r)
  <2>1. ASSUME NEW n \in Models PROVE Looking(n, model[n], t)
    <3>1. Looking(n, model[n], time) /\ model[n].root \in 1..(NumRoots + 1) /\ 1 \in Roots
      BY Consts DEF Coherent, TypeInv, ModelsOK, Locals, Roots
    <3>2. model[n].pc \in {"list", "walk", "choose"} => model[n].root = 1 /\ model[n].ready = {}
      <4>1. SUFFICES ASSUME model[n].pc \in {"list", "walk", "choose"}
                     PROVE  model[n].root = 1 /\ model[n].ready = {}
        OBVIOUS
      <4>2. ~(1 < model[n].root)
        BY <1>3, <3>1, <4>1 DEF Looking
      <4>3. model[n].root = 1
        BY <3>1, <4>2, Consts
      <4>4. QED BY <3>1, <4>1, <4>3, NothingFound DEF Looking
    <3>3. Found(n, 1, t) = {}
      BY NothingFound
    <3>4. QED BY <1>1, <1>3, <3>1, <3>2, <3>3 DEF Looking
  <2>2. t <= now /\ ~Partial
    BY <1>1, <1>3 DEF Partial, TypeInv, WorldOK
  <2>3. QED BY <1>1, <1>3, <2>1, <2>2 DEF Coherent
<1>4. QED BY <1>2, <1>3

LEMMA CacheHitKeeps ==
  ASSUME TypeInv, DiscoveryInv, NEW m \in Models, CacheHit(m)
  PROVE  DiscoveryInv'
<1> USE DEF world, adapter, process, tables
<1>1. PICK time \in Nat : Coherent(time)
  BY DEF DiscoveryInv
<1>2. model[m].pc = "list" /\ model[m].root \in Roots /\ IsListed(model[m].root)
  BY Consts DEF CacheHit, At, IsListed, TypeInv, ModelsOK, LocalsOK, Locals, Roots
<1>3. cache[model[m].root] = Before(model[m].root, time) /\ Looking(m, model[m], time)
  BY <1>1, <1>2 DEF Coherent
<1>4. RootListed(m, Before(model[m].root, time)) /\ cache' = cache
  BY <1>3 DEF CacheHit
<1>5. Looking(m, model[m], time)' /\ InDiscovery(m)' /\ model'[m].pc \notin InBatch
  BY <1>2, <1>3, <1>4, NextRoot DEF CacheHit, IsListed
<1>6. Step(m)
  BY DEF Step
<1>7. Coherent(time)'
  BY <1>1, <1>4, <1>5, <1>6, CoherentKept DEF CacheHit
<1>8. Recorded(m, model[m])'
  BY <1>2, <1>5, RecordedApart DEF CacheHit, DiscoveryInv
<1>9. QED BY <1>6, <1>7, <1>8, StepTogether DEF CacheHit

LEMMA StartWalkKeeps ==
  ASSUME TypeInv, DiscoveryInv, NEW m \in Models, StartWalk(m)
  PROVE  DiscoveryInv'
<1> USE DEF world, adapter, process, tables
<1>1. PICK root \in Roots : root = model[m].root /\ ~IsListed(root)
  <2>1. model[m].pc = "list" /\ cache[model[m].root] = NotListed
    BY DEF StartWalk, At
  <2>2. model[m].root \in Roots
    BY <2>1, Consts DEF TypeInv, ModelsOK, LocalsOK, Locals, Roots
  <2>3. QED BY <2>1, <2>2 DEF IsListed
<1>2. PICK time \in Nat : time = now /\ Coherent(time)
  BY <1>1, WalkIsNow DEF DiscoveryInv
<1>3. PICK todo \in SUBSET Dirs : todo = {d \in Dirs : RootOf[d] = root}
  OBVIOUS
<1>4. /\ model[m].pc = "list" /\ model \in [Models -> Locals] /\ model[m] \in Locals
      /\ model' = [model EXCEPT ![m].todo = todo, ![m].found = {}, ![m].pc = "walk"]
  BY <1>1, <1>3 DEF StartWalk, At, TypeInv, ModelsOK
<1>5. /\ model'[m].pc = "walk" /\ model'[m].todo = todo /\ model'[m].found = {}
      /\ model'[m].root = root /\ model'[m].ready = model[m].ready
  BY <1>1, <1>4 DEF Locals
<1>6. /\ \A r \in Roots : r < root => IsListed(r)
      /\ model[m].ready = Found(m, root, time)
  BY <1>1, <1>2, <1>4 DEF Coherent, Looking
<1>7. {f \in Present(root) : DirOf[f] \notin todo} = {}
  BY <1>3, Consts DEF Present
<1>8. /\ cache' = cache /\ now' = now /\ arrived' = arrived /\ watermark' = watermark
      /\ ingested' = ingested /\ infos' = infos
  BY DEF StartWalk
<1>9. /\ Found(m, root, time)' = Found(m, root, time) /\ Present(root)' = Present(root)
      /\ \A r \in Roots : IsListed(r)' <=> IsListed(r)
  BY <1>8 DEF Found, Present, IsListed, Position, UsesStart
<1>10. Looking(m, model[m], time)'
  <2>1. \A r \in Roots : r < model'[m].root => IsListed(r)'
    BY <1>5, <1>6, <1>9
  <2>2. Found(m, model[m].root, time)' = Found(m, root, time)
    BY <1>5, <1>9 DEF Found, Position, UsesStart
  <2>3. {f \in Present(model[m].root) : DirOf[f] \notin todo}' = {}
    BY <1>5, <1>7, <1>9 DEF Present
  <2>4. \A d \in todo : RootOf[d] = root
    BY <1>3
  <2>5. QED BY <1>2, <1>5, <1>6, <1>8, <2>1, <2>2, <2>3, <2>4 DEF Looking
<1>11. InDiscovery(m)' /\ model'[m].pc \notin InBatch
  BY <1>5 DEF InDiscovery, InBatch
<1>12. Step(m)
  BY DEF Step
<1>13. Coherent(time)'
  BY <1>2, <1>8, <1>10, <1>11, <1>12, CoherentKept
<1>14. Recorded(m, model[m])'
  BY <1>4, <1>8, <1>11, RecordedApart DEF DiscoveryInv
<1>15. QED BY <1>8, <1>12, <1>13, <1>14, StepTogether

LEMMA ListDirKeeps ==
  ASSUME TypeInv, Hypotheses, DiscoveryInv, NEW m \in Models, NEW d \in Dirs, ListDir(m, d)
  PROVE  DiscoveryInv'
<1> USE DEF world, adapter, process, tables
<1>1. PICK time \in Nat : Coherent(time)
  BY DEF DiscoveryInv
<1>2. PICK files \in SUBSET Files : files = {f \in Files : arrived[f] # 0 /\ DirOf[f] = d}
  OBVIOUS
<1>3. /\ model[m].pc = "walk" /\ d \in model[m].todo
      /\ model' = [model EXCEPT ![m].todo = @ \ {d}, ![m].found = @ \cup files]
      /\ model \in [Models -> Locals] /\ model[m] \in Locals
  BY <1>2 DEF ListDir, At, Hypotheses, TypeInv, ModelsOK
<1>4. PICK root \in Roots : root = model[m].root
  BY <1>3 DEF TypeInv, ModelsOK, LocalsOK, Locals, Roots
<1>5. PICK todo \in SUBSET Dirs : todo = model[m].todo
  BY <1>3 DEF Locals
<1>6. /\ model'[m].pc = "walk" /\ model'[m].todo = todo \ {d}
      /\ model'[m].found = model[m].found \cup files
      /\ model'[m].root = root /\ model'[m].ready = model[m].ready
  BY <1>3, <1>4, <1>5 DEF Locals
<1>7. /\ \A r \in Roots : r < root => IsListed(r)
      /\ model[m].ready = Found(m, root, time) /\ time = now
      /\ model[m].found = {f \in Present(root) : DirOf[f] \notin todo}
      /\ \A e \in todo : RootOf[e] = root
  BY <1>1, <1>3, <1>4, <1>5 DEF Coherent, Looking
<1>8. model[m].found \cup files = {f \in Present(root) : DirOf[f] \notin todo \ {d}}
  BY <1>2, <1>3, <1>5, <1>7 DEF Present
<1>9. /\ cache' = cache /\ now' = now /\ arrived' = arrived /\ watermark' = watermark
      /\ ingested' = ingested /\ infos' = infos
  BY DEF ListDir
<1>10. /\ \A r \in Roots : IsListed(r)' <=> IsListed(r)
  BY <1>9 DEF IsListed
<1>11. Looking(m, model[m], time)'
  <2>1. \A r \in Roots : r < model'[m].root => IsListed(r)'
    BY <1>6, <1>7, <1>10
  <2>2. Found(m, model[m].root, time)' = Found(m, root, time)
    BY <1>6, <1>9 DEF Found, Position, UsesStart
  <2>3. Present(model[m].root)' = Present(root)
    BY <1>6, <1>9 DEF Present
  <2>4. QED BY <1>6, <1>7, <1>8, <1>9, <2>1, <2>2, <2>3 DEF Looking
<1>12. InDiscovery(m)' /\ model'[m].pc \notin InBatch
  BY <1>6 DEF InDiscovery, InBatch
<1>13. Step(m)
  BY DEF Step
<1>14. Coherent(time)'
  BY <1>1, <1>9, <1>11, <1>12, <1>13, CoherentKept
<1>15. Recorded(m, model[m])'
  BY <1>3, <1>9, <1>12, RecordedApart DEF DiscoveryInv
<1>16. QED BY <1>9, <1>13, <1>14, <1>15, StepTogether

LEMMA EndWalkKeeps ==
  ASSUME TypeInv, DiscoveryInv, NEW m \in Models, EndWalk(m)
  PROVE  DiscoveryInv'
<1> USE DEF world, adapter, process, tables
<1>1. PICK time \in Nat : Coherent(time)
  BY DEF DiscoveryInv
<1>2. model[m].pc = "walk" /\ model[m].todo = {} /\ Looking(m, model[m], time)
  BY <1>1 DEF EndWalk, At, Coherent
<1>3. PICK root \in Roots : root = model[m].root
  BY <1>2 DEF TypeInv, ModelsOK, LocalsOK, Locals, Roots
<1>4. /\ time = now /\ \A r \in Roots : r < root => IsListed(r)
      /\ model[m].found = Present(root)
  BY <1>2, <1>3 DEF Looking
<1>5. Before(root, time) = Present(root)
  BY <1>4 DEF Before, Present, TypeInv, WorldOK
<1>6. Before(root, time) # NotListed
  BY NumberedFromOne DEF Before, Present, NotListed
<1>7. /\ cache' = [cache EXCEPT ![root] = Before(root, time)] /\ cache \in [Roots -> SUBSET (Files \cup {0})]
      /\ now' = now /\ arrived' = arrived /\ watermark' = watermark
      /\ ingested' = ingested /\ infos' = infos
  BY <1>3, <1>4, <1>5 DEF EndWalk, TypeInv, WorldOK
<1>8. /\ cache'[root] = Before(root, time) /\ cache'[root] # NotListed
      /\ \A r \in Roots \ {root} : cache'[r] = cache[r]
  BY <1>6, <1>7
<1>9. \A r \in Roots : IsListed(r)' <=> IsListed(r) \/ r = root
  BY <1>8 DEF IsListed
<1>10. Looking(m, model[m], time)' /\ InDiscovery(m)' /\ model'[m].pc \notin InBatch
  BY <1>2, <1>3, <1>4, <1>5, <1>7, <1>8, <1>9, NextRoot DEF EndWalk
<1>11. Step(m)
  BY DEF Step
<1>12. Coherent(time)'
  <2>1. \A r \in Roots : IsListed(r)' => cache'[r] = Before(r, time)
    BY <1>1, <1>8, <1>9 DEF Coherent
  <2>2. \A r \in Roots : Before(r, time)' = Before(r, time)
    BY <1>7 DEF Before, Present
  <2>3. \A q, r \in Roots : IsListed(r)' /\ q < r => IsListed(q)'
    BY <1>1, <1>4, <1>9 DEF Coherent
  <2>4. ASSUME NEW n \in Models PROVE Looking(n, model[n], time)'
    <3>1. CASE n = m
      BY <1>10, <3>1
    <3>2. CASE n # m
      BY <1>1, <1>9, <1>11, <3>2, OthersLooking DEF Coherent
    <3>3. QED BY <3>1, <3>2
  <2>5. time <= now' /\ time = now'
    BY <1>1, <1>4, <1>7 DEF Coherent
  <2>6. QED BY <1>10, <2>1, <2>2, <2>3, <2>4, <2>5 DEF Coherent
<1>13. Recorded(m, model[m])'
  BY <1>2, <1>7, <1>10, RecordedApart DEF DiscoveryInv
<1>14. QED BY <1>7, <1>11, <1>12, <1>13, StepTogether

-----------------------------------------------------------------------------
(* The choice of a batch: every root is listed by then *)

LEMMA AllListed ==
  ASSUME TypeInv, NEW m \in Models, model[m].pc = "choose", NEW time \in Nat, Coherent(time)
  PROVE  /\ \A r \in Roots : IsListed(r)
         /\ ~Partial
         /\ Relisted = cache
         /\ \A f \in Files : arrived[f] # 0 /\ arrived[f] <= time => f \in AllRelisted
         /\ \A f \in AllRelisted : arrived[f] <= time
         /\ \A f \in Files : f \in model[m].ready <=>
                /\ Position(m) < arrived[f]
                /\ arrived[f] <= time /\ arrived[f] <= now - Buffer
<1>1. model[m].root = NumRoots + 1 /\ model[m].ready = Found(m, NumRoots + 1, time)
  BY DEF Coherent, Looking
<1>2. \A r \in Roots : r < NumRoots + 1
  BY Consts DEF Roots
<1>3. \A r \in Roots : IsListed(r)
  BY <1>1, <1>2 DEF Coherent, Looking
<1>4. cache \in [Roots -> SUBSET (Files \cup {0})]
  BY DEF TypeInv, WorldOK
<1>5. Relisted = cache
  BY <1>3, <1>4 DEF Relisted, IsListed
<1>6. \A r \in Roots : Relisted[r] = Before(r, time)
  BY <1>3, <1>5 DEF Coherent
<1>7. \A f \in Files : RootOf[DirOf[f]] \in Roots
  BY Consts
<1>8. /\ \A f \in Files : arrived[f] # 0 /\ arrived[f] <= time => f \in AllRelisted
      /\ \A f \in AllRelisted : arrived[f] <= time
  BY <1>6, <1>7 DEF AllRelisted, Before, Present
<1>9. \A f \in Files : f \in model[m].ready <=>
          /\ Position(m) < arrived[f]
          /\ arrived[f] <= time /\ arrived[f] <= now - Buffer
  BY <1>1, <1>2, <1>7 DEF Found
<1>10. QED BY <1>3, <1>5, <1>8, <1>9 DEF Partial

(* A step after the listings: nothing is left of the discovery. *)
LEMMA LeavesDiscovery ==
  ASSUME TypeInv, NEW m \in Models, Step(m), NEW time \in Nat, Coherent(time),
         now' = now, arrived' = arrived, cache' = cache,
         ~InDiscovery(m) \/ ~Partial, model'[m].pc \notin {"list", "walk", "choose"},
         NoCycles => model'[m].pc # "cycle"
  PROVE  Coherent(time)'
<1>1. Looking(m, model[m], time)'
  BY DEF Looking
<1>2. QED BY <1>1, CoherentKept

LEMMA ChooseKeeps ==
  ASSUME TypeInv, DiscoveryInv, NEW m \in Models, Choose(m)
  PROVE  DiscoveryInv'
<1> USE DEF world, adapter, process, tables
<1>1. PICK time \in Nat : Coherent(time)
  BY DEF DiscoveryInv
<1>2. PICK b \in SUBSET Files :
        /\ b \subseteq model[m].ready
        /\ \A f \in b : \A g \in model[m].ready : arrived[g] < arrived[f] => g \in b
        /\ model' = [model EXCEPT ![m].batch = b, ![m].pc = "begin"]
  BY DEF Choose, OldestFirst, TypeInv, ModelsOK, Locals
<1>3. /\ model[m].pc = "choose" /\ model'[m].pc = "begin" /\ model'[m].batch = b
      /\ infos' = infos \cup model[m].ready
  BY <1>2 DEF Choose, At, TypeInv, ModelsOK, Locals
<1>4. /\ cache' = cache /\ now' = now /\ arrived' = arrived /\ watermark' = watermark
      /\ ingested' = ingested
  BY DEF Choose
<1>5. Step(m)
  BY DEF Step
<1>6. ~Partial /\ \A f \in Files : f \in model[m].ready <=>
          /\ Position(m) < arrived[f]
          /\ arrived[f] <= time /\ arrived[f] <= now - Buffer
  BY <1>1, <1>3, AllListed
<1>7. Coherent(time)'
  BY <1>1, <1>3, <1>4, <1>5, <1>6, LeavesDiscovery
<1>8. /\ watermark[m] \in Nat /\ Position(m) \in Nat /\ now - Buffer \in Int
      /\ \A f \in Files : arrived[f] \in Nat
      /\ \A f \in Files : Position(m) < arrived[f] => watermark[m] < arrived[f]
      /\ \A f \in Files : StartingTimestamp < arrived[f] /\ watermark[m] < arrived[f] =>
             Position(m) < arrived[f]
  BY Consts DEF Position, UsesStart, TypeInv, WorldOK
<1>9. ASSUME NEW g \in b, NEW f \in Files, StartingTimestamp < arrived[f],
             watermark[m] < arrived[f], arrived[f] <= arrived[g]
      PROVE  f \in b
  <2>1. g \in model[m].ready /\ g \in Files
    BY <1>2
  <2>2. f \in model[m].ready
    BY <1>6, <1>8, <1>9, <2>1
  <2>3. CASE arrived[f] < arrived[g]
    BY <1>2, <2>2, <2>3
  <2>4. CASE arrived[f] = arrived[g]
    BY <1>8, <1>9, <2>1, <2>4 DEF DiscoveryInv, DistinctTimes
  <2>5. QED BY <1>8, <1>9, <2>1, <2>3, <2>4
<1>10. b \subseteq infos' /\ \A g \in b : watermark[m] < arrived[g]
  BY <1>2, <1>3, <1>6, <1>8
<1>11. Follows(m, b)'
  BY <1>4, <1>9, <1>10 DEF Follows
<1>12. Recorded(m, model[m])'
  BY <1>3, <1>4, <1>11 DEF Recorded, DiscoveryInv, Follows
<1>13. QED BY <1>3, <1>4, <1>5, <1>7, <1>12, StepTogether

LEMMA ChooseFromStartKeeps ==
  ASSUME TypeInv, DiscoveryInv, NEW m \in Models, ChooseFromStart(m)
  PROVE  DiscoveryInv'
<1> USE DEF world, adapter, process, tables
<1>1. PICK time \in Nat : Coherent(time)
  BY DEF DiscoveryInv
<1>2. PICK h \in Latest(AllRelisted) :
        /\ model' = [model EXCEPT ![m].batch = {h}, ![m].pc = "begin"]
        /\ infos' = infos \cup {h}
  BY DEF ChooseFromStart
<1>3. /\ model[m].pc = "choose" /\ model[m].ready = {} /\ UsesStart(m)
      /\ model'[m].pc = "begin" /\ model'[m].batch = {h}
  BY <1>2 DEF ChooseFromStart, At, TypeInv, ModelsOK, Locals
<1>4. /\ ~Partial /\ Relisted = cache
      /\ \A f \in AllRelisted : arrived[f] <= time
      /\ \A f \in Files : f \in model[m].ready <=>
             /\ Position(m) < arrived[f]
             /\ arrived[f] <= time /\ arrived[f] <= now - Buffer
  BY <1>1, <1>3, AllListed
<1>5. /\ cache' = cache /\ now' = now /\ arrived' = arrived /\ watermark' = watermark
      /\ ingested' = ingested
  BY <1>4 DEF ChooseFromStart
<1>6. Step(m)
  BY DEF Step
<1>7. Coherent(time)'
  BY <1>1, <1>3, <1>4, <1>5, <1>6, LeavesDiscovery
<1>8. /\ h \in Files /\ arrived[h] # 0 /\ arrived[h] <= time /\ arrived[h] <= now - Buffer
      /\ watermark[m] = 0 /\ Position(m) = StartingTimestamp
  BY <1>3, <1>4, RelistedOK DEF Latest, UsesStart, Position
<1>9. now - Buffer \in Int /\ \A f \in Files : arrived[f] \in Nat
  BY Consts DEF TypeInv, WorldOK
<1>10. \A f \in Files : StartingTimestamp < arrived[f] /\ arrived[f] <= arrived[h] => FALSE
  BY <1>3, <1>4, <1>8, <1>9, Consts
<1>11. Follows(m, {h})'
  BY <1>2, <1>5, <1>8, <1>9, <1>10 DEF Follows
<1>12. Recorded(m, model[m])'
  BY <1>3, <1>5, <1>11 DEF Recorded, DiscoveryInv, Follows
<1>13. QED BY <1>2, <1>5, <1>6, <1>7, <1>12, StepTogether

LEMMA NoBatchKeeps ==
  ASSUME TypeInv, DiscoveryInv, NEW m \in Models, StartTooLate(m) \/ NothingLeft(m)
  PROVE  DiscoveryInv'
<1> USE DEF world, adapter, process, tables
<1>1. PICK time \in Nat : Coherent(time)
  BY DEF DiscoveryInv
<1>2. /\ model[m].pc = "choose" /\ infos' = infos /\ now' = now /\ arrived' = arrived
      /\ watermark' = watermark /\ ingested' = ingested
      /\ model[m].config \in Configs /\ model \in [Models -> Locals]
  BY DEF StartTooLate, NothingLeft, At, TypeInv, ModelsOK, Locals
<1>3. ~Partial /\ Relisted = cache
  BY <1>1, <1>2, AllListed
<1>4. cache' = cache
  BY <1>3 DEF StartTooLate, NothingLeft, TypeInv, WorldOK
<1>5. /\ model'[m].pc \in {"failed", "cycle", "done"}
      /\ model'[m].pc = "cycle" => model[m].config.trigger = "processing_time"
  BY <1>2 DEF StartTooLate, NothingLeft, Goto, Locals
<1>6. NoCycles => model'[m].pc # "cycle"
  BY <1>2, <1>5 DEF NoCycles
<1>7. Step(m)
  BY DEF Step
<1>8. Coherent(time)'
  BY <1>1, <1>2, <1>3, <1>4, <1>5, <1>6, <1>7, LeavesDiscovery
<1>9. Recorded(m, model[m])'
  BY <1>2, <1>5, RecordedApart DEF InBatch, DiscoveryInv
<1>10. QED BY <1>2, <1>7, <1>8, <1>9, StepTogether

-----------------------------------------------------------------------------
(* The batch, and what is around the discoveries *)

(* Back at the first root, or done with looking. *)
LEMMA LooksAgain ==
  ASSUME TypeInv, NEW m \in Models, Step(m), NEW time \in Nat, Coherent(time),
         now' = now, arrived' = arrived, cache' = cache, ~InDiscovery(m),
         model'[m].pc = "list", model'[m].root = 1, model'[m].ready = {}
  PROVE  Coherent(time)'
<1>1. \A r \in Roots : ~(r < 1)
  BY DEF Roots
<1>2. \A f \in Files : ~(RootOf[DirOf[f]] < 1)
  BY Consts DEF Roots
<1>3. Found(m, model[m].root, time)' = {}
  BY <1>2 DEF Found
<1>4. Looking(m, model[m], time)'
  BY <1>1, <1>3 DEF Looking
<1>5. QED BY <1>4, CoherentKept

LEMMA BatchKeeps ==
  ASSUME TypeInv, DiscoveryInv, NEW m \in Models,
         Begin(m) \/ Submit(m) \/ JobDone(m) \/ JobFails(m)
  PROVE  DiscoveryInv'
<1> USE DEF world, adapter, process, tables
<1>1. PICK time \in Nat : Coherent(time)
  BY DEF DiscoveryInv
<1>2. /\ cache' = cache /\ now' = now /\ arrived' = arrived /\ watermark' = watermark
      /\ infos' = infos
      /\ model[m].pc \in {"begin", "submit", "job"}
      /\ model'[m].pc \in {"submit", "job", "record", "failed"}
      /\ model'[m].pc = "record" => JobDone(m)
      /\ model'[m].batch = model[m].batch
      /\ model[m] \in Locals /\ LocalsOK(model[m])
  BY DEF Begin, Submit, JobDone, JobFails, Goto, At, TypeInv, ModelsOK, Locals
<1>3. Step(m)
  BY DEF Step
<1>4. Coherent(time)'
  BY <1>1, <1>2, <1>3, LeavesDiscovery DEF InDiscovery, At
<1>5. Recorded(m, model[m]) /\ model[m].batch \subseteq Files
  BY <1>2 DEF DiscoveryInv, Locals
<1>6. CASE JobDone(m)
  <2>1. ingested'[m] = ingested[m] \cup model[m].batch /\ model'[m].pc = "record"
    BY <1>6 DEF JobDone, Goto, TypeInv, WorldOK, ModelsOK, Locals
  <2>2. \A f \in model[m].batch : arrived[f] # 0
    BY <1>2 DEF LocalsOK, OldEnough
  <2>3. Follows(m, model[m].batch)
    BY <1>2, <1>5 DEF Recorded, InBatch
  <2>4. Follows(m, model[m].batch)'
    BY <1>2, <2>3 DEF Follows
  <2>5. Recorded(m, model[m])'
    BY <1>2, <1>5, <2>1, <2>2, <2>4 DEF Recorded
  <2>6. QED BY <1>2, <1>3, <1>4, <2>5, StepTogether
<1>7. CASE ~JobDone(m)
  <2>1. ingested' = ingested
    BY <1>7 DEF Begin, Submit, JobFails
  <2>2. Recorded(m, model[m])'
    BY <1>2, <1>5, <1>7, <2>1, RecordedKept DEF InBatch
  <2>3. QED BY <1>2, <1>3, <1>4, <2>2, StepTogether
<1>8. QED BY <1>6, <1>7

LEMMA RecordKeeps ==
  ASSUME TypeInv, DiscoveryInv, NEW m \in Models, Record(m)
  PROVE  DiscoveryInv'
<1> USE DEF world, adapter, process, tables
<1>1. PICK time \in Nat : Coherent(time)
  BY DEF DiscoveryInv
<1>2. PICK batch \in SUBSET Files : batch = model[m].batch
  BY DEF TypeInv, ModelsOK, Locals
<1>3. /\ model[m].pc = "record" /\ batch # {}
      /\ Follows(m, batch) /\ batch \subseteq ingested[m]
      /\ Recorded(m, model[m])
  BY <1>2 DEF Record, At, TypeInv, ModelsOK, LocalsOK, InBatch, DiscoveryInv, Recorded
<1>4. /\ cache' = cache /\ now' = now /\ arrived' = arrived /\ infos' = infos
      /\ ingested' = ingested
      /\ watermark' = [watermark EXCEPT ![m] = Newest(m, batch)]
  BY <1>2, <1>3 DEF Record, Follows
<1>5. model'[m].pc = "list" /\ model'[m].root = 1 /\ model'[m].ready = {}
  BY DEF Record, Discovering, TypeInv, ModelsOK, Locals
<1>6. Step(m)
  BY DEF Step
<1>7. Coherent(time)'
  BY <1>1, <1>3, <1>4, <1>5, <1>6, LooksAgain DEF InDiscovery, At
<1>8. PICK g \in batch : watermark'[m] = arrived[g] /\ \A f \in batch : arrived[f] <= arrived[g]
  BY <1>3, <1>4, NewestIsNewest DEF TypeInv, WorldOK
<1>9. /\ watermark[m] \in Nat /\ watermark[m] < arrived[g]
       /\ \A f \in Files : arrived[f] \in Nat
  BY <1>3 DEF Follows, TypeInv, WorldOK
<1>10. \A f \in ingested[m] : arrived[f] # 0 /\ arrived[f] <= watermark'[m]
  <2> SUFFICES ASSUME NEW f \in ingested[m] PROVE arrived[f] # 0 /\ arrived[f] <= watermark'[m]
    OBVIOUS
  <2>1. f \in Files /\ arrived[f] # 0 /\ (arrived[f] <= watermark[m] \/ f \in batch)
    BY <1>2, <1>3 DEF Recorded, TypeInv, WorldOK
  <2>2. QED BY <1>8, <1>9, <2>1
<1>11. ASSUME NEW f \in Files, StartingTimestamp < arrived[f], arrived[f] <= watermark'[m]
       PROVE  f \in ingested[m]
  <2>1. CASE arrived[f] <= watermark[m]
    BY <1>3, <1>11, <2>1 DEF Recorded
  <2>2. CASE watermark[m] < arrived[f]
    BY <1>3, <1>8, <1>11, <2>2 DEF Follows
  <2>3. QED BY <1>9, <2>1, <2>2
<1>12. Recorded(m, model[m])'
  BY <1>4, <1>5, <1>10, <1>11 DEF Recorded, InBatch
<1>13. QED BY <1>4, <1>6, <1>7, <1>12, StepTogether

LEMMA CycleKeeps ==
  ASSUME TypeInv, Hypotheses, DiscoveryInv, NEW m \in Models, Cycle(m)
  PROVE  DiscoveryInv'
<1> USE DEF world, adapter, process, tables
<1>1. PICK time \in Nat : Coherent(time)
  BY DEF DiscoveryInv
<1>2. /\ model[m].pc = "cycle" /\ now' = now /\ arrived' = arrived
      /\ watermark' = watermark /\ ingested' = ingested
      /\ cache' = [r \in Roots |-> NotListed]
  BY DEF Cycle, At
<1>3. OneModel
  BY <1>1, <1>2 DEF Hypotheses, Coherent, Looking
<1>4. model'[m].pc \in {"done", "asleep"}
  BY DEF Cycle, CycleEnds, TypeInv, ModelsOK, Locals
<1>5. \A r \in Roots : ~IsListed(r)'
  BY <1>2 DEF IsListed
<1>6. ASSUME NEW n \in Models PROVE Looking(n, model[n], time)'
  BY <1>3, <1>4 DEF OneModel, Looking
<1>7. Coherent(time)'
  BY <1>1, <1>2, <1>5, <1>6 DEF Coherent, Partial
<1>8. Recorded(m, model[m])'
  BY <1>2, <1>4, RecordedApart DEF InBatch, DiscoveryInv
<1>9. Step(m)
  BY DEF Step
<1>10. QED BY <1>2, <1>3, <1>7, <1>8, <1>9, StepTogether

LEMMA StartAndWakeKeep ==
  ASSUME TypeInv, DiscoveryInv, NEW m \in Models, Start(m) \/ Wake(m)
  PROVE  DiscoveryInv'
<1> USE DEF world, adapter, process, tables
<1>1. PICK time \in Nat : Coherent(time)
  BY DEF DiscoveryInv
<1>2. /\ model[m].pc \in {"idle", "asleep"} /\ cache' = cache /\ now' = now
      /\ arrived' = arrived /\ watermark' = watermark /\ ingested' = ingested
      /\ infos' = infos
  BY DEF Start, Wake, At
<1>3. \/ model'[m].pc = "done"
      \/ model'[m].pc = "list" /\ model'[m].root = 1 /\ model'[m].ready = {}
  <2>1. CASE Start(m)
    <3>1. PICK c \in Configs :
            model' = [model EXCEPT ![m] = [Discovering(@) EXCEPT !.config = c]]
      BY <2>1 DEF Start, Started
    <3>2. QED BY <3>1 DEF Discovering, TypeInv, ModelsOK, Locals
  <2>2. CASE Wake(m)
    <3>1. model[m] \in Locals /\ model \in [Models -> Locals]
      BY DEF TypeInv, ModelsOK
    <3>2. \/ model' = [model EXCEPT ![m].pc = "done"]
          \/ model' = [model EXCEPT ![m] = Discovering(model[m])]
      BY <2>2 DEF Wake, Goto
    <3>3. CASE model' = [model EXCEPT ![m].pc = "done"]
      BY <3>1, <3>3 DEF Locals
    <3>4. CASE model' = [model EXCEPT ![m] = Discovering(model[m])]
      BY <3>1, <3>4 DEF Discovering, Locals
    <3>5. QED BY <3>2, <3>3, <3>4
  <2>3. QED BY <2>1, <2>2
<1>4. Step(m)
  BY DEF Step
<1>5. Coherent(time)'
  <2>1. ~InDiscovery(m)
    BY <1>2 DEF InDiscovery, At
  <2>2. CASE model'[m].pc = "done"
    BY <1>1, <1>2, <1>4, <2>1, <2>2, LeavesDiscovery
  <2>3. CASE model'[m].pc # "done"
    BY <1>1, <1>2, <1>3, <1>4, <2>1, <2>3, LooksAgain
  <2>4. QED BY <2>2, <2>3
<1>6. Recorded(m, model[m])'
  BY <1>2, <1>3, RecordedApart DEF InBatch, DiscoveryInv
<1>7. QED BY <1>2, <1>4, <1>5, <1>6, StepTogether

-----------------------------------------------------------------------------
(* The process and the world *)

LEMMA NewProcessKeeps ==
  ASSUME TypeInv, DiscoveryInv, NewProcess
  PROVE  DiscoveryInv'
<1> USE DEF world, tables
<1>1. PICK time \in Nat : Coherent(time)
  BY DEF DiscoveryInv
<1>2. /\ now' = now /\ arrived' = arrived /\ watermark' = watermark /\ ingested' = ingested
      /\ cache' = [r \in Roots |-> NotListed]
      /\ \A n \in Models : model[n].pc \in Over /\ model'[n] = Idle
  BY DEF NewProcess
<1>3. Idle.pc = "idle"
  BY DEF Idle
<1>4. \A r \in Roots : ~IsListed(r)'
  BY <1>2 DEF IsListed
<1>5. \A n \in Models : Looking(n, model[n], time)'
  BY <1>2, <1>3 DEF Looking
<1>6. Coherent(time)'
  BY <1>1, <1>2, <1>4, <1>5 DEF Coherent, Partial
<1>7. \A n \in Models : Recorded(n, model[n])'
  <2> SUFFICES ASSUME NEW n \in Models PROVE Recorded(n, model[n])'
    OBVIOUS
  <2>1. Recorded(n, model[n]) /\ model[n].pc # "record" /\ model'[n].pc = "idle"
    BY <1>2, <1>3 DEF DiscoveryInv, Over
  <2>2. QED BY <1>2, <2>1, RecordedApart DEF InBatch
<1>8. DistinctTimes'
  BY <1>2 DEF DiscoveryInv, DistinctTimes
<1>9. QED BY <1>6, <1>7, <1>8 DEF DiscoveryInv

(* Time passes when nobody is between two roots: what is listed is whole,   *)
(* and a file that arrives is newer than all that is listed or ingested.    *)
LEMMA ClockKeeps ==
  ASSUME TypeInv, Hypotheses, DiscoveryInv, Tick \/ \E f \in Files : Arrive(f)
  PROVE  DiscoveryInv'
<1> USE DEF adapter, process, tables
<1>1. PICK time \in Nat : Coherent(time)
  BY DEF DiscoveryInv
<1>2. /\ now \in Nat /\ now' = now + 1 /\ time <= now
      /\ \A n \in Models : ~InDiscovery(n)
      /\ UNCHANGED <<cache, infos, watermark, ingested, model>>
  BY <1>1 DEF Tick, Arrive, ClockRuns, Hypotheses, TypeInv, WorldOK, Coherent
<1>3. /\ arrived \in [Files -> Nat] /\ arrived' \in [Files -> Nat]
      /\ \A f \in Files : arrived[f] <= now
      /\ \A f \in Files : arrived'[f] = arrived[f] \/ (arrived[f] = 0 /\ arrived'[f] = now + 1)
      /\ \A f, g \in Files : arrived'[f] # arrived[f] /\ arrived'[g] # arrived[g] => f = g
  BY <1>2 DEF Tick, Arrive, TypeInv, WorldOK
<1>4. /\ watermark \in [Models -> Nat] /\ \A n \in Models : watermark[n] <= now
      /\ ingested \in [Models -> SUBSET Files]
  BY <1>2, Consts DEF TypeInv, WorldOK
<1>5. \A r : Before(r, time)' = Before(r, time) /\ (IsListed(r)' <=> IsListed(r))
  BY <1>2, <1>3 DEF Before, Present, IsListed
<1>6. ASSUME NEW n \in Models PROVE Looking(n, model[n], time)'
  <2>1. /\ Looking(n, model[n], time) /\ model'[n] = model[n]
        /\ model[n].pc \notin {"walk", "choose"}
        /\ model[n].pc = "list" => ~(model[n].root > 1)
    BY <1>1, <1>2 DEF Coherent, InDiscovery, At
  <2>2. model[n].pc = "list" => model[n].root = 1
    BY <2>1, Consts DEF TypeInv, ModelsOK, Locals
  <2>3. Found(n, 1, time) = {} /\ \A f \in Files : ~(RootOf[DirOf[f]] < 1)
    BY NothingFound, Consts DEF Roots
  <2>4. Found(n, 1, time)' = {}
    BY <2>3 DEF Found
  <2>5. CASE model[n].pc = "list"
    <3>1. model[n].ready = {}
      BY <2>1, <2>2, <2>3, <2>5 DEF Looking
    <3>2. Found(n, model[n].root, time)' = {}
      BY <2>1, <2>2, <2>4, <2>5 DEF Found
    <3>3. QED BY <1>5, <2>1, <2>5, <3>1, <3>2 DEF Looking
  <2>6. CASE model[n].pc # "list"
    BY <2>1, <2>6 DEF Looking
  <2>7. QED BY <2>5, <2>6
<1>7. ~Partial'
  BY <1>1, <1>2, <1>5 DEF Coherent, Partial
<1>8. Coherent(time)'
  BY <1>1, <1>2, <1>5, <1>6, <1>7 DEF Coherent
<1>9. ASSUME NEW n \in Models PROVE Recorded(n, model[n])'
  <2>1. Recorded(n, model[n]) /\ model[n].batch \subseteq Files /\ LocalsOK(model[n])
    BY DEF DiscoveryInv, TypeInv, ModelsOK, Locals
  <2>2. \A g \in model[n].batch : arrived[g] # 0 /\ arrived'[g] = arrived[g]
    BY <1>3, <2>1 DEF LocalsOK, OldEnough
  <2>3. Follows(n, model[n].batch) => Follows(n, model[n].batch)'
    <3> SUFFICES ASSUME Follows(n, model[n].batch),
                        NEW g \in model[n].batch, NEW f \in Files, arrived'[f] <= arrived'[g],
                        StartingTimestamp < arrived'[f], watermark[n] < arrived'[f]
                 PROVE  f \in model[n].batch
      BY <1>2, <2>1, <2>2 DEF Follows
    <3>1. arrived'[f] <= now
      BY <1>2, <1>3, <2>1, <2>2
    <3>2. arrived'[f] = arrived[f]
      BY <1>2, <1>3, <3>1
    <3>3. QED BY <2>2, <3>2 DEF Follows
  <2>4. \A f \in ingested[n] : arrived[f] # 0 /\ arrived'[f] = arrived[f]
    BY <1>3, <1>4, <2>1 DEF Recorded
  <2>5. \A f \in Files : arrived'[f] <= watermark[n] => arrived'[f] = arrived[f]
    BY <1>2, <1>3, <1>4
  <2>6. QED BY <1>2, <2>1, <2>3, <2>4, <2>5 DEF Recorded
<1>10. DistinctTimes'
  <2> SUFFICES ASSUME NEW f \in Files, NEW g \in Files, arrived'[f] # 0, arrived'[f] = arrived'[g]
               PROVE  f = g
    BY DEF DistinctTimes
  <2>1. CASE arrived'[f] = arrived[f] /\ arrived'[g] = arrived[g]
    BY <2>1 DEF DiscoveryInv, DistinctTimes
  <2>2. CASE arrived'[f] # arrived[f] /\ arrived'[g] # arrived[g]
    BY <1>3, <2>2
  <2>3. ~(arrived'[f] = arrived[f] /\ arrived'[g] # arrived[g])
    BY <1>2, <1>3
  <2>4. ~(arrived'[f] # arrived[f] /\ arrived'[g] = arrived[g])
    BY <1>2, <1>3
  <2>5. QED BY <2>1, <2>2, <2>3, <2>4
<1>11. QED BY <1>8, <1>9, <1>10 DEF DiscoveryInv

LEMMA QuietKeeps ==
  ASSUME TypeInv, DiscoveryInv, UNCHANGED <<world, adapter, tables, model>>
  PROVE  DiscoveryInv'
<1> USE DEF world, adapter, tables
<1>1. PICK time \in Nat : Coherent(time)
  BY DEF DiscoveryInv
<1>2. Coherent(time)'
  <2>1. \A r : /\ IsListed(r)' <=> IsListed(r)
               /\ Present(r)' = Present(r) /\ Before(r, time)' = Before(r, time)
    BY DEF IsListed, Present, Before
  <2>2. \A n : Position(n)' = Position(n) /\ (InDiscovery(n)' <=> InDiscovery(n))
    BY DEF Position, UsesStart, InDiscovery, At
  <2>3. \A n, root : Found(n, root, time)' = Found(n, root, time)
    BY <2>2 DEF Found
  <2>4. \A n \in Models : Looking(n, model[n], time)'
    BY <1>1, <2>1, <2>3 DEF Coherent, Looking
  <2>5. Partial' <=> Partial
    BY <2>1 DEF Partial
  <2>6. QED BY <1>1, <2>1, <2>2, <2>4, <2>5 DEF Coherent
<1>3. \A n \in Models : Recorded(n, model[n])'
  BY DEF DiscoveryInv, Recorded, Follows
<1>4. DistinctTimes'
  BY DEF DiscoveryInv, DistinctTimes
<1>5. QED BY <1>2, <1>3, <1>4 DEF DiscoveryInv

-----------------------------------------------------------------------------
(* The invariant *)

LEMMA InitDiscovery ==
  ASSUME Init
  PROVE  DiscoveryInv
<1>1. Idle.pc = "idle"
  BY DEF Idle
<1>2. Coherent(0)
  <2>1. \A r \in Roots : ~IsListed(r)
    BY DEF Init, IsListed
  <2>2. \A n \in Models : Looking(n, model[n], 0)
    BY <1>1 DEF Init, Looking
  <2>3. 0 <= now
    BY DEF Init
  <2>4. ~Partial
    BY <2>1 DEF Partial
  <2>5. QED BY <2>1, <2>2, <2>3, <2>4 DEF Coherent
<1>3. \A n \in Models : Recorded(n, model[n])
  <2>1. \A f \in Files : ~(StartingTimestamp < 0)
    BY Consts
  <2>2. QED BY <1>1, <2>1 DEF Init, Recorded, InBatch
<1>4. DistinctTimes
  BY DEF Init, DistinctTimes
<1>5. QED BY <1>2, <1>3, <1>4 DEF DiscoveryInv

LEMMA NextKeepsDiscovery ==
  ASSUME TypeInv, Hypotheses, DiscoveryInv, [Next]_vars
  PROVE  DiscoveryInv'
<1>1. CASE \E m \in Models : Step(m)
  <2>1. PICK m \in Models : Step(m)
    BY <1>1
  <2>2. CASE CacheHit(m) \/ StartWalk(m) \/ (\E d \in Dirs : ListDir(m, d)) \/ EndWalk(m)
    BY <2>2, CacheHitKeeps, StartWalkKeeps, ListDirKeeps, EndWalkKeeps
  <2>3. CASE Choose(m) \/ ChooseFromStart(m) \/ StartTooLate(m) \/ NothingLeft(m)
    BY <2>3, ChooseKeeps, ChooseFromStartKeeps, NoBatchKeeps
  <2>4. CASE Begin(m) \/ Submit(m) \/ JobDone(m) \/ JobFails(m) \/ Record(m)
    BY <2>4, BatchKeeps, RecordKeeps
  <2>5. CASE Start(m) \/ Cycle(m) \/ Wake(m)
    BY <2>5, StartAndWakeKeep, CycleKeeps
  <2>6. QED BY <2>1, <2>2, <2>3, <2>4, <2>5 DEF Step
<1>2. CASE NewProcess
  BY <1>2, NewProcessKeeps
<1>3. CASE Tick \/ \E f \in Files : Arrive(f)
  BY <1>3, ClockKeeps
<1>4. CASE Shutdown \/ Terminated \/ UNCHANGED vars
  <2>1. UNCHANGED <<world, adapter, tables, model>>
    BY <1>4 DEF Shutdown, Terminated, vars, world, adapter, tables
  <2>2. QED BY <2>1, QuietKeeps
<1>5. QED BY <1>1, <1>2, <1>3, <1>4 DEF Next

LEMMA DiscoveryHolds ==
  ASSUME Hypotheses
  PROVE  Spec => []DiscoveryInv
<1>1. Init => DiscoveryInv
  BY InitDiscovery
<1>2. TypeInv /\ DiscoveryInv /\ [Next]_vars => DiscoveryInv'
  BY NextKeepsDiscovery
<1>3. QED BY <1>1, <1>2, TypesHold, PTL DEF Spec

(* No file is skipped: the watermark passes nothing that is not in the      *)
(* table, whatever jobs fail, processes end and models share the listings.  *)
THEOREM WatermarkSkipsNothing ==
  ASSUME Hypotheses
  PROVE  Spec => []NoneSkipped
<1>1. DiscoveryInv => NoneSkipped
  BY DEF DiscoveryInv, Recorded, NoneSkipped
<1>2. QED BY <1>1, DiscoveryHolds, PTL

(* No file is given to a job again, by this process or a later one.         *)
THEOREM FilesAreTakenOnce ==
  ASSUME Hypotheses
  PROVE  Spec => []IngestedOnce
<1>1. TypeInv /\ DiscoveryInv => IngestedOnce
  <2> SUFFICES ASSUME TypeInv, DiscoveryInv, NEW m \in Models, model[m].pc = "job",
                      NEW f \in model[m].batch, f \in ingested[m]
               PROVE  FALSE
    BY DEF IngestedOnce, At
  <2>1. watermark[m] < arrived[f] /\ arrived[f] <= watermark[m]
    BY DEF DiscoveryInv, Recorded, Follows, InBatch
  <2>2. watermark[m] \in Nat /\ arrived[f] \in Nat
    BY DEF TypeInv, WorldOK, ModelsOK, Locals
  <2>3. QED BY <2>1, <2>2
<1>2. QED BY <1>1, DiscoveryHolds, TypesHold, PTL

(* A batch that was found can be begun: nobody has cleared its FileInfos.   *)
THEOREM DiscoveredIsBegun ==
  ASSUME Hypotheses
  PROVE  Spec => []BeginsWhatItDiscovered
<1>1. DiscoveryInv => BeginsWhatItDiscovered
  BY DEF DiscoveryInv, Recorded, Follows, InBatch, BeginsWhatItDiscovered, At
<1>2. QED BY <1>1, DiscoveryHolds, PTL
=============================================================================
