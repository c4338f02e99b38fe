--------------------------- MODULE TokenLockProofs ---------------------------
(***************************************************************************)
(* Theorems about TokenLock, for any number of threads and processes, any  *)
(* number of retries, and with or without a deadline on the lock.          *)
(***************************************************************************)
EXTENDS TokenLock, TLAPS

(* The file of a worker is open exactly while it waits for the lock or has  *)
(* it; who is inside the credential holds the lock through that file, and   *)
(* nobody else holds it.                                                    *)
Waiting == Inside \cup {"lock"}
FilesOK == \A w \in Workers : lockFile[w] = IF worker[w].pc \in Waiting THEN w ELSE None
InsideHolds == \A w \in Workers : worker[w].pc \in Inside => holder = w

(* A process has one credential, named after one of its threads; a thread   *)
(* on its way uses it for some scope, and only such credentials come to     *)
(* have a token.  A thread walks the chain only for a token that is not in  *)
(* the cache, and stays the only one to put tokens there until it is done.  *)
InstanceOK ==
    \A p \in Processes : instance[p] # None => ProcessOf[instance[p]] = p
CredentialOK ==
    \A w \in Workers : worker[w].pc \in Inside \cup {"open", "lock", "asleep"} =>
        /\ worker[w].credential # None /\ worker[w].credential = instance[ProcessOf[w]]
        /\ worker[w].scope \in Scopes
CachedOK == \A token \in cached : instance[ProcessOf[token[1]]] = token[1]
WalksForNew == \A w \in Workers : At(w, "walk") => Wanted(w) \notin cached

LockInv ==
    /\ TypeOK
    /\ FilesOK /\ InsideHolds /\ HeldOnlyInside
    /\ InstanceOK /\ CredentialOK /\ CachedOK /\ WalksForNew

-----------------------------------------------------------------------------
(* Type correctness *)

LEMMA AnswerType ==
  ASSUME TypeOK, NEW w \in Workers
  PROVE  Answer(w) \in Worker
<1> DEFINE me == worker[w]
<1>1. me \in Worker /\ MaxRetries \in Nat
  BY PolicyAssumption DEF TypeOK
<1>2. \A label \in PCs : [me EXCEPT !.pc = label] \in Worker
  BY <1>1 DEF Worker
<1>3. me.attempt < MaxRetries => [me EXCEPT !.pc = "asleep", !.attempt = @ + 1] \in Worker
  <2> SUFFICES ASSUME me.attempt < MaxRetries
               PROVE  [me EXCEPT !.pc = "asleep", !.attempt = @ + 1] \in Worker
    OBVIOUS
  <2>1. me.attempt \in 0..MaxRetries /\ me.attempt + 1 \in 0..MaxRetries
    BY <1>1 DEF Worker
  <2>2. "asleep" \in PCs
    BY DEF PCs
  <2> HIDE DEF me
  <2>3. QED BY <1>1, <2>1, <2>2 DEF Worker
<1>4. {"token", "failed"} \subseteq PCs
  BY DEF PCs
<1> HIDE DEF me
<1>5. Answer(w) = IF me.result = "token" THEN [me EXCEPT !.pc = "token"]
                  ELSE IF me.result = "unavailable" /\ me.attempt < MaxRetries
                         THEN [me EXCEPT !.pc = "asleep", !.attempt = @ + 1]
                         ELSE [me EXCEPT !.pc = "failed"]
  BY DEF Answer, me
<1>6. QED BY <1>2, <1>3, <1>4, <1>5

(* The locals of one worker, replaced by locals of the same type.           *)
LEMMA LocalsType ==
  ASSUME TypeOK, NEW w \in Workers, NEW locals \in Worker,
         worker' = [worker EXCEPT ![w] = locals]
  PROVE  worker' \in [Workers -> Worker]
BY DEF TypeOK

LEMMA GotoType ==
  ASSUME TypeOK, NEW w \in Workers, NEW label \in PCs, Goto(w, label)
  PROVE  worker' \in [Workers -> Worker]
<1> DEFINE locals == [worker[w] EXCEPT !.pc = label]
<1>1. locals \in Worker
  BY DEF TypeOK, Worker
<1>2. worker' = [worker EXCEPT ![w] = locals]
  BY DEF Goto
<1> HIDE DEF locals
<1>3. QED BY <1>1, <1>2, LocalsType

LEMMA StepKeepsTypes ==
  ASSUME LockInv, NEW w \in Workers, Step(w) \/ LockTimesOut(w)
  PROVE  TypeOK'
<1>1. TypeOK /\ worker[w] \in Worker /\ ProcessOf[w] \in Processes
  BY WorkersAssumption DEF TypeOK, LockInv
<1>2. CASE Load(w)
  <2> DEFINE mine == IF instance[ProcessOf[w]] = None THEN w ELSE instance[ProcessOf[w]]
  <2> PICK scope \in Scopes :
        worker' = [worker EXCEPT ![w].credential = mine, ![w].scope = scope, ![w].pc = "open"]
    BY <1>2 DEF Load
  <2> DEFINE locals == [worker[w] EXCEPT !.credential = mine, !.scope = scope, !.pc = "open"]
  <2>1. mine \in Workers
    BY <1>1 DEF TypeOK
  <2>2. locals \in Worker
    <3> HIDE DEF mine
    <3>1. QED BY <1>1, <2>1 DEF Worker, PCs
  <2>3. worker' = [worker EXCEPT ![w] = locals]
        /\ instance' = [instance EXCEPT ![ProcessOf[w]] = mine]
    BY <1>2 DEF Load
  <2> HIDE DEF mine, locals
  <2>4. QED BY <1>1, <1>2, <2>1, <2>2, <2>3, LocalsType DEF Load, TypeOK
<1>3. CASE Open(w)
  BY <1>1, <1>3, GotoType DEF Open, Object, Handle, TypeOK, PCs
<1>4. CASE Lock(w)
  BY <1>1, <1>4, GotoType DEF Lock, Object, Handle, TypeOK, PCs
<1>5. CASE LockTimesOut(w)
  BY <1>1, <1>5, GotoType DEF LockTimesOut, Object, TypeOK, PCs
<1>6. CASE UseCache(w)
  <2> DEFINE locals == [worker[w] EXCEPT !.result = "token", !.pc = "unlock"]
  <2>1. CASE Goto(w, "walk")
    BY <1>1, <1>6, <2>1, GotoType DEF UseCache, TypeOK, PCs
  <2>2. CASE worker' = [worker EXCEPT ![w] = locals]
    <3>1. locals \in Worker
      BY <1>1 DEF Worker, PCs, Results
    <3> HIDE DEF locals
    <3>2. QED BY <1>1, <1>6, <2>2, <3>1, LocalsType DEF UseCache, TypeOK
  <2>3. QED BY <1>6, <2>1, <2>2 DEF UseCache
<1>7. CASE Walk(w)
  <2> PICK result \in Results :
          /\ worker' = [worker EXCEPT ![w].result = result, ![w].pc = "unlock"]
          /\ cached' = IF result = "token" THEN cached \cup {Wanted(w)} ELSE cached
    BY <1>7 DEF Walk
  <2> DEFINE locals == [worker[w] EXCEPT !.result = result, !.pc = "unlock"]
  <2>1. locals \in Worker
    BY <1>1 DEF Worker, PCs
  <2>2. worker' = [worker EXCEPT ![w] = locals]
    OBVIOUS
  <2>3. Wanted(w) \in Workers \X Scopes
    BY <1>1, <1>7 DEF Walk, At, LockInv, CredentialOK, Inside, Worker, Wanted
  <2> HIDE DEF locals
  <2>4. QED BY <1>1, <1>7, <2>1, <2>2, <2>3, LocalsType DEF Walk, TypeOK
<1>8. CASE Unlock(w)
  BY <1>1, <1>8, AnswerType, LocalsType DEF Unlock, TypeOK, Object, Handle
<1>9. CASE Wake(w)
  BY <1>1, <1>9, GotoType DEF Wake, TypeOK, PCs
<1>10. QED
  BY <1>2, <1>3, <1>4, <1>5, <1>6, <1>7, <1>8, <1>9 DEF Step

LEMMA CrashKeepsTypes ==
  ASSUME LockInv, NEW p \in Processes, Crash(p)
  PROVE  TypeOK'
<1>1. TypeOK /\ None \notin Workers
  BY WorkersAssumption DEF LockInv
<1>2. \A w \in Workers : [worker[w] EXCEPT !.pc = "dead"] \in Worker
  BY <1>1 DEF TypeOK, Worker, PCs
<1>3. worker' \in [Workers -> Worker]
  BY <1>1, <1>2 DEF Crash, TypeOK
<1>4. QED BY <1>1, <1>3 DEF Crash, TypeOK

-----------------------------------------------------------------------------
(* The lock *)

(* What one worker does touches its own locals, and its own file only.      *)
LEMMA OthersUntouched ==
  ASSUME LockInv, NEW w \in Workers, Step(w) \/ LockTimesOut(w)
  PROVE  \A v \in Workers \ {w} : worker'[v] = worker[v] /\ lockFile'[v] = lockFile[v]
<1>1. worker \in [Workers -> Worker] /\ lockFile \in [Workers -> Workers \cup {None}]
  BY DEF LockInv, TypeOK
<1>2. CASE Load(w) \/ Open(w) \/ Lock(w) \/ LockTimesOut(w)
  BY <1>1, <1>2 DEF Load, Open, Lock, LockTimesOut, Goto, Object
<1>3. CASE UseCache(w) \/ Walk(w) \/ Unlock(w) \/ Wake(w)
  BY <1>1, <1>3 DEF UseCache, Walk, Unlock, Wake, Goto, Object
<1>4. QED BY <1>2, <1>3 DEF Step

(* The label that a step leads to. *)
LEMMA NextLabel ==
  ASSUME LockInv, NEW w \in Workers
  PROVE  /\ Load(w) => worker'[w].pc = "open"
         /\ Open(w) => worker'[w].pc = "lock"
         /\ Lock(w) => worker'[w].pc = "inner"
         /\ LockTimesOut(w) => worker'[w].pc = "failed"
         /\ UseCache(w) => worker'[w].pc \in {"walk", "unlock"}
         /\ Walk(w) => worker'[w].pc = "unlock"
         /\ Unlock(w) => worker'[w].pc \in {"token", "asleep", "failed"}
         /\ Wake(w) => worker'[w].pc = "open"
<1>1. worker \in [Workers -> Worker] /\ worker[w] \in Worker
  BY DEF LockInv, TypeOK
<1>2. \A label \in PCs : Goto(w, label) => worker'[w].pc = label
  BY <1>1 DEF Goto, Worker
<1>3. Load(w) => worker'[w].pc = "open"
  BY <1>1 DEF Load, Worker
<1>4. UseCache(w) => worker'[w].pc \in {"walk", "unlock"}
  BY <1>1, <1>2 DEF UseCache, Worker, PCs
<1>5. Walk(w) => worker'[w].pc = "unlock"
  BY <1>1 DEF Walk, Worker
<1>6. Answer(w).pc \in {"token", "asleep", "failed"}
  BY <1>1 DEF Answer, Worker
<1>7. Unlock(w) => worker'[w].pc \in {"token", "asleep", "failed"}
  BY <1>1, <1>6 DEF Unlock
<1>8. QED
  BY <1>2, <1>3, <1>4, <1>5, <1>7 DEF Open, Lock, LockTimesOut, Wake, PCs

LEMMA StepKeepsLock ==
  ASSUME LockInv, NEW w \in Workers, Step(w) \/ LockTimesOut(w)
  PROVE  FilesOK' /\ InsideHolds' /\ HeldOnlyInside'
<1> USE WorkersAssumption DEF Object, Handle, At, Inside, Waiting
<1>0. /\ \A v \in Workers \ {w} : worker'[v] = worker[v] /\ lockFile'[v] = lockFile[v]
      /\ FilesOK /\ InsideHolds /\ HeldOnlyInside /\ holder \in Workers \cup {None}
      /\ lockFile \in [Workers -> Workers \cup {None}]
  BY OthersUntouched DEF LockInv, TypeOK
<1>1. CASE Load(w)
  <2>1. worker[w].pc = "idle" /\ worker'[w].pc = "open" /\ UNCHANGED <<holder, lockFile>>
    BY <1>1, NextLabel DEF Load
  <2>2. QED BY <1>0, <2>1 DEF FilesOK, InsideHolds, HeldOnlyInside
<1>2. CASE Open(w)
  <2>1. /\ worker[w].pc = "open" /\ worker'[w].pc = "lock" /\ lockFile'[w] = w
        /\ holder' = IF holder # None /\ holder = lockFile[w] THEN None ELSE holder
    BY <1>0, <1>2, NextLabel DEF Open
  <2>2. holder # w /\ lockFile[w] = None
    BY <1>0, <2>1 DEF FilesOK, HeldOnlyInside
  <2>3. QED BY <1>0, <2>1, <2>2 DEF FilesOK, InsideHolds, HeldOnlyInside
<1>3. CASE Lock(w)
  <2>1. /\ worker[w].pc = "lock" /\ worker'[w].pc = "inner" /\ UNCHANGED lockFile
        /\ holder \in {None, lockFile[w]} /\ holder' = lockFile[w]
    BY <1>3, NextLabel DEF Lock
  <2>2. lockFile[w] = w /\ holder = None
    BY <1>0, <2>1 DEF FilesOK, HeldOnlyInside
  <2>3. QED BY <1>0, <2>1, <2>2 DEF FilesOK, InsideHolds, HeldOnlyInside
<1>4. CASE LockTimesOut(w)
  <2>1. /\ worker[w].pc = "lock" /\ worker'[w].pc = "failed" /\ lockFile'[w] = None
        /\ UNCHANGED holder
    BY <1>0, <1>4, NextLabel DEF LockTimesOut
  <2>2. QED BY <1>0, <2>1 DEF FilesOK, InsideHolds, HeldOnlyInside
<1>5. CASE UseCache(w) \/ Walk(w)
  <2>1. /\ worker[w].pc \in {"inner", "walk"} /\ worker'[w].pc \in {"walk", "unlock"}
        /\ UNCHANGED <<holder, lockFile>>
    BY <1>5, NextLabel DEF UseCache, Walk
  <2>2. QED BY <1>0, <2>1 DEF FilesOK, InsideHolds, HeldOnlyInside
<1>6. CASE Unlock(w)
  <2>1. /\ worker[w].pc = "unlock" /\ worker'[w].pc \in {"token", "asleep", "failed"}
        /\ holder' = IF holder = lockFile[w] THEN None ELSE holder
        /\ lockFile'[w] = None
    BY <1>0, <1>6, NextLabel DEF Unlock
  <2>2. lockFile[w] = w /\ holder = w
    BY <1>0, <2>1 DEF FilesOK, InsideHolds
  <2>3. QED BY <1>0, <2>1, <2>2 DEF FilesOK, InsideHolds, HeldOnlyInside
<1>7. CASE Wake(w)
  <2>1. /\ worker[w].pc = "asleep" /\ worker'[w].pc = "open"
        /\ UNCHANGED <<holder, lockFile>>
    BY <1>7, NextLabel DEF Wake
  <2>2. QED BY <1>0, <2>1 DEF FilesOK, InsideHolds, HeldOnlyInside
<1>8. QED
  BY <1>1, <1>2, <1>3, <1>4, <1>5, <1>6, <1>7 DEF Step

LEMMA CrashKeepsLock ==
  ASSUME LockInv, NEW p \in Processes, Crash(p)
  PROVE  FilesOK' /\ InsideHolds' /\ HeldOnlyInside'
<1> DEFINE lost == {w \in Workers : ProcessOf[w] = p}
<1>1. /\ \A w \in Workers : worker'[w] = IF w \in lost /\ worker[w].pc \notin Over
                                          THEN [worker[w] EXCEPT !.pc = "dead"] ELSE worker[w]
      /\ holder' = IF holder \in lost THEN None ELSE holder
      /\ \A w \in Workers : lockFile'[w] = IF w \in lost THEN None ELSE lockFile[w]
  BY DEF Crash
<1>2. /\ FilesOK /\ InsideHolds /\ HeldOnlyInside /\ holder \in Workers \cup {None}
      /\ \A w \in Workers : worker[w] \in Worker
  BY DEF LockInv, TypeOK
<1>3. \A w \in lost : worker'[w].pc \in Over
  BY <1>1, <1>2 DEF Over, Worker
<1>4. \A w \in Workers \ lost : worker'[w] = worker[w] /\ lockFile'[w] = lockFile[w]
  BY <1>1
<1>5. \A w \in lost : lockFile'[w] = None /\ holder' # w
  BY <1>1, WorkersAssumption
<1>6. Over \cap Waiting = {} /\ Inside \subseteq Waiting
  BY DEF Over, Waiting, Inside
<1> HIDE DEF lost
<1>7. FilesOK'
  BY <1>2, <1>3, <1>4, <1>5, <1>6 DEF FilesOK
<1>8. InsideHolds'
  <2> SUFFICES ASSUME NEW w \in Workers, worker'[w].pc \in Inside
               PROVE  holder' = w
    BY DEF InsideHolds
  <2>1. w \notin lost
    BY <1>3, <1>6
  <2>2. holder = w
    BY <1>2, <1>4, <2>1 DEF InsideHolds
  <2>3. QED BY <1>1, <2>1, <2>2 DEF lost
<1>9. HeldOnlyInside'
  <2> SUFFICES ASSUME holder' # None
               PROVE  worker'[holder'].pc \in Inside
    BY DEF HeldOnlyInside
  <2>1. holder' = holder /\ holder \in Workers \ lost
    BY <1>1, <1>2
  <2>2. QED BY <1>2, <1>4, <2>1 DEF HeldOnlyInside
<1>10. QED BY <1>7, <1>8, <1>9
-----------------------------------------------------------------------------
(* The credentials *)

(* Only a walk puts a token into the cache, and only the one it wanted.     *)
LEMMA CacheGrowsByWalks ==
  ASSUME NEW w \in Workers, Step(w) \/ LockTimesOut(w)
  PROVE  /\ cached' \subseteq cached \cup {Wanted(w)}
         /\ ~At(w, "walk") => cached' = cached
<1>1. CASE Walk(w)
  BY <1>1 DEF Walk
<1>2. CASE ~Walk(w)
  BY <1>2 DEF Step, Load, Open, Lock, LockTimesOut, UseCache, Unlock, Wake
<1>3. QED BY <1>1, <1>2

LEMMA StepKeepsSignIn ==
  ASSUME LockInv, NEW w \in Workers, Step(w) \/ LockTimesOut(w)
  PROVE  InstanceOK' /\ CredentialOK' /\ CachedOK'
<1> DEFINE onTheWay == Inside \cup {"open", "lock", "asleep"}
<1>0. /\ \A v \in Workers \ {w} : worker'[v] = worker[v]
      /\ InstanceOK /\ CredentialOK /\ CachedOK
      /\ worker \in [Workers -> Worker] /\ worker[w] \in Worker
      /\ instance \in [Processes -> Workers \cup {None}] /\ cached \subseteq Workers \X Scopes
      /\ ProcessOf \in [Workers -> Processes] /\ None \notin Workers
  BY OthersUntouched, WorkersAssumption DEF LockInv, TypeOK
<1>1. CASE Load(w)
  <2> DEFINE known == instance[ProcessOf[w]]
             mine == IF known = None THEN w ELSE known
  <2>1. /\ instance' = [instance EXCEPT ![ProcessOf[w]] = mine]
        /\ worker'[w].credential = mine /\ worker'[w].scope \in Scopes /\ cached' = cached
    BY <1>0, <1>1 DEF Load, Worker
  <2>2. mine \in Workers /\ ProcessOf[mine] = ProcessOf[w]
    BY <1>0 DEF InstanceOK
  <2>3. \A p \in Processes : instance[p] # None => instance'[p] = instance[p]
    BY <1>0, <2>1
  <2>4. instance'[ProcessOf[w]] = mine
    BY <1>0, <2>1
  <2>5. InstanceOK'
    BY <1>0, <2>1, <2>2 DEF InstanceOK
  <2>6. CredentialOK'
    <3>1. \A v \in Workers \ {w} : worker'[v].pc \in onTheWay =>
              /\ worker'[v].credential # None /\ worker'[v].scope \in Scopes
              /\ worker'[v].credential = instance'[ProcessOf[v]]
      BY <1>0, <2>3 DEF CredentialOK
    <3>2. worker'[w].credential # None /\ worker'[w].credential = instance'[ProcessOf[w]]
      BY <1>0, <2>1, <2>2, <2>4
    <3>3. QED BY <2>1, <3>1, <3>2 DEF CredentialOK
  <2>7. CachedOK'
    BY <1>0, <2>1, <2>3 DEF CachedOK
  <2>8. QED BY <2>5, <2>6, <2>7
<1>2. ASSUME ~Load(w)
      PROVE  /\ instance' = instance
             /\ worker[w].pc \in onTheWay
             /\ worker'[w].credential = worker[w].credential
             /\ worker'[w].scope = worker[w].scope
  <2>1. CASE Open(w) \/ Lock(w) \/ LockTimesOut(w) \/ Wake(w)
    BY <1>0, <2>1 DEF Open, Lock, LockTimesOut, Wake, Goto, At, Worker, Inside
  <2>2. CASE UseCache(w)
    BY <1>0, <2>2 DEF UseCache, Goto, At, Worker, Inside
  <2>3. CASE Walk(w)
    BY <1>0, <2>3 DEF Walk, At, Worker, Inside
  <2>4. CASE Unlock(w)
    <3>1. Answer(w).credential = worker[w].credential /\ Answer(w).scope = worker[w].scope
      BY <1>0 DEF Answer, Worker
    <3>2. QED BY <1>0, <2>4, <3>1 DEF Unlock, At, Inside
  <2>5. QED BY <1>2, <2>1, <2>2, <2>3, <2>4 DEF Step
<1>3. CASE ~Load(w)
  <2>1. InstanceOK'
    BY <1>0, <1>2, <1>3 DEF InstanceOK
  <2>2. CredentialOK'
    <3>1. /\ worker[w].credential # None /\ worker[w].credential = instance[ProcessOf[w]]
          /\ worker[w].scope \in Scopes
      BY <1>0, <1>2, <1>3 DEF CredentialOK
    <3>2. QED BY <1>0, <1>2, <1>3, <3>1 DEF CredentialOK
  <2>3. CachedOK'
    <3>1. cached' \subseteq cached \cup {Wanted(w)} /\ Wanted(w)[1] = worker[w].credential
      BY CacheGrowsByWalks DEF Wanted
    <3>2. instance[ProcessOf[worker[w].credential]] = worker[w].credential
      BY <1>0, <1>2, <1>3 DEF CredentialOK, InstanceOK
    <3>3. QED BY <1>0, <1>2, <1>3, <3>1, <3>2 DEF CachedOK
  <2>4. QED BY <2>1, <2>2, <2>3
<1>4. QED BY <1>1, <1>3

(* While one thread walks, no other is in the credential to fill the cache. *)
LEMMA StepKeepsWalks ==
  ASSUME LockInv, NEW w \in Workers, Step(w) \/ LockTimesOut(w)
  PROVE  WalksForNew'
<1> SUFFICES ASSUME NEW v \in Workers, worker'[v].pc = "walk"
             PROVE  <<worker'[v].credential, worker'[v].scope>> \notin cached'
  BY DEF WalksForNew, At, Wanted
<1>0. /\ WalksForNew /\ InsideHolds
      /\ worker \in [Workers -> Worker] /\ worker[w] \in Worker
  BY DEF LockInv, TypeOK
<1>1. CASE v = w
  <2>1. UseCache(w)
    BY <1>1, NextLabel DEF Step
  <2>2. ~At(w, "walk") /\ cached' = cached
    BY <2>1 DEF UseCache, At
  <2>3. worker' = [worker EXCEPT ![w].pc = "walk"] /\ Wanted(w) \notin cached
    BY <1>0, <1>1, <2>1 DEF UseCache, Goto, Worker
  <2>4. worker'[w].credential = worker[w].credential /\ worker'[w].scope = worker[w].scope
    BY <1>0, <2>3 DEF Worker
  <2>5. QED BY <1>1, <2>2, <2>3, <2>4 DEF Wanted
<1>2. CASE v # w
  <2>1. worker'[v] = worker[v] /\ At(v, "walk")
    BY <1>2, OthersUntouched DEF At
  <2>2. ~At(w, "walk")
    BY <1>0, <1>2, <2>1 DEF InsideHolds, Inside, At
  <2>3. cached' = cached
    BY <2>2, CacheGrowsByWalks
  <2>4. QED BY <1>0, <2>1, <2>3 DEF WalksForNew, Wanted
<1>3. QED BY <1>1, <1>2

LEMMA CrashKeepsSignIn ==
  ASSUME LockInv, NEW p \in Processes, Crash(p)
  PROVE  InstanceOK' /\ CredentialOK' /\ CachedOK' /\ WalksForNew'
<1>1. /\ UNCHANGED <<instance, cached>>
      /\ \A w \in Workers : worker'[w].pc = "dead" \/ worker'[w] = worker[w]
  BY DEF Crash, LockInv, TypeOK, Worker
<1>2. InstanceOK /\ CredentialOK /\ CachedOK /\ WalksForNew
  BY DEF LockInv
<1>3. InstanceOK' /\ CredentialOK' /\ CachedOK'
  BY <1>1, <1>2 DEF InstanceOK, CredentialOK, CachedOK, Inside
<1>4. WalksForNew'
  BY <1>1, <1>2 DEF WalksForNew, At, Wanted
<1>5. QED BY <1>3, <1>4

(* A token that expires only empties the cache.                             *)
LEMMA ExpiryKeepsInv ==
  ASSUME LockInv, NEW token \in cached, Expire(token)
  PROVE  LockInv'
<1>1. UNCHANGED <<holder, lockFile, instance, worker>> /\ cached' \subseteq cached
  BY DEF Expire
<1>2. TypeOK'
  BY <1>1 DEF LockInv, TypeOK
<1>3. FilesOK' /\ InsideHolds' /\ HeldOnlyInside'
  BY <1>1 DEF LockInv, FilesOK, InsideHolds, HeldOnlyInside
<1>4. InstanceOK' /\ CredentialOK' /\ CachedOK'
  BY <1>1 DEF LockInv, InstanceOK, CredentialOK, CachedOK
<1>5. WalksForNew'
  BY <1>1 DEF LockInv, WalksForNew, At, Wanted
<1>6. QED BY <1>2, <1>3, <1>4, <1>5 DEF LockInv

-----------------------------------------------------------------------------
(* The invariant and what follows from it *)

LEMMA InitLockInv == Init => LockInv
<1> SUFFICES ASSUME Init PROVE LockInv
  OBVIOUS
<1>1. \A w \in Workers : worker[w] \in Worker
  BY PolicyAssumption DEF Init, Worker, PCs, Results
<1>2. TypeOK
  BY <1>1 DEF Init, TypeOK
<1>3. QED
  BY <1>2 DEF Init, LockInv, FilesOK, InsideHolds, HeldOnlyInside,
              InstanceOK, CredentialOK, CachedOK, WalksForNew, At, Inside, Waiting

LEMMA NextLockInv == LockInv /\ [Next]_vars => LockInv'
<1> SUFFICES ASSUME LockInv, [Next]_vars PROVE LockInv'
  OBVIOUS
<1>1. ASSUME NEW w \in Workers, Step(w) \/ LockTimesOut(w)
      PROVE  LockInv'
  BY <1>1, StepKeepsTypes, StepKeepsLock, StepKeepsSignIn, StepKeepsWalks DEF LockInv
<1>2. ASSUME NEW p \in Processes, Crash(p)
      PROVE  LockInv'
  BY <1>2, CrashKeepsTypes, CrashKeepsLock, CrashKeepsSignIn DEF LockInv
<1>3. ASSUME NEW token \in cached, Expire(token)
      PROVE  LockInv'
  BY <1>3, ExpiryKeepsInv
<1>4. CASE UNCHANGED vars
  BY <1>4 DEF vars, LockInv, TypeOK, FilesOK, InsideHolds, HeldOnlyInside,
              InstanceOK, CredentialOK, CachedOK, WalksForNew, At, Wanted
<1>5. QED BY <1>1, <1>2, <1>3, <1>4 DEF Next, Terminated

(* The inductive invariant: an open file, its lock and the locals of its    *)
(* worker always agree, a process has one credential, and a thread walks    *)
(* the chain only for a token that is not there.                            *)
THEOREM LockInvariant == Spec => []LockInv
<1>1. QED BY InitLockInv, NextLockInv, PTL DEF Spec

(* Type correctness.                                                        *)
THEOREM TokenTypeCorrect == Spec => []TypeOK
<1>1. LockInv => TypeOK
  BY DEF LockInv
<1>2. QED BY <1>1, LockInvariant, PTL

(* FileLock serialises the wrapped credential's get_token, across threads   *)
(* and processes, whatever fails, times out or dies.                        *)
THEOREM LockExcludes == Spec => []MutualExclusion
<1>1. LockInv => MutualExclusion
  BY DEF LockInv, InsideHolds, MutualExclusion
<1>2. QED BY <1>1, LockInvariant, PTL

(* _get_token_with_retry never sleeps, returns or dies holding the lock.    *)
THEOREM NobodySleepsWithTheLock == Spec => []HeldOnlyInside
<1>1. LockInv => HeldOnlyInside
  BY DEF LockInv
<1>2. QED BY <1>1, LockInvariant, PTL

(* load_custom_credential's cache and FileLock together spare the user: a   *)
(* thread walks the chain only while no credential of its process has a     *)
(* valid token for the scope, however the threads and expiries interleave.  *)
THEOREM OneSignInEach == Spec => []OneSignIn
<1>1. LockInv => OneSignIn
  <2> SUFFICES ASSUME LockInv, NEW v \in Workers, NEW w \in Workers,
                      At(w, "walk"), ProcessOf[v] = ProcessOf[w],
                      <<v, worker[w].scope>> \in cached
               PROVE  FALSE
    BY DEF OneSignIn
  <2>1. instance[ProcessOf[w]] = v
    BY DEF LockInv, CachedOK
  <2>2. worker[w].credential = v
    BY <2>1 DEF LockInv, CredentialOK, At, Inside
  <2>3. QED BY <2>2 DEF LockInv, WalksForNew, Wanted
<1>2. QED BY <1>1, LockInvariant, PTL
=============================================================================
