------------------------------ MODULE TokenLock ------------------------------
(***************************************************************************)
(* LockedTokenCredential: the threads of several dbt processes, which all  *)
(* need a token at once, go through one lock file, so that one of them at  *)
(* a time runs the wrapped credential and the others find its cache full.  *)
(* A token is for one scope (the job service's or the storage's) and       *)
(* expires.                                                                *)
(*                                                                         *)
(* The lock belongs to an open file, not to a thread: it is freed when the *)
(* file is unlocked, closed or its process dies.  A worker has at most one *)
(* lock file open, so a file is named after the worker that opened it.     *)
(***************************************************************************)
EXTENDS Integers, FiniteSets

CONSTANTS
    Workers,     \* the threads that ask for a token
    Processes,
    ProcessOf,   \* [Workers -> Processes]
    Scopes,      \* what a token may be asked for: ADLA, the storage
    MaxRetries,  \* RetryPolicy.max_retries
    TimesOut,    \* does the wait for the lock have a deadline (Windows)?
    None

ASSUME WorkersAssumption == ProcessOf \in [Workers -> Processes] /\ None \notin Workers
ASSUME PolicyAssumption == MaxRetries \in Nat /\ TimesOut \in BOOLEAN

VARIABLES
    holder,    \* the open file that holds the OS lock
    lockFile,  \* per FileLock object, its _lock_file
    instance,  \* per process, the credential that load_custom_credential caches
    cached,    \* <<credential, scope>>: a valid token is in its cache
    worker     \* the workers' locals

vars == <<holder, lockFile, instance, cached, worker>>

PCs == {"idle", "open", "lock", "inner", "walk", "unlock", "asleep",
        "token", "failed", "dead"}
Over == {"token", "failed", "dead"}
Inside == {"inner", "walk", "unlock"}
Results == {"token", "unavailable", "error"}

Worker == [pc : PCs, credential : Workers \cup {None}, scope : Scopes \cup {None},
           result : Results, attempt : 0..MaxRetries]

At(w, label) == worker[w].pc = label
Goto(w, label) == worker' = [worker EXCEPT ![w].pc = label]

(* A worker makes a FileLock object for each attempt; objects are named     *)
(* after the worker too.  The slip before it keeps one object per process.  *)
ObjectPerProcess(w) == CHOOSE v \in Workers : ProcessOf[v] = ProcessOf[w]
Object(w) == w
Handle(w) == lockFile[Object(w)]

LoadEachTime(w) ==
    /\ At(w, "idle")
    /\ \E scope \in Scopes :
        worker' = [worker EXCEPT ![w].credential = w, ![w].scope = scope, ![w].pc = "open"]
    /\ UNCHANGED <<holder, lockFile, instance, cached>>

(* build_credential: the threads of a process share one instance of the     *)
(* user's credential class; a threading.Lock covers the lookup.  Each asks  *)
(* it for the scope of the service it is about to call.                     *)
Load(w) ==
    /\ At(w, "idle")
    /\ LET known == instance[ProcessOf[w]]
           mine  == IF known = None THEN w ELSE known
       IN  /\ instance' = [instance EXCEPT ![ProcessOf[w]] = mine]
           /\ \E scope \in Scopes :
               worker' = [worker EXCEPT ![w].credential = mine, ![w].scope = scope,
                                        ![w].pc = "open"]
    /\ UNCHANGED <<holder, lockFile, cached>>

(* FileLock.__enter__ opens the file: one that was referenced from the same *)
(* object before is closed, and with it goes its lock.                      *)
Open(w) ==
    /\ At(w, "open")
    /\ holder' = IF holder # None /\ holder = Handle(w) THEN None ELSE holder
    /\ lockFile' = [lockFile EXCEPT ![Object(w)] = w]
    /\ Goto(w, "lock")
    /\ UNCHANGED <<instance, cached>>

LockWithoutWaiting(w) ==
    /\ At(w, "lock")
    /\ holder' = Handle(w)
    /\ Goto(w, "inner")
    /\ UNCHANGED <<lockFile, instance, cached>>

Lock(w) ==
    /\ At(w, "lock")
    /\ holder \in {None, Handle(w)}
    /\ holder' = Handle(w)
    /\ Goto(w, "inner")
    /\ UNCHANGED <<lockFile, instance, cached>>

(* _lock_win32 gives up with an OSError, which get_token does not retry.    *)
LockTimesOut(w) ==
    /\ TimesOut
    /\ At(w, "lock")
    /\ holder \notin {None, Handle(w)}
    /\ lockFile' = [lockFile EXCEPT ![Object(w)] = None]
    /\ Goto(w, "failed")
    /\ UNCHANGED <<holder, instance, cached>>

Wanted(w) == <<worker[w].credential, worker[w].scope>>

(* The wrapped credential returns the token it has for the scope, or walks  *)
(* the chain of its sources, the last of which asks the user.               *)
UseCache(w) ==
    /\ At(w, "inner")
    /\ \/ /\ Wanted(w) \in cached
          /\ worker' = [worker EXCEPT ![w].result = "token", ![w].pc = "unlock"]
       \/ Wanted(w) \notin cached /\ Goto(w, "walk")
    /\ UNCHANGED <<holder, lockFile, instance, cached>>

Walk(w) ==
    /\ At(w, "walk")
    /\ \E result \in Results :
        /\ worker' = [worker EXCEPT ![w].result = result, ![w].pc = "unlock"]
        /\ cached' = IF result = "token" THEN cached \cup {Wanted(w)} ELSE cached
    /\ UNCHANGED <<holder, lockFile, instance>>

(* A cached token comes to its end, whatever the threads are doing.         *)
Expire(token) ==
    /\ cached' = cached \ {token}
    /\ UNCHANGED <<holder, lockFile, instance, worker>>

AnswerOnceMore(w) ==
    LET me == worker[w]
    IN  IF me.result = "token" THEN [me EXCEPT !.pc = "token"]
        ELSE IF me.result = "unavailable" /\ me.attempt <= MaxRetries
               THEN [me EXCEPT !.pc = "asleep", !.attempt = @ + 1]
               ELSE [me EXCEPT !.pc = "failed"]

(* What get_token makes of an attempt's result. *)
Answer(w) ==
    LET me == worker[w]
    IN  IF me.result = "token" THEN [me EXCEPT !.pc = "token"]
        ELSE IF me.result = "unavailable" /\ me.attempt < MaxRetries
               THEN [me EXCEPT !.pc = "asleep", !.attempt = @ + 1]
               ELSE [me EXCEPT !.pc = "failed"]

UnlockAfterRetries(w) ==
    /\ At(w, "unlock")
    /\ worker' = [worker EXCEPT ![w] = Answer(w)]
    /\ IF Answer(w).pc = "asleep"
         THEN UNCHANGED <<holder, lockFile>>
         ELSE /\ holder' = IF holder = Handle(w) THEN None ELSE holder
              /\ lockFile' = [lockFile EXCEPT ![Object(w)] = None]
    /\ UNCHANGED <<instance, cached>>

UnlockOnSuccess(w) ==
    /\ At(w, "unlock")
    /\ worker' = [worker EXCEPT ![w] = Answer(w)]
    /\ IF Answer(w).pc # "token"
         THEN UNCHANGED <<holder, lockFile>>
         ELSE /\ holder' = IF holder = Handle(w) THEN None ELSE holder
              /\ lockFile' = [lockFile EXCEPT ![Object(w)] = None]
    /\ UNCHANGED <<instance, cached>>

(* FileLock.__exit__ unlocks and closes on every way out of an attempt;     *)
(* only then does the worker return, raise or go to sleep before the next.  *)
Unlock(w) ==
    /\ At(w, "unlock")
    /\ worker' = [worker EXCEPT ![w] = Answer(w)]
    /\ holder' = IF holder = Handle(w) THEN None ELSE holder
    /\ lockFile' = [lockFile EXCEPT ![Object(w)] = None]
    /\ UNCHANGED <<instance, cached>>

Wake(w) ==
    /\ At(w, "asleep")
    /\ Goto(w, "open")
    /\ UNCHANGED <<holder, lockFile, instance, cached>>

(* A process dies at any moment: the system closes its files. *)
Crash(p) ==
    LET lost == {w \in Workers : ProcessOf[w] = p}
    IN  /\ \E w \in lost : worker[w].pc \notin Over \cup {"idle"}
        /\ worker' = [w \in Workers |->
               IF w \in lost /\ worker[w].pc \notin Over
                 THEN [worker[w] EXCEPT !.pc = "dead"] ELSE worker[w]]
        /\ holder' = IF holder \in lost THEN None ELSE holder
        /\ lockFile' = [w \in Workers |-> IF w \in lost THEN None ELSE lockFile[w]]
        /\ UNCHANGED <<instance, cached>>

Init ==
    /\ holder = None
    /\ lockFile = [w \in Workers |-> None]
    /\ instance = [p \in Processes |-> None]
    /\ cached = {}
    /\ worker = [w \in Workers |-> [pc |-> "idle", credential |-> None, scope |-> None,
                                    result |-> "error", attempt |-> 0]]

Step(w) ==
    \/ Load(w) \/ Open(w) \/ Lock(w) \/ UseCache(w) \/ Walk(w) \/ Unlock(w) \/ Wake(w)

Terminated == (\A w \in Workers : worker[w].pc \in Over) /\ UNCHANGED vars

Next ==
    \/ \E w \in Workers : Step(w) \/ LockTimesOut(w)
    \/ \E p \in Processes : Crash(p)
    \/ \E token \in cached : Expire(token)
    \/ Terminated

Spec == Init /\ [][Next]_vars

(* Every thread that can take a step takes it: the calls below a worker     *)
(* have time limits of their own, and so must a user's credential class.    *)
(* A crash need not happen, nor the end of a token, nor the timeout of the  *)
(* lock, which Unix does not have.                                          *)
FairSpec == Spec /\ \A w \in Workers : WF_vars(Step(w))

-----------------------------------------------------------------------------
(* Properties *)

TypeOK ==
    /\ holder \in Workers \cup {None}
    /\ lockFile \in [Workers -> Workers \cup {None}]
    /\ instance \in [Processes -> Workers \cup {None}]
    /\ cached \subseteq Workers \X Scopes
    /\ worker \in [Workers -> Worker]

(* The token cache is not safe for concurrent access: no two threads, of    *)
(* one process or of two, run the wrapped credential at once.               *)
MutualExclusion ==
    \A v, w \in Workers :
        worker[v].pc \in Inside /\ worker[w].pc \in Inside => v = w

(* "releasing the file lock between attempts": whoever holds the lock is at *)
(* work in the credential, never asleep, gone or dead.                      *)
HeldOnlyInside == holder # None => worker[holder].pc \in Inside

(* The user is not asked while the process can do without: no thread walks  *)
(* the chain while a credential of its process has a valid token for that   *)
(* scope ("one prompt per thread" is what build_credential is to avoid).    *)
(* So threads that need the same token at once walk the chain once, and     *)
(* again only when the walk fails or the token expires.                     *)
OneSignIn ==
    \A v, w \in Workers :
        At(w, "walk") /\ ProcessOf[v] = ProcessOf[w] => <<v, worker[w].scope>> \notin cached

(* Everyone who asks for a token gets it or an error, whoever fails, sleeps *)
(* or dies meanwhile.                                                       *)
RequestsEnd == \A w \in Workers : ~At(w, "idle") ~> worker[w].pc \in Over
=============================================================================
