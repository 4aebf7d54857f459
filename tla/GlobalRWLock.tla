---------------------------- MODULE GlobalRWLock ----------------------------
(* The lock that protects what a process keeps of a resource shared with   *)
(* other processes (GlobalRWLock.cpp): a cached lock of the lock manager,  *)
(* the logical owners that use it, and the object it covers.  The lock     *)
(* manager is the abstraction that LockManager justifies: levels granted   *)
(* in order, and a blocking notice for every holder, once per level held.  *)
EXTENDS LockLevels, Sequences, FiniteSets

CONSTANTS
  Processes,
  Owners,          \* logical owners, each of which runs one call at a time
  Home,            \* the process of an owner
  NULL,
  MaxEntries,      \* bound on the recursion of an owner
  MaxFailures      \* bound on calls that the lock manager or fetch() fails

ASSUME ConstantsAssumption ==
  /\ Home \in [Owners -> Processes]
  /\ NULL \notin Owners
  /\ MaxEntries \in Nat /\ MaxFailures \in Nat

LCK_read == LCK_PR
LCK_write == LCK_EX

VARIABLES
  cached_lock,        \* level of the cached lock of a process
  newLock,            \* level granted to the call of an owner, before it is noted
  notice,             \* blocking notices: none, posted, or seen by the holder
  waiting,            \* owners whose request is pending in the lock manager
  level,              \* what the call, or the use, of an owner is for
  readers,            \* entry count of an owner among the readers of its process
  writer,             \* owner_handle of the writer of a process
  entry_count,        \* of the writer
  internal_blocking,
  external_blocking,
  asts,               \* processes whose blocking routine is about to run
  pc,                 \* where the call of an owner is: idle, lock, wait, granted
  object,             \* what a process keeps of the resource: none, current, stale
  entries,            \* lock() calls of an owner that unlock() has not matched
  failures

lmVars == <<cached_lock, newLock, notice, waiting>>
countVars == <<readers, writer, entry_count, internal_blocking, external_blocking>>
callVars == <<level, pc, entries>>
vars == <<lmVars, countVars, callVars, asts, object, failures>>

Levels == {LCK_none, LCK_read, LCK_write}

TypeOK ==
  /\ cached_lock \in [Processes -> Levels] /\ newLock \in [Owners -> Levels]
  /\ notice \in [Processes \cup Owners -> {"none", "posted", "seen"}]
  /\ waiting \in Seq(Owners)
  /\ level \in [Owners -> Levels] /\ readers \in [Owners -> 0 .. MaxEntries]
  /\ writer \in [Processes -> Owners \cup {NULL}]
  /\ entry_count \in [Processes -> 0 .. MaxEntries]
  /\ internal_blocking \in [Processes -> 0 .. Cardinality(Owners) + MaxFailures]
  /\ external_blocking \in [Processes -> BOOLEAN]
  /\ asts \subseteq Processes
  /\ pc \in [Owners -> {"idle", "lock", "wait", "granted"}]
  /\ object \in [Processes -> {"none", "current", "stale"}]
  /\ entries \in [Owners -> 0 .. MaxEntries]
  /\ failures \in 0 .. MaxFailures

Init ==
  /\ cached_lock = [p \in Processes |-> LCK_none]
  /\ newLock = [o \in Owners |-> LCK_none]
  /\ notice = [h \in Processes \cup Owners |-> "none"]
  /\ waiting = <<>>
  /\ level = [o \in Owners |-> LCK_none]
  /\ readers = [o \in Owners |-> 0]
  /\ writer = [p \in Processes |-> NULL]
  /\ entry_count = [p \in Processes |-> 0]
  /\ internal_blocking = [p \in Processes |-> 0]
  /\ external_blocking = [p \in Processes |-> FALSE]
  /\ asts = {}
  /\ pc = [o \in Owners |-> "idle"]
  /\ object = [p \in Processes |-> "none"]
  /\ entries = [o \in Owners |-> 0]
  /\ failures = 0

-----------------------------------------------------------------------------
(* The lock manager                                                        *)

Readers(p) == {o \in Owners : Home[o] = p /\ readers[o] > 0}
Unused_readers(p) ==                   \* mutant: the writer is not looked at
  Readers(p) = {}
Unused(p) == Readers(p) = {} /\ entry_count[p] = 0

Compatible(v) ==
  /\ \A p \in Processes : COMPATIBLE(v, cached_lock[p])
  /\ \A o \in Owners : COMPATIBLE(v, newLock[o])

(* A lock of a process is held by the process (the cached one) or by a     *)
(* call that has not yet been noted.                                       *)
HolderLevel(h) == IF h \in Processes THEN cached_lock[h] ELSE newLock[h]
ProcessOf(h) == IF h \in Processes THEN h ELSE Home[h]

(* LCK_downgrade(): the highest level that lets the pending requests pass. *)
DowngradedLevel(p) ==
  LET lower == {v \in Levels : /\ v <= cached_lock[p]
                               /\ \A i \in 1 .. Len(waiting) :
                                    COMPATIBLE(level[waiting[i]], v)}
  IN CHOOSE v \in lower : \A w \in lower : w <= v

(* A conversion makes the holder open to notices again, a release ends     *)
(* them.                                                                   *)
SetCached(p, v) ==
  /\ cached_lock' = [cached_lock EXCEPT ![p] = v]
  /\ notice' = [notice EXCEPT ![p] = IF @ = "seen" \/ v = LCK_none THEN "none" ELSE @]

(* post_pending(): the first in the queue gets its level.  The section of  *)
(* the lock manager that frees a level also grants it; as a step of its    *)
(* own the grant comes no later than the next request or the waiter sees.  *)
lm_grant ==
  /\ waiting # <<>> /\ Compatible(level[Head(waiting)])
  /\ newLock' = [newLock EXCEPT ![Head(waiting)] = level[Head(waiting)]]
  /\ pc' = [pc EXCEPT ![Head(waiting)] = "granted"]
  /\ waiting' = Tail(waiting)
  /\ UNCHANGED <<cached_lock, notice, countVars, level, entries, asts, object, failures>>

(* post_blockage(), by a call that waits: holders that have seen a notice  *)
(* for the level they hold get no other.                                   *)
lm_post(o) ==
  /\ pc[o] = "wait"
  /\ notice' = [h \in Processes \cup Owners |->
                  IF /\ notice[h] = "none"
                     /\ ~COMPATIBLE(level[o], HolderLevel(h))
                  THEN "posted" ELSE notice[h]]
  /\ UNCHANGED <<cached_lock, newLock, waiting, countVars, callVars, asts, object, failures>>

(* blocking_action2(), up to the call of the routine. *)
lm_ast(h) ==
  /\ notice[h] = "posted"
  /\ notice' = [notice EXCEPT ![h] = "seen"]
  /\ asts' = asts \cup {ProcessOf(h)}
  /\ UNCHANGED <<cached_lock, newLock, waiting, countVars, callVars, object, failures>>

-----------------------------------------------------------------------------
(* GlobalRWLock::lock()                                                    *)

(* What a caller may ask for: it never locks for writing what it uses      *)
(* already, nor for reading what it writes.                                *)
MayAsk(o, v) ==
  pc[o] = "idle" /\ (entries[o] = 0 \/ (level[o] = LCK_read /\ v = LCK_read))

lock_recursion(o) ==
  /\ MayAsk(o, LCK_read)
  /\ readers[o] \in 1 .. MaxEntries - 1
  /\ readers' = [readers EXCEPT ![o] = @ + 1]
  /\ entries' = [entries EXCEPT ![o] = @ + 1]
  /\ UNCHANGED <<lmVars, writer, entry_count, internal_blocking, external_blocking,
                 level, pc, asts, object, failures>>

(* The owner becomes a user of the lock; the call returns. *)
Enter(o, v) ==
  LET p == Home[o]
  IN /\ IF v = LCK_read
        THEN /\ readers' = [readers EXCEPT ![o] = @ + 1]
             /\ UNCHANGED <<writer, entry_count>>
        ELSE /\ writer' = [writer EXCEPT ![p] = o]
             /\ entry_count' = [entry_count EXCEPT ![p] = @ + 1]
             /\ UNCHANGED readers
     /\ entries' = [entries EXCEPT ![o] = @ + 1]
     /\ level' = [level EXCEPT ![o] = v]
     /\ pc' = [pc EXCEPT ![o] = "idle"]

FastPath_level(o, v) ==                \* mutant: other users are not looked at
  LET p == Home[o]
  IN /\ cached_lock[p] >= v
     /\ internal_blocking[p] = 0 /\ ~external_blocking[p]
FastPath(o, v) ==
  LET p == Home[o]
  IN /\ cached_lock[p] >= v
     /\ entry_count[p] = 0 /\ (v = LCK_read \/ Readers(p) = {})
     /\ internal_blocking[p] = 0 /\ ~external_blocking[p]

lock_cached(o, v) ==
  /\ MayAsk(o, v)
  /\ readers[o] = 0
  /\ FastPath(o, v)
  /\ Enter(o, v)
  /\ UNCHANGED <<lmVars, internal_blocking, external_blocking, asts, object, failures>>

(* The first scope, up to internal_blocking++. *)
lock_first(o, v) ==
  LET p == Home[o]
  IN /\ MayAsk(o, v)
     /\ readers[o] = 0
     /\ ~FastPath(o, v)
     /\ IF cached_lock[p] # LCK_none /\ Unused(p)
        THEN /\ SetCached(p, LCK_none)
             /\ object' = [object EXCEPT ![p] = "none"]
             /\ external_blocking' = [external_blocking EXCEPT ![p] = FALSE]
        ELSE UNCHANGED <<cached_lock, notice, object, external_blocking>>
     /\ internal_blocking' = [internal_blocking EXCEPT ![p] = @ + 1]
     /\ level' = [level EXCEPT ![o] = v]
     /\ pc' = [pc EXCEPT ![o] = "lock"]
     /\ UNCHANGED <<newLock, waiting, readers, writer, entry_count, entries, asts, failures>>

(* LCK_lock(), outside of the mutex of the counters. *)
LCK_lock(o) ==
  /\ pc[o] = "lock"
  /\ waiting' = Append(waiting, o)
  /\ pc' = [pc EXCEPT ![o] = "wait"]
  /\ UNCHANGED <<cached_lock, newLock, notice, countVars, level, entries, asts, object, failures>>

(* The request is refused: no wait, time out or deadlock. *)
LCK_lock_fails(o) ==
  /\ pc[o] = "wait"
  /\ failures < MaxFailures
  /\ failures' = failures + 1
  /\ \E i \in 1 .. Len(waiting) :
       /\ waiting[i] = o
       /\ waiting' = SubSeq(waiting, 1, i - 1) \o SubSeq(waiting, i + 1, Len(waiting))
  /\ pc' = [pc EXCEPT ![o] = "idle"]
  /\ UNCHANGED <<cached_lock, newLock, notice, countVars, level, entries, asts, object>>

Uncount_never(p) ==                    \* mutant: the waiting call stays counted
  UNCHANGED internal_blocking
Uncount(p) ==
  internal_blocking' = [internal_blocking EXCEPT ![p] = @ - 1]

fetch_never(p) ==                      \* mutant: the object is taken as it is
  UNCHANGED object
fetch(p) == object' = [object EXCEPT ![p] = "current"]

(* The second scope.  The cached lock is replaced by a higher one. *)
lock_second(o) ==
  LET p == Home[o]
      v == newLock[o]
      higher == v > cached_lock[p]
  IN /\ pc[o] = "granted"
     /\ Uncount(p)
     /\ fetch(p)
     /\ Enter(o, v)
     /\ newLock' = [newLock EXCEPT ![o] = LCK_none]
     /\ cached_lock' = IF higher THEN [cached_lock EXCEPT ![p] = v] ELSE cached_lock
     /\ notice' = IF higher THEN [notice EXCEPT ![p] = notice[o], ![o] = "none"]
                            ELSE [notice EXCEPT ![o] = "none"]
     /\ UNCHANGED <<waiting, external_blocking, asts, failures>>

fetch_fails(o) ==
  LET p == Home[o]
  IN /\ pc[o] = "granted"
     /\ failures < MaxFailures
     /\ failures' = failures + 1
     /\ Uncount(p)
     /\ newLock' = [newLock EXCEPT ![o] = LCK_none]
     /\ notice' = [notice EXCEPT ![o] = "none"]
     /\ pc' = [pc EXCEPT ![o] = "idle"]
     /\ UNCHANGED <<cached_lock, waiting, readers, writer, entry_count, external_blocking,
                    level, entries, asts, object>>

-----------------------------------------------------------------------------
(* GlobalRWLock::unlock() and the rest                                     *)

(* The end of unlock(): the last user gives up what others ask for. *)
GiveUp_internal(p) ==                  \* mutant: only waiters of the process count
  IF internal_blocking[p] > 0
  THEN /\ SetCached(p, LCK_none)
       /\ object' = [object EXCEPT ![p] = "none"]
       /\ external_blocking' = [external_blocking EXCEPT ![p] = FALSE]
  ELSE UNCHANGED <<cached_lock, notice, object, external_blocking>>
GiveUp(p) ==
  IF internal_blocking[p] > 0 \/ external_blocking[p]
  THEN LET v == IF internal_blocking[p] > 0 THEN LCK_none ELSE DowngradedLevel(p)
       IN /\ SetCached(p, v)
          /\ object' = IF v < LCK_read THEN [object EXCEPT ![p] = "none"] ELSE object
          /\ external_blocking' = [external_blocking EXCEPT ![p] = FALSE]
  ELSE UNCHANGED <<cached_lock, notice, object, external_blocking>>

Leave(o) ==
  /\ pc[o] = "idle" /\ entries[o] > 0
  /\ entries' = [entries EXCEPT ![o] = @ - 1]
  /\ UNCHANGED <<newLock, waiting, internal_blocking, level, pc, asts, failures>>

unlock_read(o) ==
  LET p == Home[o]
  IN /\ level[o] = LCK_read /\ readers[o] > 0
     /\ Leave(o)
     /\ readers' = [readers EXCEPT ![o] = @ - 1]
     /\ IF Readers(p) \subseteq {o} /\ readers[o] = 1 /\ entry_count[p] = 0
        THEN GiveUp(p)
        ELSE UNCHANGED <<cached_lock, notice, object, external_blocking>>
     /\ UNCHANGED <<writer, entry_count>>

(* Without contention the lock is kept for reading. *)
unlock_write(o) ==
  LET p == Home[o]
  IN /\ level[o] = LCK_write
     /\ Leave(o)
     /\ writer' = [writer EXCEPT ![p] = NULL]
     /\ entry_count' = [entry_count EXCEPT ![p] = 0]
     /\ IF internal_blocking[p] = 0 /\ ~external_blocking[p]
        THEN SetCached(p, LCK_read) /\ UNCHANGED <<object, external_blocking>>
        ELSE IF Readers(p) = {} THEN GiveUp(p)
        ELSE UNCHANGED <<cached_lock, notice, object, external_blocking>>
     /\ UNCHANGED readers

blockingAstHandler(p) ==
  /\ p \in asts
  /\ asts' = asts \ {p}
  /\ IF internal_blocking[p] = 0 /\ Unused(p)
     THEN LET v == DowngradedLevel(p)
          IN /\ SetCached(p, v)
             /\ object' = IF v < LCK_read THEN [object EXCEPT ![p] = "none"] ELSE object
             /\ external_blocking' = IF v < LCK_read
                                     THEN [external_blocking EXCEPT ![p] = FALSE]
                                     ELSE external_blocking
     ELSE /\ external_blocking' = [external_blocking EXCEPT ![p] = TRUE]
          /\ UNCHANGED <<cached_lock, notice, object>>
  /\ UNCHANGED <<newLock, waiting, readers, writer, entry_count, internal_blocking,
                 callVars, failures>>

(* A user hands its lock to another owner of the process. *)
changeLockOwner_read(o, new) ==
  /\ o # new /\ Home[o] = Home[new]
  /\ pc[o] = "idle" /\ readers[o] > 0
  /\ pc[new] = "idle" /\ entries[new] < MaxEntries
  /\ entries[new] > 0 => level[new] = LCK_read
  /\ readers' = [readers EXCEPT ![o] = @ - 1, ![new] = @ + 1]
  /\ entries' = [entries EXCEPT ![o] = @ - 1, ![new] = @ + 1]
  /\ level' = [level EXCEPT ![new] = LCK_read]
  /\ UNCHANGED <<lmVars, writer, entry_count, internal_blocking, external_blocking,
                 pc, asts, object, failures>>

changeLockOwner_write(o, new) ==
  LET p == Home[o]
  IN /\ o # new /\ p = Home[new]
     /\ pc[o] = "idle" /\ writer[p] = o /\ entry_count[p] = 1
     /\ pc[new] = "idle" /\ entries[new] = 0
     /\ writer' = [writer EXCEPT ![p] = new]
     /\ entries' = [entries EXCEPT ![o] = 0, ![new] = 1]
     /\ level' = [level EXCEPT ![new] = LCK_write]
     /\ UNCHANGED <<lmVars, readers, entry_count, internal_blocking, external_blocking,
                    pc, asts, object, failures>>

tryReleaseLock_used(p) ==              \* mutant: users are not looked at
  /\ cached_lock[p] # LCK_none
  /\ SetCached(p, LCK_none)
  /\ object' = [object EXCEPT ![p] = "none"]
  /\ UNCHANGED <<newLock, waiting, countVars, callVars, asts, failures>>
tryReleaseLock(p) ==
  /\ cached_lock[p] # LCK_none
  /\ Unused(p)
  /\ SetCached(p, LCK_none)
  /\ object' = [object EXCEPT ![p] = "none"]
  /\ UNCHANGED <<newLock, waiting, countVars, callVars, asts, failures>>

(* A writer changes the resource: what others still keep is stale. *)
Write(o) ==
  /\ pc[o] = "idle" /\ entries[o] > 0 /\ level[o] = LCK_write
  /\ object' = [p \in Processes |-> IF p = Home[o] \/ object[p] = "none"
                                     THEN object[p] ELSE "stale"]
  /\ UNCHANGED <<lmVars, countVars, callVars, asts, failures>>

Call(o) ==
  \/ lock_recursion(o)
  \/ \E v \in {LCK_read, LCK_write} : lock_cached(o, v) \/ lock_first(o, v)
  \/ LCK_lock(o) \/ LCK_lock_fails(o) \/ lock_second(o) \/ fetch_fails(o)
  \/ unlock_read(o) \/ unlock_write(o)
  \/ \E new \in Owners : changeLockOwner_read(o, new) \/ changeLockOwner_write(o, new)
  \/ Write(o)

Next ==
  \/ lm_grant
  \/ \E o \in Owners : Call(o) \/ lm_post(o)
  \/ \E h \in Processes \cup Owners : lm_ast(h)
  \/ \E p \in Processes : blockingAstHandler(p) \/ tryReleaseLock(p)

Spec == Init /\ [][Next]_vars

-----------------------------------------------------------------------------
Uses(o, v) == entries[o] > 0 /\ level[o] = v

(* Readers and writers exclude each other, in all processes, although most *)
(* calls of lock() never ask the lock manager.                             *)
Exclusion ==
  \A o, n \in Owners :
    o # n /\ Uses(o, LCK_write) => ~Uses(n, LCK_write) /\ ~Uses(n, LCK_read)

(* Whoever has locked the object finds it as the last writer left it.      *)
ObjectIsCurrent == \A o \in Owners : entries[o] > 0 => object[Home[o]] = "current"

(* The assertions of unlock(): the physical lock covers its users.         *)
LockCoversUsers ==
  \A o \in Owners : entries[o] > 0 => cached_lock[Home[o]] >= level[o]

(* All of this is the reader/writer lock that the callers rely on, taken   *)
(* and given up in one step, with a copy of the object that no other       *)
(* process can write while it is in use.                                   *)
Abstract == INSTANCE RWLock WITH
              use <- [o \in Owners |-> IF entries[o] > 0 THEN level[o] ELSE LCK_none],
              fresh <- {p \in Processes : object[p] = "current"}
ImplementsRWLock == Abstract!Spec

-----------------------------------------------------------------------------
(* Calls are run, the lock manager grants, posts the blockage of a waiter  *)
(* again and delivers notices, and a user unlocks as often as it locked.   *)
Fairness ==
  /\ WF_vars(lm_grant)
  /\ \A o \in Owners :
       /\ WF_vars(LCK_lock(o) \/ lock_second(o))
       /\ WF_vars(lm_post(o))
       /\ WF_vars(unlock_read(o) \/ unlock_write(o))
       /\ SF_vars(entries[o] = 1 /\ (unlock_read(o) \/ unlock_write(o)))
  /\ \A h \in Processes \cup Owners : WF_vars(lm_ast(h))
  /\ \A p \in Processes : WF_vars(blockingAstHandler(p))

FairSpec == Spec /\ Fairness

(* Every lock() returns: no holder keeps a cached lock from those that     *)
(* wait for it, and users that come by the short cut do not pass them for  *)
(* ever.                                                                   *)
EveryLockReturns == \A o \in Owners : pc[o] # "idle" ~> pc[o] = "idle"
=============================================================================
