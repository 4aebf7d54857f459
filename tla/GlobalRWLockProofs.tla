------------------------- MODULE GlobalRWLockProofs -------------------------
(***************************************************************************)
(* Safety of GlobalRWLock, for any number of processes and owners and any  *)
(* placement of them.  The inductive invariant ties the counters of a      *)
(* process to its cached lock, and the cached locks to each other through  *)
(* the lock manager; every step preserves it, and the theorems follow.     *)
(***************************************************************************)
EXTENDS GlobalRWLock, TLAPS

TypeInv ==
  /\ cached_lock \in [Processes -> Levels] /\ newLock \in [Owners -> Levels]
  /\ waiting \in Seq(Owners)
  /\ level \in [Owners -> Levels] /\ readers \in [Owners -> Nat]
  /\ entries \in [Owners -> Nat]
  /\ writer \in [Processes -> Owners \cup {NULL}]
  /\ entry_count \in [Processes -> Nat]
  /\ pc \in [Owners -> {"idle", "lock", "wait", "granted"}]
  /\ object \in [Processes -> {"none", "current", "stale"}]

(* The lock manager grants compatible levels only, also to two locks of    *)
(* one process.                                                            *)
Granted ==
  /\ \A p, q \in Processes : p # q => COMPATIBLE(cached_lock[p], cached_lock[q])
  /\ \A o \in Owners, p \in Processes : COMPATIBLE(newLock[o], cached_lock[p])
  /\ \A o, n \in Owners : o # n => COMPATIBLE(newLock[o], newLock[n])

(* An owner inside lock() uses nothing yet, and asks for a level.          *)
Calls ==
  \A o \in Owners :
    /\ newLock[o] = IF pc[o] = "granted" THEN level[o] ELSE LCK_none
    /\ pc[o] # "idle" => entries[o] = 0 /\ level[o] \in {LCK_read, LCK_write}

(* A request waits once.                                                   *)
Queue ==
  \A i \in 1 .. Len(waiting) :
    /\ pc[waiting[i]] = "wait"
    /\ \A j \in 1 .. Len(waiting) : waiting[i] = waiting[j] => i = j

(* The counters say who uses the lock, and the cached lock covers it.      *)
Counted ==
  \A o \in Owners :
    /\ readers[o] = IF level[o] = LCK_read THEN entries[o] ELSE 0
    /\ entries[o] > 0 => level[o] # LCK_none /\ cached_lock[Home[o]] >= level[o]
    /\ entries[o] > 0 /\ level[o] = LCK_write => writer[Home[o]] = o

OneWriter ==
  \A p \in Processes :
    /\ entry_count[p] = IF writer[p] = NULL THEN 0 ELSE 1
    /\ writer[p] # NULL =>
         /\ Home[writer[p]] = p
         /\ level[writer[p]] = LCK_write /\ entries[writer[p]] = 1
         /\ Readers(p) = {}

(* A process has a copy of the object exactly as long as it has a lock.    *)
Copies ==
  \A p \in Processes :
    object[p] = IF cached_lock[p] = LCK_none THEN "none" ELSE "current"

IInv == TypeInv /\ Granted /\ Calls /\ Queue /\ Counted /\ OneWriter /\ Copies

(* Two sequences in a row. *)
LEMMA Concatenated ==
  ASSUME NEW S, NEW s \in Seq(S), NEW t \in Seq(S)
  PROVE  /\ s \o t \in Seq(S) /\ Len(s \o t) = Len(s) + Len(t)
         /\ \A i \in 1 .. Len(s) + Len(t) :
              (s \o t)[i] = IF i <= Len(s) THEN s[i] ELSE t[i - Len(s)]
OBVIOUS

-----------------------------------------------------------------------------
(* The compatibility table, for the three levels this lock uses.           *)
LEMMA Table ==
  /\ Levels = {0, 3, 6}
  /\ \A s, t \in Levels : COMPATIBLE(s, t) <=> s = 0 \/ t = 0 \/ (s = 3 /\ t = 3)
BY DEF Levels, COMPATIBLE, compatibility, Level, LCK_read, LCK_write, LCK_none, LCK_null,
       LCK_SR, LCK_PR, LCK_SW, LCK_PW, LCK_EX

LEMMA Lower ==
  /\ \A s, t, v \in Levels : COMPATIBLE(s, t) /\ v <= t => COMPATIBLE(s, v)
  /\ \A s, t \in Levels : COMPATIBLE(s, t) => COMPATIBLE(t, s)
  /\ \A s \in Levels : COMPATIBLE(s, LCK_none) /\ COMPATIBLE(LCK_none, s)
BY Table DEF LCK_none

(* LCK_downgrade() lowers a level.                                         *)
LEMMA DowngradeLowers ==
  ASSUME TypeInv, NEW p \in Processes
  PROVE  DowngradedLevel(p) \in Levels /\ DowngradedLevel(p) <= cached_lock[p]
<1> DEFINE lower == {v \in Levels : /\ v <= cached_lock[p]
                                    /\ \A i \in 1 .. Len(waiting) :
                                         COMPATIBLE(level[waiting[i]], v)}
<1>1. cached_lock[p] \in Levels
  BY Zenon DEF TypeInv
<1>2. \A i \in 1 .. Len(waiting) : level[waiting[i]] \in Levels
  BY DEF TypeInv
<1>3. 0 \in lower
  BY <1>1, <1>2, Table
<1>4. \E v \in lower : \A w \in lower : w <= v
  BY <1>3, Table
<1>5. DowngradedLevel(p) \in lower
  BY <1>4, Zenon DEF DowngradedLevel
<1> QED
  BY <1>5, Zenon

-----------------------------------------------------------------------------
LEMMA InitIInv == Init => IInv
<1> SUFFICES ASSUME Init PROVE IInv
  OBVIOUS
<1>1. TypeInv
  BY Table DEF Init, TypeInv, LCK_none
<1>2. Granted
  BY Table, Zenon DEF Init, Granted, LCK_none
<1>3. Calls /\ Queue /\ Counted /\ OneWriter /\ Copies
  BY Table DEF Init, Calls, Queue, Counted, OneWriter, Copies, LCK_none, LCK_read, LCK_PR
<1> QED
  BY <1>1, <1>2, <1>3, Zenon DEF IInv

(* Home and the users of a process.                                        *)
LEMMA HomeType == ASSUME NEW o \in Owners PROVE Home[o] \in Processes
BY ConstantsAssumption, Zenon

LEMMA UnusedProcess ==
  ASSUME IInv, NEW p \in Processes, Unused(p), NEW o \in Owners, Home[o] = p
  PROVE  entries[o] = 0
<1>1. readers[o] = 0 /\ writer[p] = NULL
  BY DEF IInv, TypeInv, OneWriter, Unused, Readers
<1>2. level[o] = LCK_none \/ level[o] = LCK_read \/ level[o] = LCK_write
  BY Zenon DEF IInv, TypeInv, Levels
<1> QED
  BY <1>1, <1>2, ConstantsAssumption DEF IInv, TypeInv, Counted

(* Giving a lock up, or part of it: what the lock manager has granted is   *)
(* still compatible, and the copy of the object goes with the lock.        *)
LEMMA LowerCached ==
  ASSUME IInv, NEW p \in Processes, NEW v \in Levels, v <= cached_lock[p],
         cached_lock' = [cached_lock EXCEPT ![p] = v],
         object' = IF v < LCK_read THEN [object EXCEPT ![p] = "none"] ELSE object,
         newLock' = newLock
  PROVE  /\ cached_lock' \in [Processes -> Levels]
         /\ object' \in [Processes -> {"none", "current", "stale"}]
         /\ \A q \in Processes : q # p => cached_lock'[q] = cached_lock[q]
         /\ Granted' /\ Copies'
<1> USE DEF IInv
<1>1. Granted'
  <2>1. \A q, r \in Processes : q # r => COMPATIBLE(cached_lock'[q], cached_lock'[r])
    <3> TAKE q, r \in Processes
    <3> HAVE q # r
    <3>1. COMPATIBLE(cached_lock[q], cached_lock[r]) /\ cached_lock[q] \in Levels /\
            cached_lock[r] \in Levels
      BY Zenon DEF TypeInv, Granted
    <3>2. CASE q = p
      BY <3>1, <3>2, Lower, Zenon DEF TypeInv
    <3>3. CASE r = p
      BY <3>1, <3>3, Lower, Zenon DEF TypeInv
    <3> QED
      BY <3>1, <3>2, <3>3, Zenon DEF TypeInv
  <2>2. \A o \in Owners, q \in Processes : COMPATIBLE(newLock'[o], cached_lock'[q])
    BY Lower, Zenon DEF TypeInv, Granted
  <2> QED
    BY <2>1, <2>2, Zenon DEF Granted
<1>2. Copies'
  BY Table DEF TypeInv, Copies, LCK_none, LCK_read, LCK_PR
<1> QED
  BY <1>1, <1>2, Zenon DEF TypeInv

LEMMA GiveUpLowers ==
  ASSUME IInv, NEW p \in Processes, GiveUp(p), newLock' = newLock
  PROVE  /\ cached_lock' \in [Processes -> Levels]
         /\ object' \in [Processes -> {"none", "current", "stale"}]
         /\ \A q \in Processes : q # p => cached_lock'[q] = cached_lock[q]
         /\ Granted' /\ Copies'
<1>1. 0 \in Levels /\ 0 <= cached_lock[p]
  <2>1. cached_lock[p] \in {0, 3, 6}
    BY Table, Zenon DEF IInv, TypeInv
  <2> QED
    BY <2>1, Table
<1>2. CASE internal_blocking[p] > 0
  <2>1. /\ cached_lock' = [cached_lock EXCEPT ![p] = 0]
        /\ object' = IF 0 < LCK_read THEN [object EXCEPT ![p] = "none"] ELSE object
    BY <1>2, Zenon DEF GiveUp, SetCached, LCK_none
  <2>2. newLock' = newLock
    OBVIOUS
  <2> QED
    BY <1>1, <2>1, <2>2, LowerCached, Zenon
<1>3. CASE ~(internal_blocking[p] > 0) /\ external_blocking[p]
  <2> DEFINE v == DowngradedLevel(p)
  <2>1. v \in Levels /\ v <= cached_lock[p]
    BY DowngradeLowers, Zenon DEF IInv
  <2>2. /\ cached_lock' = [cached_lock EXCEPT ![p] = v]
        /\ object' = IF v < LCK_read THEN [object EXCEPT ![p] = "none"] ELSE object
    BY <1>3, Zenon DEF GiveUp, SetCached
  <2> HIDE DEF v
  <2> QED
    BY <2>1, <2>2, LowerCached, Zenon
<1>4. CASE ~(internal_blocking[p] > 0) /\ ~external_blocking[p]
  <2>1. UNCHANGED <<cached_lock, object>>
    BY <1>4, Zenon DEF GiveUp
  <2> QED
    BY <2>1, Zenon DEF IInv, TypeInv, Granted, Copies
<1> QED
  BY <1>2, <1>3, <1>4, Zenon

(* The same when nobody of the process uses the lock.                      *)
LEMMA UnusedGivenUp ==
  ASSUME IInv, NEW p \in Processes, Unused(p),
         /\ cached_lock' \in [Processes -> Levels]
         /\ object' \in [Processes -> {"none", "current", "stale"}]
         /\ \A q \in Processes : q # p => cached_lock'[q] = cached_lock[q]
         /\ Granted' /\ Copies',
         UNCHANGED <<newLock, level, readers, entries, writer, entry_count, pc, waiting>>
  PROVE  IInv'
<1>0. \A o \in Owners : Home[o] = p => entries[o] = 0
  BY UnusedProcess, Zenon
<1> USE DEF IInv
<1>1. TypeInv'
  BY Zenon DEF TypeInv
<1>2. Calls' /\ Queue' /\ OneWriter'
  BY DEF Calls, Queue, OneWriter, Readers
<1>3. Counted'
  BY <1>0, HomeType DEF TypeInv, Counted
<1> QED
  BY <1>1, <1>2, <1>3, Zenon

(* The lock manager grants the first in the queue.                         *)
LEMMA GrantStep == IInv /\ lm_grant => IInv'
<1> SUFFICES ASSUME IInv, lm_grant PROVE IInv'
  OBVIOUS
<1> USE DEF IInv
<1> DEFINE o == Head(waiting)
<1>1. o \in Owners /\ o = waiting[1] /\ 1 \in 1 .. Len(waiting) /\ pc[o] = "wait"
  BY DEF lm_grant, TypeInv, Queue
<1>2. entries[o] = 0 /\ level[o] \in {LCK_read, LCK_write}
  BY <1>1, Zenon DEF Calls
<1>3. TypeInv'
  <2>1. Tail(waiting) \in Seq(Owners)
    BY DEF lm_grant, TypeInv
  <2>2. level[o] \in Levels
    BY <1>1, Zenon DEF TypeInv
  <2> HIDE DEF o
  <2>3. newLock' = [newLock EXCEPT ![o] = level[o]] /\ pc' = [pc EXCEPT ![o] = "granted"]
    BY Zenon DEF lm_grant, o
  <2> QED
    BY <2>1, <2>2, <2>3, Zenon DEF lm_grant, TypeInv, countVars
<1>4. Granted'
  <2>1. level[o] \in Levels /\ Compatible(level[o])
    BY <1>1, Zenon DEF lm_grant, TypeInv
  <2> HIDE DEF o
  <2>2. newLock' = [newLock EXCEPT ![o] = level[o]] /\ cached_lock' = cached_lock
    BY Zenon DEF lm_grant, o
  <2>3. \A n \in Owners, q \in Processes : COMPATIBLE(newLock'[n], cached_lock'[q])
    BY <2>1, <2>2, Lower, Zenon DEF TypeInv, Granted, Compatible
  <2>4. \A m, n \in Owners : m # n => COMPATIBLE(newLock'[m], newLock'[n])
    BY <2>1, <2>2, Lower DEF TypeInv, Granted, Compatible
  <2> QED
    BY <2>2, <2>3, <2>4, Zenon DEF Granted
<1>5. Calls'
  BY <1>1, <1>2, Zenon DEF lm_grant, TypeInv, Calls
<1>6. Queue'
  <2>1. \A i \in 1 .. Len(waiting') : waiting'[i] = waiting[i + 1] /\ i + 1 \in 1 .. Len(waiting)
    BY DEF lm_grant, TypeInv
  <2>2. ASSUME NEW i \in 1 .. Len(waiting')
        PROVE  pc'[waiting'[i]] = "wait"
    <3>1. waiting'[i] # o
      BY <1>1, <2>1 DEF Queue
    <3> QED
      BY <2>1, <3>1, SMTT(30) DEF lm_grant, Queue, TypeInv
  <2> QED
    BY <2>1, <2>2 DEF Queue
<1>7. Counted' /\ OneWriter' /\ Copies'
  BY Zenon DEF lm_grant, countVars, Counted, OneWriter, Copies, Readers
<1> QED
  BY <1>3, <1>4, <1>5, <1>6, <1>7, Zenon

(* lock(): a recursion, and the short cut.                                 *)
LEMMA RecursionStep ==
  ASSUME IInv, NEW o \in Owners, lock_recursion(o)
  PROVE  IInv'
<1> USE DEF IInv, lock_recursion, lmVars, MayAsk
<1>1. TypeInv'
  BY DEF TypeInv
<1>2. Granted' /\ Calls' /\ Queue' /\ Copies'
  BY DEF TypeInv, Granted, Calls, Queue, Copies
<1>3. level[o] = LCK_read /\ entries[o] = readers[o]
  BY DEF TypeInv, Counted
<1>4. Counted'
  BY <1>3 DEF TypeInv, Counted
<1>5. OneWriter'
  BY <1>3 DEF TypeInv, OneWriter, Counted, Readers, LCK_read, LCK_write, LCK_PR, LCK_EX
<1> QED
  BY <1>1, <1>2, <1>4, <1>5, Zenon

(* An owner gets in: the counters still say who uses the lock.             *)
LEMMA EnterKeeps ==
  ASSUME IInv, NEW o \in Owners, NEW v \in {LCK_read, LCK_write}, Enter(o, v),
         entries[o] = 0, writer[Home[o]] = NULL,
         v = LCK_write => Readers(Home[o]) = {},
         cached_lock' \in [Processes -> Levels],
         \A q \in Processes : cached_lock'[q] >= cached_lock[q],
         cached_lock'[Home[o]] >= v
  PROVE  /\ readers' \in [Owners -> Nat] /\ entries' \in [Owners -> Nat]
         /\ level' \in [Owners -> Levels]
         /\ writer' \in [Processes -> Owners \cup {NULL}]
         /\ entry_count' \in [Processes -> Nat]
         /\ pc' \in [Owners -> {"idle", "lock", "wait", "granted"}]
         /\ Counted' /\ OneWriter'
<1> USE DEF IInv
<1>0. Home[o] \in Processes /\ v \in Levels /\ entry_count[Home[o]] = 0 /\ readers[o] = 0
  BY HomeType, Zenon DEF Levels, TypeInv, OneWriter, Counted
<1>1. /\ entries' = [entries EXCEPT ![o] = 1]
      /\ level' = [level EXCEPT ![o] = v]
      /\ pc' = [pc EXCEPT ![o] = "idle"]
  BY DEF Enter, TypeInv
<1>2. /\ entries' \in [Owners -> Nat] /\ level' \in [Owners -> Levels]
      /\ pc' \in [Owners -> {"idle", "lock", "wait", "granted"}]
  BY <1>0, <1>1, Zenon DEF TypeInv
<1>3. CASE v = LCK_read
  <2>1. readers' = [readers EXCEPT ![o] = 1] /\ UNCHANGED <<writer, entry_count>>
    BY <1>0, <1>3 DEF Enter, TypeInv
  <2>2. Counted'
    <3> SUFFICES ASSUME NEW n \in Owners
                 PROVE  /\ readers'[n] = IF level'[n] = LCK_read THEN entries'[n] ELSE 0
                        /\ entries'[n] > 0 =>
                             level'[n] # LCK_none /\ cached_lock'[Home[n]] >= level'[n]
                        /\ entries'[n] > 0 /\ level'[n] = LCK_write => writer'[Home[n]] = n
      BY Zenon DEF Counted
    <3>1. CASE n = o
      BY <1>1, <1>3, <2>1, <3>1 DEF TypeInv, LCK_none, LCK_read, LCK_write, LCK_PR, LCK_EX
    <3>2. CASE n # o
      <4>1. /\ readers'[n] = readers[n] /\ level'[n] = level[n] /\ entries'[n] = entries[n]
            /\ writer' = writer /\ Home[n] \in Processes
        BY <1>1, <2>1, <3>2, HomeType, Zenon DEF TypeInv
      <4>2. level[n] \in Int /\ cached_lock'[Home[n]] \in Int /\ cached_lock[Home[n]] \in Int
        BY <4>1, Table, SMTT(30) DEF TypeInv
      <4> QED
        BY <4>1, <4>2 DEF Counted
    <3> QED
      BY <3>1, <3>2, Zenon
  <2>3. OneWriter'
    BY <1>0, <1>1, <2>1 DEF TypeInv, OneWriter, Readers
  <2> QED
    BY <1>2, <2>1, <2>2, <2>3, Zenon DEF TypeInv
<1>4. CASE v = LCK_write
  <2>1. /\ writer' = [writer EXCEPT ![Home[o]] = o]
        /\ entry_count' = [entry_count EXCEPT ![Home[o]] = 1]
        /\ readers' = readers
    BY <1>0, <1>4 DEF Enter, TypeInv, LCK_read, LCK_write, LCK_PR, LCK_EX
  <2>2. writer' \in [Processes -> Owners \cup {NULL}] /\ entry_count' \in [Processes -> Nat]
    BY <1>0, <2>1, Zenon DEF TypeInv
  <2>3. Counted'
    <3> SUFFICES ASSUME NEW n \in Owners
                 PROVE  /\ readers'[n] = IF level'[n] = LCK_read THEN entries'[n] ELSE 0
                        /\ entries'[n] > 0 =>
                             level'[n] # LCK_none /\ cached_lock'[Home[n]] >= level'[n]
                        /\ entries'[n] > 0 /\ level'[n] = LCK_write => writer'[Home[n]] = n
      BY Zenon DEF Counted
    <3>1. CASE n = o
      BY <1>0, <1>1, <1>4, <2>1, <3>1
      DEF TypeInv, LCK_none, LCK_read, LCK_write, LCK_PR, LCK_EX
    <3>2. CASE n # o
      <4>1. /\ readers'[n] = readers[n] /\ level'[n] = level[n] /\ entries'[n] = entries[n]
            /\ Home[n] \in Processes
        BY <1>1, <2>1, <3>2, HomeType, Zenon DEF TypeInv
      <4>2. level[n] \in Int /\ cached_lock'[Home[n]] \in Int /\ cached_lock[Home[n]] \in Int
        BY <4>1, Table DEF TypeInv
      <4>3. entries[n] > 0 /\ level[n] = LCK_write => Home[n] # Home[o]
        BY ConstantsAssumption, Zenon DEF Counted
      <4> QED
        BY <1>0, <2>1, <4>1, <4>2, <4>3, SMTT(30) DEF Counted, TypeInv
    <3> QED
      BY <3>1, <3>2, Zenon
  <2>4. OneWriter'
    <3> SUFFICES ASSUME NEW q \in Processes
                 PROVE  /\ entry_count'[q] = IF writer'[q] = NULL THEN 0 ELSE 1
                        /\ writer'[q] # NULL =>
                             /\ Home[writer'[q]] = q
                             /\ level'[writer'[q]] = LCK_write /\ entries'[writer'[q]] = 1
                             /\ Readers(q) = {}
      BY <2>1, Zenon DEF OneWriter, Readers
    <3>1. CASE q = Home[o]
      BY <1>0, <1>1, <1>4, <2>1, <3>1, ConstantsAssumption, Zenon DEF TypeInv
    <3>2. CASE q # Home[o]
      BY <1>0, <1>1, <2>1, <3>2 DEF TypeInv, OneWriter
    <3> QED
      BY <3>1, <3>2, Zenon
  <2> QED
    BY <1>2, <2>1, <2>2, <2>3, <2>4, Zenon DEF TypeInv
<1> QED
  BY <1>3, <1>4, Zenon

LEMMA CachedStep ==
  ASSUME IInv, NEW o \in Owners, NEW v \in {LCK_read, LCK_write}, lock_cached(o, v)
  PROVE  IInv'
<1> USE DEF IInv, lock_cached, lmVars, MayAsk
<1>1. Home[o] \in Processes /\ entries[o] = 0 /\ pc[o] = "idle"
  BY HomeType, Zenon DEF TypeInv, Counted
<1>2. pc' = pc
  BY <1>1, Zenon DEF Enter, TypeInv
<1>3. /\ writer[Home[o]] = NULL /\ cached_lock[Home[o]] >= v
      /\ v = LCK_write => Readers(Home[o]) = {}
  BY <1>1 DEF FastPath, TypeInv, OneWriter, LCK_read, LCK_write, LCK_PR, LCK_EX
<1>4. \A q \in Processes : cached_lock[q] >= cached_lock[q]
  <2>1. \A q \in Processes : cached_lock[q] \in {0, 3, 6}
    BY Table, Zenon DEF TypeInv
  <2> QED
    BY <2>1
<1>5. /\ readers' \in [Owners -> Nat] /\ entries' \in [Owners -> Nat]
      /\ level' \in [Owners -> Levels]
      /\ writer' \in [Processes -> Owners \cup {NULL}]
      /\ entry_count' \in [Processes -> Nat]
      /\ Counted' /\ OneWriter'
  <2>1. cached_lock' = cached_lock
    OBVIOUS
  <2> QED
    BY <1>1, <1>3, <1>4, <2>1, EnterKeeps, Zenon DEF TypeInv
<1>6. TypeInv'
  BY <1>2, <1>5, Zenon DEF TypeInv
<1>7. Granted' /\ Queue' /\ Copies'
  BY <1>2 DEF Granted, Queue, Copies
<1>8. Calls'
  BY <1>1, <1>2, Zenon DEF TypeInv, Calls, Enter
<1> QED
  BY <1>5, <1>6, <1>7, <1>8, Zenon

(* lock(): the part before the lock manager is asked.                      *)
LEMMA FirstStep ==
  ASSUME IInv, NEW o \in Owners, NEW v \in {LCK_read, LCK_write}, lock_first(o, v)
  PROVE  IInv'
<1> DEFINE p == Home[o]
<1>0. p \in Processes /\ v \in Levels /\ LCK_none \in Levels /\ entries[o] = 0 /\ pc[o] = "idle"
  BY HomeType, Zenon DEF IInv, TypeInv, Counted, Levels, lock_first, MayAsk
<1>1. /\ \/ /\ Unused(p)
            /\ cached_lock' = [cached_lock EXCEPT ![p] = LCK_none]
            /\ object' = [object EXCEPT ![p] = "none"]
         \/ UNCHANGED <<cached_lock, object>>
      /\ UNCHANGED <<newLock, waiting, readers, writer, entry_count, entries>>
      /\ level' = [level EXCEPT ![o] = v] /\ pc' = [pc EXCEPT ![o] = "lock"]
  BY Zenon DEF lock_first, SetCached
<1> HIDE DEF p
<1> USE DEF IInv
<1>2. TypeInv'
  BY <1>0, <1>1, Zenon DEF TypeInv
<1>3. Calls'
  BY <1>0, <1>1, Zenon DEF TypeInv, Calls
<1>4. Queue'
  BY <1>0, <1>1 DEF TypeInv, Queue
<1>5. Granted'
  <2>1. CASE cached_lock' = [cached_lock EXCEPT ![p] = LCK_none]
    BY <1>0, <1>1, <2>1, Lower DEF TypeInv, Granted
  <2>2. CASE cached_lock' = cached_lock
    BY <1>1, <2>2, Zenon DEF Granted
  <2> QED
    BY <1>1, <2>1, <2>2, Zenon
<1>6. Copies'
  BY <1>0, <1>1, Zenon DEF TypeInv, Copies
<1>7. readers[o] = 0
  BY <1>0, Zenon DEF Counted
<1>8. OneWriter'
  BY <1>0, <1>1 DEF TypeInv, OneWriter, Readers
<1>9. Counted'
  <2>1. CASE Unused(p)
    <3>1. \A n \in Owners : Home[n] = p => entries[n] = 0
      BY <1>0, <2>1, UnusedProcess, Zenon
    <3> QED
      BY <1>0, <1>1, <1>7, <3>1, HomeType DEF TypeInv, Counted
  <2>2. CASE cached_lock' = cached_lock
    BY <1>0, <1>1, <1>7, <2>2 DEF TypeInv, Counted
  <2> QED
    BY <1>1, <2>1, <2>2, Zenon
<1> QED
  BY <1>2, <1>3, <1>4, <1>5, <1>6, <1>8, <1>9, Zenon

(* lock(): the request is queued, or taken back.                           *)
LEMMA QueueStep ==
  ASSUME IInv, NEW o \in Owners, LCK_lock(o)
  PROVE  IInv'
<1> USE DEF IInv, LCK_lock, countVars
<1>1. Len(waiting') = Len(waiting) + 1
  BY DEF TypeInv
<1>2. /\ \A i \in 1 .. Len(waiting) : waiting'[i] = waiting[i]
      /\ waiting'[Len(waiting) + 1] = o
  BY DEF TypeInv
<1>3. TypeInv'
  BY DEF TypeInv
<1>4. Calls'
  BY Zenon DEF TypeInv, Calls
<1>5. Queue'
  <2>1. \A i \in 1 .. Len(waiting) : waiting[i] # o
    BY Zenon DEF Queue
  <2>2. \A i \in 1 .. Len(waiting') : pc'[waiting'[i]] = "wait"
    BY <1>1, <1>2, <2>1 DEF TypeInv, Queue
  <2>3. \A i, j \in 1 .. Len(waiting') : waiting'[i] = waiting'[j] => i = j
    BY <1>1, <1>2, <2>1, SMTT(30) DEF TypeInv, Queue
  <2> QED
    BY <2>2, <2>3, Zenon DEF Queue
<1>6. Granted' /\ Counted' /\ OneWriter' /\ Copies'
  BY Zenon DEF Granted, Counted, OneWriter, Copies, Readers
<1> QED
  BY <1>3, <1>4, <1>5, <1>6, Zenon

LEMMA RefusedStep ==
  ASSUME IInv, NEW o \in Owners, LCK_lock_fails(o)
  PROVE  IInv'
<1> USE DEF IInv, countVars
<1>1. PICK k \in 1 .. Len(waiting) :
        /\ waiting[k] = o
        /\ waiting' = SubSeq(waiting, 1, k - 1) \o SubSeq(waiting, k + 1, Len(waiting))
  BY Zenon DEF LCK_lock_fails
<1>2. /\ waiting' \in Seq(Owners) /\ Len(waiting') = Len(waiting) - 1
      /\ \A i \in 1 .. Len(waiting) - 1 :
           waiting'[i] = IF i < k THEN waiting[i] ELSE waiting[i + 1]
  <2> DEFINE a == SubSeq(waiting, 1, k - 1)
             b == SubSeq(waiting, k + 1, Len(waiting))
  <2>1. /\ a \in Seq(Owners) /\ Len(a) = k - 1
        /\ \A i \in 1 .. k - 1 : a[i] = waiting[i]
    BY SMTT(30) DEF TypeInv
  <2>2. /\ b \in Seq(Owners) /\ Len(b) = Len(waiting) - k
        /\ \A i \in 1 .. Len(waiting) - k : b[i] = waiting[i + k]
    BY SMTT(30) DEF TypeInv
  <2>3. waiting' = a \o b
    BY <1>1, Zenon
  <2> HIDE DEF a, b
  <2>4. /\ waiting' \in Seq(Owners) /\ Len(waiting') = Len(a) + Len(b)
        /\ \A i \in 1 .. Len(a) + Len(b) :
             waiting'[i] = IF i <= Len(a) THEN a[i] ELSE b[i - Len(a)]
    BY <2>1, <2>2, <2>3, Concatenated, Zenon
  <2>5. Len(waiting) \in Nat
    BY DEF TypeInv
  <2>6. Len(waiting') = Len(waiting) - 1
    BY <2>1, <2>2, <2>4, <2>5
  <2>7. ASSUME NEW i \in 1 .. Len(waiting) - 1
        PROVE  waiting'[i] = IF i < k THEN waiting[i] ELSE waiting[i + 1]
    <3>1. i \in 1 .. Len(a) + Len(b)
      BY <2>4, <2>6, Zenon
    <3>2. CASE i < k
      BY <2>1, <2>4, <2>5, <3>1, <3>2
    <3>3. CASE ~(i < k)
      <4>1. i - Len(a) \in 1 .. Len(waiting) - k /\ i - Len(a) + k = i + 1 /\ ~(i <= Len(a))
        BY <2>1, <2>5, <3>3
      <4> QED
        BY <2>2, <2>4, <3>1, <3>3, <4>1, Zenon
    <3> QED
      BY <3>2, <3>3, Zenon
  <2> QED
    BY <2>4, <2>6, <2>7, Zenon
<1>3. TypeInv'
  BY <1>2, Zenon DEF TypeInv, LCK_lock_fails
<1>4. Calls'
  BY Zenon DEF TypeInv, Calls, LCK_lock_fails
<1>5. Queue'
  <2>1. \A i \in 1 .. Len(waiting) : i # k => waiting[i] # o
    BY <1>1, Zenon DEF Queue
  <2> DEFINE at(i) == IF i < k THEN i ELSE i + 1
  <2>0. Len(waiting) \in Nat /\ Len(waiting') = Len(waiting) - 1
    BY <1>2 DEF TypeInv
  <2>2. ASSUME NEW i \in 1 .. Len(waiting')
        PROVE  at(i) \in 1 .. Len(waiting) /\ at(i) # k /\ waiting'[i] = waiting[at(i)]
    BY <1>2, <2>0
  <2>3. \A i, j \in 1 .. Len(waiting') : at(i) = at(j) => i = j
    BY <2>0
  <2>4. ASSUME NEW i \in 1 .. Len(waiting')
        PROVE  pc'[waiting'[i]] = "wait"
    <3>1. at(i) \in 1 .. Len(waiting) /\ at(i) # k /\ waiting'[i] = waiting[at(i)]
      BY <2>2, Zenon
    <3> HIDE DEF at
    <3>2. waiting[at(i)] # o /\ waiting[at(i)] \in Owners /\ pc[waiting[at(i)]] = "wait"
      BY <2>1, <3>1, SMTT(30) DEF TypeInv, Queue
    <3> QED
      BY <3>1, <3>2, Zenon DEF TypeInv, LCK_lock_fails
  <2>5. \A i, j \in 1 .. Len(waiting') : waiting'[i] = waiting'[j] => i = j
    <3> HIDE DEF at
    <3> QED
      BY <2>2, <2>3, SMTT(20) DEF Queue
  <2> QED
    BY <2>4, <2>5, Zenon DEF Queue
<1>6. Granted' /\ Counted' /\ OneWriter' /\ Copies'
  BY Zenon DEF Granted, Counted, OneWriter, Copies, Readers, LCK_lock_fails
<1> QED
  BY <1>3, <1>4, <1>5, <1>6, Zenon

(* lock(): the part after the grant.                                       *)
LEMMA SecondStep ==
  ASSUME IInv, NEW o \in Owners, lock_second(o)
  PROVE  IInv'
<1> DEFINE p == Home[o]
           v == newLock[o]
<1>0. /\ p \in Processes /\ v = level[o] /\ v \in {LCK_read, LCK_write} /\ entries[o] = 0
      /\ pc[o] = "granted" /\ cached_lock[p] \in Levels /\ v \in Levels
  BY HomeType, Zenon DEF IInv, TypeInv, Calls, lock_second
<1>1. /\ Enter(o, v)
      /\ newLock' = [newLock EXCEPT ![o] = LCK_none]
      /\ cached_lock' = IF v > cached_lock[p] THEN [cached_lock EXCEPT ![p] = v] ELSE cached_lock
      /\ object' = [object EXCEPT ![p] = "current"]
      /\ waiting' = waiting
  BY Zenon DEF lock_second, fetch
<1>2. COMPATIBLE(v, cached_lock[p])
  BY <1>0, Zenon DEF IInv, Granted
<1>3. writer[p] = NULL /\ (v = LCK_write => Readers(p) = {})
  <2>1. cached_lock[p] = 0 \/ (cached_lock[p] = 3 /\ v = 3)
    BY <1>0, <1>2, Table DEF LCK_read, LCK_write, LCK_PR, LCK_EX
  <2>2. writer[p] = NULL
    <3> SUFFICES ASSUME writer[p] # NULL PROVE FALSE
      OBVIOUS
    <3>1. /\ writer[p] \in Owners /\ Home[writer[p]] = p
          /\ entries[writer[p]] = 1 /\ level[writer[p]] = LCK_write
      BY <1>0, SMTT(30) DEF IInv, TypeInv, OneWriter
    <3>2. cached_lock[p] >= 6
      BY <3>1 DEF IInv, Counted, LCK_write, LCK_EX
    <3> QED
      BY <2>1, <3>2
  <2>3. ASSUME v = LCK_write, NEW n \in Readers(p) PROVE FALSE
    <3>1. n \in Owners /\ Home[n] = p /\ readers[n] > 0
      BY Zenon DEF Readers
    <3>2. level[n] = LCK_read /\ entries[n] > 0
      BY <3>1 DEF IInv, TypeInv, Counted
    <3>3. cached_lock[p] >= 3
      BY <3>1, <3>2, Zenon DEF IInv, Counted, LCK_read, LCK_PR
    <3> QED
      BY <2>1, <2>3, <3>3 DEF LCK_write, LCK_EX
  <2> QED
    BY <2>2, <2>3, Zenon
<1>4. /\ cached_lock' \in [Processes -> Levels] /\ cached_lock'[p] >= v
      /\ cached_lock'[p] # LCK_none
      /\ \A q \in Processes : q # p => cached_lock'[q] = cached_lock[q]
  BY <1>0, <1>1, Table DEF IInv, TypeInv, LCK_none, LCK_read, LCK_write, LCK_PR, LCK_EX
<1>5. \A q \in Processes : cached_lock'[q] >= cached_lock[q]
  <2>1. \A q \in Processes : cached_lock[q] \in {0, 3, 6}
    BY Table, Zenon DEF IInv, TypeInv
  <2> QED
    BY <1>0, <1>1, <2>1, Table DEF IInv, TypeInv
<1> HIDE DEF p, v
<1>6. /\ readers' \in [Owners -> Nat] /\ entries' \in [Owners -> Nat]
      /\ level' \in [Owners -> Levels]
      /\ writer' \in [Processes -> Owners \cup {NULL}]
      /\ entry_count' \in [Processes -> Nat]
      /\ pc' \in [Owners -> {"idle", "lock", "wait", "granted"}]
      /\ Counted' /\ OneWriter'
  BY <1>0, <1>1, <1>3, <1>4, <1>5, EnterKeeps, Zenon DEF p
<1> USE DEF IInv
<1>7. TypeInv'
  BY <1>0, <1>1, <1>4, <1>6, Zenon DEF TypeInv, Levels
<1>8. Granted'
  <2>1. CASE v > cached_lock[p]
    <3>1. \A q \in Processes : COMPATIBLE(v, cached_lock[q]) /\ COMPATIBLE(cached_lock[q], v)
      BY <1>0, Lower, Zenon DEF v, TypeInv, Granted
    <3>2. \A n \in Owners : n # o => COMPATIBLE(newLock[n], v)
      BY <1>0, Lower, Zenon DEF v, TypeInv, Granted
    <3>3. cached_lock' = [cached_lock EXCEPT ![p] = v]
      BY <1>1, <2>1, Zenon
    <3> QED
      BY <1>0, <1>1, <3>1, <3>2, <3>3, Lower DEF TypeInv, Granted
  <2>2. CASE ~(v > cached_lock[p])
    BY <1>1, <2>2, Lower DEF TypeInv, Granted
  <2> QED
    BY <2>1, <2>2, Zenon
<1>9. Calls' /\ Queue'
  <2>1. level' = [level EXCEPT ![o] = v] /\ pc' = [pc EXCEPT ![o] = "idle"]
        /\ entries' = [entries EXCEPT ![o] = @ + 1]
    BY <1>1, Zenon DEF Enter
  <2>2. Calls'
    BY <1>0, <1>1, <2>1, Zenon DEF TypeInv, Calls
  <2>3. \A i \in 1 .. Len(waiting) : waiting[i] # o
    BY <1>0, Zenon DEF Queue
  <2>4. Queue'
    BY <1>1, <2>1, <2>3, SMTT(30) DEF TypeInv, Queue
  <2> QED
    BY <2>2, <2>4, Zenon
<1>10. Copies'
  BY <1>0, <1>1, <1>4, Zenon DEF TypeInv, Copies
<1> QED
  BY <1>6, <1>7, <1>8, <1>9, <1>10, Zenon

-----------------------------------------------------------------------------
(* lock(): fetch() fails after the grant.                                  *)
LEMMA FetchFailsStep ==
  ASSUME IInv, NEW o \in Owners, fetch_fails(o)
  PROVE  IInv'
<1> USE DEF IInv, fetch_fails
<1>1. TypeInv'
  <2>1. newLock' \in [Owners -> Levels]
    BY Zenon DEF TypeInv, Levels
  <2> QED
    BY <2>1, Zenon DEF TypeInv
<1>2. Granted'
  BY Lower, Zenon DEF TypeInv, Granted
<1>3. Calls'
  BY Zenon DEF TypeInv, Calls
<1>4. Queue'
  <2>1. \A i \in 1 .. Len(waiting) : waiting[i] # o /\ waiting[i] \in Owners
    BY DEF TypeInv, Queue
  <2>2. \A i \in 1 .. Len(waiting) : pc'[waiting[i]] = pc[waiting[i]]
    BY <2>1, Zenon DEF TypeInv
  <2> QED
    BY <2>2 DEF Queue
<1>5. Counted' /\ OneWriter' /\ Copies'
  BY Zenon DEF Counted, OneWriter, Copies, Readers
<1> QED
  BY <1>1, <1>2, <1>3, <1>4, <1>5, Zenon

(* Notices, and steps of anybody else.                                     *)
LEMMA NoticeStep ==
  ASSUME IInv,
         UNCHANGED <<cached_lock, newLock, waiting, level, readers, entries, writer,
                     entry_count, pc, object>>
  PROVE  IInv'
<1> USE DEF IInv
<1>1. TypeInv' /\ Granted'
  BY Zenon DEF TypeInv, Granted
<1>2. Calls' /\ Copies'
  BY Zenon DEF Calls, Copies
<1>3. Counted' /\ OneWriter'
  BY Zenon DEF Counted, OneWriter, Readers
<1>4. Queue'
  BY Zenon DEF Queue
<1> QED
  BY <1>1, <1>2, <1>3, <1>4, Zenon

(* blockingAstHandler() and tryReleaseLock().                              *)
LEMMA AstStep ==
  ASSUME IInv, NEW p \in Processes, blockingAstHandler(p)
  PROVE  IInv'
<1>1. CASE internal_blocking[p] = 0 /\ Unused(p)
  <2> DEFINE v == DowngradedLevel(p)
  <2>1. v \in Levels /\ v <= cached_lock[p]
    BY DowngradeLowers, Zenon DEF IInv
  <2>2. /\ cached_lock' = [cached_lock EXCEPT ![p] = v]
        /\ object' = IF v < LCK_read THEN [object EXCEPT ![p] = "none"] ELSE object
        /\ newLock' = newLock
    BY <1>1, Zenon DEF blockingAstHandler, SetCached
  <2> HIDE DEF v
  <2> QED
    BY <1>1, <2>1, <2>2, LowerCached, UnusedGivenUp, Zenon DEF blockingAstHandler, callVars
<1>2. CASE ~(internal_blocking[p] = 0 /\ Unused(p))
  BY <1>2, NoticeStep, Zenon DEF blockingAstHandler, callVars
<1> QED
  BY <1>1, <1>2, Zenon

LEMMA TryReleaseStep ==
  ASSUME IInv, NEW p \in Processes, tryReleaseLock(p)
  PROVE  IInv'
<1>1. 0 \in Levels /\ 0 <= cached_lock[p]
  <2>1. cached_lock[p] \in {0, 3, 6}
    BY Table, Zenon DEF IInv, TypeInv
  <2> QED
    BY <2>1, Table
<1>2. /\ cached_lock' = [cached_lock EXCEPT ![p] = 0]
      /\ object' = IF 0 < LCK_read THEN [object EXCEPT ![p] = "none"] ELSE object
      /\ newLock' = newLock /\ Unused(p)
  BY DEF tryReleaseLock, SetCached, LCK_none, LCK_read, LCK_PR
<1>3. /\ cached_lock' \in [Processes -> Levels]
      /\ object' \in [Processes -> {"none", "current", "stale"}]
      /\ \A q \in Processes : q # p => cached_lock'[q] = cached_lock[q]
      /\ Granted' /\ Copies'
  BY <1>1, <1>2, LowerCached, Zenon
<1>4. UNCHANGED <<newLock, level, readers, entries, writer, entry_count, pc, waiting>>
  BY Zenon DEF tryReleaseLock, callVars, countVars
<1> QED
  BY <1>2, <1>3, <1>4, UnusedGivenUp, Zenon

(* unlock() of a reader.                                                   *)
LEMMA UnlockReadStep ==
  ASSUME IInv, NEW o \in Owners, unlock_read(o)
  PROVE  IInv'
<1> DEFINE p == Home[o]
<1>0. /\ p \in Processes /\ level[o] = LCK_read /\ entries[o] = readers[o] /\ readers[o] > 0
      /\ pc[o] = "idle"
  BY HomeType, Zenon DEF IInv, TypeInv, Counted, unlock_read, Leave
<1>1. /\ entries' = [entries EXCEPT ![o] = @ - 1] /\ readers' = [readers EXCEPT ![o] = @ - 1]
      /\ UNCHANGED <<newLock, waiting, level, pc, writer, entry_count>>
  BY Zenon DEF unlock_read, Leave
<1>2. \/ Readers(p) \subseteq {o} /\ readers[o] = 1 /\ entry_count[p] = 0 /\ GiveUp(p)
      \/ UNCHANGED <<cached_lock, object>>
  BY Zenon DEF unlock_read
<1> HIDE DEF p
<1>3. /\ cached_lock' \in [Processes -> Levels]
      /\ object' \in [Processes -> {"none", "current", "stale"}]
      /\ \A q \in Processes : q # p => cached_lock'[q] = cached_lock[q]
      /\ Granted' /\ Copies'
  <2>1. CASE GiveUp(p)
    BY <1>0, <1>1, <2>1, GiveUpLowers, Zenon
  <2>2. CASE UNCHANGED <<cached_lock, object>>
    BY <1>1, <2>2, Zenon DEF IInv, TypeInv, Granted, Copies
  <2> QED
    BY <1>2, <2>1, <2>2, Zenon
<1> USE DEF IInv
<1>4. TypeInv'
  BY <1>0, <1>1, <1>3 DEF TypeInv
<1>5. Calls' /\ Queue'
  BY <1>0, <1>1, Zenon DEF TypeInv, Calls, Queue
<1>6. Counted'
  <2>1. CASE Readers(p) \subseteq {o} /\ readers[o] = 1 /\ entry_count[p] = 0
    <3>1. \A n \in Owners : Home[n] = p => entries'[n] = 0
      <4> SUFFICES ASSUME NEW n \in Owners, Home[n] = p PROVE entries'[n] = 0
        OBVIOUS
      <4>1. CASE n = o
        BY <1>0, <1>1, <2>1, <4>1 DEF TypeInv
      <4>2. CASE n # o
        <5>1. readers[n] = 0 /\ writer[p] = NULL /\ entries'[n] = entries[n]
          BY <1>0, <1>1, <2>1, <4>2 DEF TypeInv, OneWriter, Readers
        <5>2. level[n] = LCK_none \/ level[n] = LCK_read \/ level[n] = LCK_write
          BY Zenon DEF TypeInv, Levels
        <5> QED
          BY <5>1, <5>2, ConstantsAssumption DEF TypeInv, Counted
      <4> QED
        BY <4>1, <4>2, Zenon
    <3>2. \A n \in Owners : Home[n] # p => cached_lock'[Home[n]] = cached_lock[Home[n]]
      BY <1>3, HomeType, Zenon
    <3> QED
      BY <1>0, <1>1, <3>1, <3>2 DEF TypeInv, Counted
  <2>2. CASE UNCHANGED <<cached_lock, object>>
    BY <1>0, <1>1, <2>2, Zenon DEF TypeInv, Counted
  <2> QED
    BY <1>2, <2>1, <2>2, Zenon
<1>7. OneWriter'
  <2> SUFFICES ASSUME NEW q \in Processes PROVE OneWriter!(q)'
    BY Zenon DEF OneWriter
  <2>1. \A n \in Owners : readers'[n] > 0 => readers[n] > 0
    <3>1. readers \in [Owners -> Nat]
      BY Zenon DEF TypeInv
    <3> QED
      BY <1>1, <3>1
  <2>2. Readers(q)' \subseteq Readers(q)
    BY <2>1, Zenon DEF Readers
  <2>3. writer[q] # NULL => writer[q] # o /\ entries'[writer[q]] = entries[writer[q]]
    BY <1>0, <1>1 DEF OneWriter, LCK_read, LCK_write, LCK_PR, LCK_EX
  <2> QED
    BY <1>1, <2>2, <2>3, Zenon DEF OneWriter
<1> QED
  BY <1>3, <1>4, <1>5, <1>6, <1>7, Zenon

(* unlock() of the writer, the only user of its process.                   *)
LEMMA UnlockWriteStep ==
  ASSUME IInv, NEW o \in Owners, unlock_write(o)
  PROVE  IInv'
<1> DEFINE p == Home[o]
<1>0. /\ p \in Processes /\ level[o] = LCK_write /\ pc[o] = "idle" /\ entries[o] > 0
      /\ writer[p] = o /\ cached_lock[p] >= LCK_write
  <2>1. level[o] = LCK_write /\ pc[o] = "idle" /\ entries[o] > 0
    BY Zenon DEF unlock_write, Leave
  <2> QED
    BY <2>1, HomeType, Zenon DEF IInv, Counted
<1>1. /\ entries' = [entries EXCEPT ![o] = @ - 1] /\ writer' = [writer EXCEPT ![p] = NULL]
      /\ entry_count' = [entry_count EXCEPT ![p] = 0]
      /\ UNCHANGED <<newLock, waiting, level, pc, readers>>
  BY Zenon DEF unlock_write, Leave
<1>2. \/ cached_lock' = [cached_lock EXCEPT ![p] = LCK_read] /\ UNCHANGED object
      \/ GiveUp(p)
      \/ UNCHANGED <<cached_lock, object>>
  BY Zenon DEF unlock_write, SetCached
<1> HIDE DEF p
<1>3. /\ cached_lock' \in [Processes -> Levels]
      /\ object' \in [Processes -> {"none", "current", "stale"}]
      /\ \A q \in Processes : q # p => cached_lock'[q] = cached_lock[q]
      /\ Granted' /\ Copies'
  <2>1. CASE cached_lock' = [cached_lock EXCEPT ![p] = LCK_read] /\ UNCHANGED object
    <3>1. LCK_read \in Levels /\ LCK_read <= cached_lock[p]
      <4>1. cached_lock[p] \in {0, 3, 6}
        BY <1>0, Table, Zenon DEF IInv, TypeInv
      <4> QED
        BY <1>0, <4>1 DEF Levels, LCK_read, LCK_write, LCK_PR, LCK_EX
    <3>2. object' = IF LCK_read < LCK_read THEN [object EXCEPT ![p] = "none"] ELSE object
      BY <2>1 DEF LCK_read, LCK_PR
    <3> QED
      BY <1>0, <1>1, <2>1, <3>1, <3>2, LowerCached, Zenon
  <2>2. CASE GiveUp(p)
    BY <1>0, <1>1, <2>2, GiveUpLowers, Zenon
  <2>3. CASE UNCHANGED <<cached_lock, object>>
    BY <1>1, <2>3, Zenon DEF IInv, TypeInv, Granted, Copies
  <2> QED
    BY <1>2, <2>1, <2>2, <2>3, Zenon
<1> USE DEF IInv
<1>4. entries[o] = 1 /\ Readers(p) = {} /\ o # NULL
  BY <1>0, ConstantsAssumption, Zenon DEF OneWriter
<1>5. \A n \in Owners : Home[n] = p => entries'[n] = 0
  <2> SUFFICES ASSUME NEW n \in Owners, Home[n] = p PROVE entries'[n] = 0
    OBVIOUS
  <2>1. CASE n = o
    BY <1>1, <1>4, <2>1 DEF TypeInv
  <2>2. CASE n # o
    <3>1. readers[n] = 0 /\ entries'[n] = entries[n]
      BY <1>1, <1>4, <2>2 DEF TypeInv, Readers
    <3>2. level[n] = LCK_none \/ level[n] = LCK_read \/ level[n] = LCK_write
      BY Zenon DEF TypeInv, Levels
    <3> QED
      BY <1>0, <2>2, <3>1, <3>2 DEF TypeInv, Counted
  <2> QED
    BY <2>1, <2>2, Zenon
<1>6. TypeInv'
  <2>1. entries' \in [Owners -> Nat]
    BY <1>1, <1>4 DEF TypeInv
  <2>2. writer' \in [Processes -> Owners \cup {NULL}] /\ entry_count' \in [Processes -> Nat]
    BY <1>1, Zenon DEF TypeInv
  <2> QED
    BY <1>1, <1>3, <2>1, <2>2, Zenon DEF TypeInv
<1>7. Calls' /\ Queue'
  <2>1. Calls'
    <3>1. entries \in [Owners -> Nat]
      BY Zenon DEF TypeInv
    <3> QED
      BY <1>0, <1>1, <3>1, Zenon DEF Calls
  <2>2. Queue'
    BY <1>1, ZenonT(30) DEF Queue
  <2> QED
    BY <2>1, <2>2, Zenon
<1>8. Counted'
  <2>1. \A n \in Owners : Home[n] # p =>
          /\ cached_lock'[Home[n]] = cached_lock[Home[n]]
          /\ writer'[Home[n]] = writer[Home[n]] /\ entries'[n] = entries[n]
    BY <1>1, <1>3, HomeType, Zenon DEF TypeInv, p
  <2>2. \A n \in Owners : Home[n] = p =>
          readers[n] = 0
    BY <1>4 DEF TypeInv, Readers
  <2> QED
    BY <1>1, <1>5, <2>1, <2>2 DEF Counted
<1>9. OneWriter'
  <2> SUFFICES ASSUME NEW q \in Processes PROVE OneWriter!(q)'
    BY Zenon DEF OneWriter
  <2>1. CASE q = p
    BY <1>0, <1>1, <2>1, Zenon DEF TypeInv
  <2>2. CASE q # p
    <3>1. writer'[q] = writer[q] /\ entry_count'[q] = entry_count[q] /\ Readers(q)' = Readers(q)
      BY <1>1, <2>2, Zenon DEF TypeInv, Readers
    <3>2. writer[q] # NULL => writer[q] # o /\ writer[q] \in Owners
      BY <2>2 DEF TypeInv, OneWriter, p
    <3> QED
      BY <1>1, <3>1, <3>2, Zenon DEF TypeInv, OneWriter
  <2> QED
    BY <2>1, <2>2, Zenon
<1> QED
  BY <1>3, <1>6, <1>7, <1>8, <1>9, Zenon

(* changeLockOwner(): the new owner is counted instead of the old one.     *)
LEMMA HandOverReadStep ==
  ASSUME IInv, NEW o \in Owners, NEW new \in Owners, changeLockOwner_read(o, new)
  PROVE  IInv'
<1>0. /\ o # new /\ Home[o] = Home[new] /\ pc[o] = "idle" /\ pc[new] = "idle"
      /\ readers[o] > 0 /\ (entries[new] > 0 => level[new] = LCK_read)
      /\ readers' = [readers EXCEPT ![o] = @ - 1, ![new] = @ + 1]
      /\ entries' = [entries EXCEPT ![o] = @ - 1, ![new] = @ + 1]
      /\ level' = [level EXCEPT ![new] = LCK_read]
      /\ UNCHANGED <<cached_lock, newLock, waiting, writer, entry_count, pc, object>>
  BY Zenon DEF changeLockOwner_read, lmVars
<1> USE DEF IInv
<1>1. /\ level[o] = LCK_read /\ entries[o] = readers[o] /\ readers[new] = entries[new]
      /\ cached_lock[Home[o]] >= LCK_read
  BY <1>0 DEF TypeInv, Counted
<1>t. readers \in [Owners -> Nat] /\ entries \in [Owners -> Nat] /\ level \in [Owners -> Levels]
  BY Zenon DEF TypeInv
<1>2. TypeInv'
  <2>1. readers' \in [Owners -> Nat] /\ entries' \in [Owners -> Nat]
    <3>1. readers \in [Owners -> Nat] /\ entries \in [Owners -> Nat]
      BY Zenon DEF TypeInv
    <3>2. /\ readers[o] - 1 \in Nat /\ readers[new] + 1 \in Nat
          /\ entries[o] - 1 \in Nat /\ entries[new] + 1 \in Nat
      BY <1>0, <1>1, <3>1
    <3> QED
      BY <1>0, <3>1, <3>2, Zenon
  <2>2. level' \in [Owners -> Levels]
    BY <1>0, Zenon DEF TypeInv, Levels
  <2> QED
    BY <1>0, <2>1, <2>2, Zenon DEF TypeInv
<1>3. Granted' /\ Copies'
  BY <1>0, Zenon DEF Granted, Copies
<1>4. Calls' /\ Queue'
  BY <1>0, Zenon DEF TypeInv, Calls, Queue
<1>5. Counted'
  <2> SUFFICES ASSUME NEW n \in Owners PROVE Counted!(n)'
    BY Zenon DEF Counted
  <2>1. CASE n = o
    BY <1>t, <1>0, <1>1, <2>1, Zenon DEF Counted, LCK_none, LCK_read, LCK_write, LCK_PR, LCK_EX
  <2>2. CASE n = new
    BY <1>t, <1>0, <1>1, <2>2 DEF LCK_none, LCK_read, LCK_write, LCK_PR, LCK_EX
  <2>3. CASE n # o /\ n # new
    <3>1. /\ readers'[n] = readers[n] /\ entries'[n] = entries[n] /\ level'[n] = level[n]
          /\ UNCHANGED <<cached_lock, writer>>
      BY <1>t, <1>0, <2>3, Zenon
    <3> QED
      BY <3>1, Zenon DEF Counted
  <2> QED
    BY <2>1, <2>2, <2>3, Zenon
<1>6. OneWriter'
  <2> SUFFICES ASSUME NEW q \in Processes PROVE OneWriter!(q)'
    BY Zenon DEF OneWriter
  <2>1. CASE writer[q] = NULL
    BY <1>0, <2>1, Zenon DEF OneWriter
  <2>2. CASE writer[q] # NULL
    <3>1. q # Home[o] /\ Readers(q) =
            {} /\ writer[q] # o /\ writer[q] # new /\ writer[q] \in Owners
      BY <1>0, <2>2, SMTT(30) DEF TypeInv, OneWriter, Readers
    <3>2. \A n \in Owners : Home[n] = q => readers'[n] = readers[n]
      BY <1>t, <1>0, <3>1, Zenon
    <3>3. Readers(q)' = {}
      BY <3>1, <3>2, Zenon DEF Readers
    <3>4. /\ level'[writer[q]] = level[writer[q]] /\ entries'[writer[q]] = entries[writer[q]]
          /\ UNCHANGED <<writer, entry_count>>
      BY <1>t, <1>0, <3>1, Zenon
    <3> QED
      BY <2>2, <3>3, <3>4, Zenon DEF OneWriter
  <2> QED
    BY <2>1, <2>2, Zenon
<1> QED
  BY <1>2, <1>3, <1>4, <1>5, <1>6, Zenon

LEMMA HandOverWriteStep ==
  ASSUME IInv, NEW o \in Owners, NEW new \in Owners, changeLockOwner_write(o, new)
  PROVE  IInv'
<1> DEFINE p == Home[o]
<1>0. /\ o # new /\ p = Home[new] /\ pc[o] = "idle" /\ pc[new] = "idle" /\ p \in Processes
      /\ writer[p] = o /\ entries[new] = 0
      /\ writer' = [writer EXCEPT ![p] = new]
      /\ entries' = [entries EXCEPT ![o] = 0, ![new] = 1]
      /\ level' = [level EXCEPT ![new] = LCK_write]
      /\ UNCHANGED <<cached_lock, newLock, waiting, readers, entry_count, pc, object>>
  BY HomeType, Zenon DEF changeLockOwner_write, lmVars
<1> HIDE DEF p
<1> USE DEF IInv
<1>1. /\ level[o] = LCK_write /\ entries[o] = 1 /\ Readers(p) = {} /\ entry_count[p] = 1
      /\ readers[o] = 0 /\ readers[new] = 0 /\ cached_lock[p] >= LCK_write
      /\ o # NULL /\ new # NULL
  <2>1. /\ level[o] = LCK_write /\ entries[o] = 1 /\ Readers(p) = {} /\ entry_count[p] = 1
        /\ o # NULL /\ new # NULL
    BY <1>0, ConstantsAssumption, Zenon DEF OneWriter
  <2> QED
    BY <1>0, <2>1 DEF TypeInv, Counted, Readers, p
<1>2. TypeInv'
  BY <1>0, Zenon DEF TypeInv, Levels
<1>3. Granted' /\ Copies'
  BY <1>0, Zenon DEF Granted, Copies
<1>4. Calls' /\ Queue'
  BY <1>0 DEF TypeInv, Calls, Queue
<1>5. Counted'
  <2> SUFFICES ASSUME NEW n \in Owners PROVE Counted!(n)'
    BY Zenon DEF Counted
  <2>1. CASE n = o
    BY <1>0, <1>1, <2>1 DEF TypeInv, Counted, LCK_read, LCK_write, LCK_PR, LCK_EX
  <2>2. CASE n = new
    BY <1>0, <1>1, <2>2 DEF TypeInv, p, LCK_none, LCK_read, LCK_write, LCK_PR, LCK_EX
  <2>3. CASE n # o /\ n # new
    <3>1. entries[n] > 0 /\ level[n] = LCK_write => Home[n] # p
      BY <1>0, <2>3, Zenon DEF Counted, p
    <3> QED
      <4>1. entries'[n] = entries[n] /\ level'[n] = level[n] /\ UNCHANGED <<readers, cached_lock>>
        BY <1>0, <2>3, Zenon DEF TypeInv
      <4>2. Home[n] # p => writer'[Home[n]] = writer[Home[n]]
        BY <1>0, HomeType, Zenon DEF TypeInv
      <4> QED
        BY <3>1, <4>1, <4>2, Zenon DEF Counted
  <2> QED
    BY <2>1, <2>2, <2>3, Zenon
<1>6. OneWriter'
  <2> SUFFICES ASSUME NEW q \in Processes PROVE OneWriter!(q)'
    BY Zenon DEF OneWriter
  <2>0. Readers(q)' = Readers(q)
    BY <1>0, Zenon DEF Readers
  <2>1. CASE q = p
    BY <1>0, <1>1, <2>0, <2>1, Zenon DEF TypeInv
  <2>2. CASE q # p
    <3>1. writer[q] # NULL => writer[q] # o /\ writer[q] # new /\ writer[q] \in Owners
      BY <1>0, <2>2 DEF TypeInv, OneWriter, p
    <3> QED
      BY <1>0, <2>0, <2>2, <3>1 DEF TypeInv, OneWriter
  <2> QED
    BY <2>1, <2>2, Zenon
<1> QED
  BY <1>2, <1>3, <1>4, <1>5, <1>6, Zenon

(* A writer finds no copy but its own: its lock excludes all others.       *)
LEMMA WriterAlone ==
  ASSUME IInv, NEW o \in Owners, entries[o] > 0, level[o] = LCK_write
  PROVE  \A q \in Processes : q # Home[o] => cached_lock[q] = LCK_none /\ object[q] = "none"
<1>1. cached_lock[Home[o]] = 6 /\ Home[o] \in Processes
  <2>1. cached_lock[Home[o]] \in {0, 3, 6} /\ Home[o] \in Processes
    BY HomeType, Table, Zenon DEF IInv, TypeInv
  <2> QED
    BY <2>1 DEF IInv, Counted, LCK_write, LCK_EX
<1>2. \A q \in Processes : q # Home[o] => cached_lock[q] = 0
  <2> TAKE q \in Processes
  <2> HAVE q # Home[o]
  <2>1. COMPATIBLE(cached_lock[Home[o]], cached_lock[q])
    BY <1>1, Zenon DEF IInv, Granted
  <2>2. cached_lock[Home[o]] \in Levels /\ cached_lock[q] \in Levels
    BY <1>1, Zenon DEF IInv, TypeInv
  <2> QED
    BY <1>1, <2>1, <2>2, Table
<1> QED
  BY <1>2, Zenon DEF IInv, Copies, LCK_none

LEMMA WriteStep ==
  ASSUME IInv, NEW o \in Owners, Write(o)
  PROVE  IInv' /\ UNCHANGED <<entries, level, object>>
<1>1. object' = object
  <2>1. \A q \in Processes : q # Home[o] => object[q] = "none"
    BY WriterAlone, Zenon DEF Write
  <2>2. object = [q \in Processes |-> object[q]]
    BY Zenon DEF IInv, TypeInv
  <2> QED
    BY <2>1, <2>2, Zenon DEF Write
<1>2. UNCHANGED <<cached_lock, newLock, waiting, level, readers, entries, writer, entry_count,
        pc>>
  BY Zenon DEF Write, lmVars, countVars, callVars
<1> QED
  BY <1>1, <1>2, NoticeStep, Zenon

LEMMA InvariantStep == IInv /\ [Next]_vars => IInv'
<1> SUFFICES ASSUME IInv, [Next]_vars PROVE IInv'
  OBVIOUS
<1>1. CASE lm_grant
  BY <1>1, GrantStep, Zenon
<1>2. ASSUME NEW o \in Owners, Call(o) PROVE IInv'
  <2>1. CASE lock_recursion(o)
    BY <2>1, RecursionStep, Zenon
  <2>2. ASSUME NEW v \in {LCK_read, LCK_write}, lock_cached(o, v) PROVE IInv'
    BY <2>2, CachedStep, Zenon
  <2>3. ASSUME NEW v \in {LCK_read, LCK_write}, lock_first(o, v) PROVE IInv'
    BY <2>3, FirstStep, Zenon
  <2>4. CASE LCK_lock(o)
    BY <2>4, QueueStep, Zenon
  <2>5. CASE LCK_lock_fails(o)
    BY <2>5, RefusedStep, Zenon
  <2>6. CASE lock_second(o)
    BY <2>6, SecondStep, Zenon
  <2>7. CASE fetch_fails(o)
    BY <2>7, FetchFailsStep, Zenon
  <2>8. CASE unlock_read(o)
    BY <2>8, UnlockReadStep, Zenon
  <2>9. CASE unlock_write(o)
    BY <2>9, UnlockWriteStep, Zenon
  <2>10. ASSUME NEW new \in Owners, changeLockOwner_read(o, new) PROVE IInv'
    BY <2>10, HandOverReadStep, Zenon
  <2>11. ASSUME NEW new \in Owners, changeLockOwner_write(o, new) PROVE IInv'
    BY <2>11, HandOverWriteStep, Zenon
  <2>12. CASE Write(o)
    BY <2>12, WriteStep, Zenon
  <2> QED
    BY <1>2, <2>1, <2>2, <2>3, <2>4, <2>5, <2>6, <2>7, <2>8, <2>9, <2>10, <2>11, <2>12, Zenon DEF
       Call
<1>3. ASSUME NEW o \in Owners, lm_post(o) PROVE IInv'
  BY <1>3, NoticeStep, Zenon DEF lm_post, countVars, callVars
<1>4. ASSUME NEW h \in Processes \cup Owners, lm_ast(h) PROVE IInv'
  BY <1>4, NoticeStep, Zenon DEF lm_ast, countVars, callVars
<1>5. ASSUME NEW p \in Processes, blockingAstHandler(p) \/ tryReleaseLock(p) PROVE IInv'
  BY <1>5, AstStep, TryReleaseStep, Zenon
<1>6. CASE UNCHANGED vars
  BY <1>6, NoticeStep, Zenon DEF vars, lmVars, countVars, callVars
<1> QED
  BY <1>1, <1>2, <1>3, <1>4, <1>5, <1>6, Zenon DEF Next

(* The counters, the cached lock and the copy of the object agree in every *)
(* reachable state of GlobalRWLock.                                        *)
THEOREM Invariance == Spec => []IInv
BY InitIInv, InvariantStep, PTL DEF Spec

(* A writer excludes all users, of its own process and of others.          *)
LEMMA WriterExcludes ==
  ASSUME IInv, NEW o \in Owners, NEW n \in Owners, o # n,
         entries[o] > 0, level[o] = LCK_write
  PROVE  entries[n] = 0
<1>1. level[n] \in {LCK_none, LCK_read, LCK_write} /\ entries[n] \in Nat
  BY Zenon DEF IInv, TypeInv, Levels
<1>2. CASE Home[n] = Home[o]
  <2>1. writer[Home[o]] = o /\ o # NULL /\ Home[o] \in Processes
    BY HomeType, ConstantsAssumption, Zenon DEF IInv, Counted
  <2>2. readers[n] = 0
    BY <1>2, <2>1 DEF IInv, TypeInv, OneWriter, Readers
  <2> QED
    BY <1>1, <1>2, <2>1, <2>2 DEF IInv, Counted
<1>3. CASE Home[n] # Home[o]
  <2>1. cached_lock[Home[n]] = 0
    BY <1>3, WriterAlone, HomeType, Zenon DEF LCK_none
  <2>2. level[n] \in {0, 3, 6}
    BY Table, Zenon DEF IInv, TypeInv
  <2> QED
    BY <1>1, <2>1, <2>2 DEF IInv, Counted, LCK_none
<1> QED
  BY <1>2, <1>3, Zenon

LEMMA InvariantExcludes == IInv => Exclusion /\ ObjectIsCurrent
<1>1. IInv => Exclusion
  BY WriterExcludes DEF Exclusion, Uses, IInv, TypeInv
<1>2. IInv => ObjectIsCurrent
  <2> SUFFICES ASSUME IInv, NEW o \in Owners, entries[o] > 0 PROVE object[Home[o]] = "current"
    BY Zenon DEF ObjectIsCurrent
  <2>1. Home[o] \in Processes /\ level[o] # LCK_none /\ cached_lock[Home[o]] >= level[o]
    BY HomeType, Zenon DEF IInv, Counted
  <2>2. cached_lock[Home[o]] \in {0, 3, 6} /\ level[o] \in {0, 3, 6}
    BY <2>1, Table, Zenon DEF IInv, TypeInv
  <2>3. cached_lock[Home[o]] # LCK_none
    BY <2>1, <2>2 DEF LCK_none
  <2> QED
    BY <2>1, <2>3, Zenon DEF IInv, Copies
<1> QED
  BY <1>1, <1>2, Zenon

(* What unlock() asserts: the physical lock covers its users.              *)
THEOREM Covered == Spec => []LockCoversUsers
<1>1. IInv => LockCoversUsers
  BY Zenon DEF IInv, Counted, LockCoversUsers
<1> QED
  BY <1>1, Invariance, PTL

(* Whoever has locked finds the object as the last writer left it: fetch() *)
(* ran in this process after every write of another one.                   *)
THEOREM CopiesAreCurrent == Spec => []ObjectIsCurrent
BY InvariantExcludes, Invariance, PTL

(* Readers and writers exclude each other over all processes.              *)
THEOREM MutualExclusion == Spec => []Exclusion
BY InvariantExcludes, Invariance, PTL

-----------------------------------------------------------------------------
(* The refinement.  What a step does to the abstract lock is what it does  *)
(* to the use each owner has of it, and to the set of fresh copies; that   *)
(* lock() may take effect is read off the invariant in the state it        *)
(* returns in.                                                             *)
Use(o) == IF entries[o] > 0 THEN level[o] ELSE LCK_none
Fresh == {p \in Processes : object[p] = "current"}

LEMMA UseType ==
  ASSUME IInv, NEW o \in Owners
  PROVE  Use(o) = LCK_none <=> entries[o] = 0
BY DEF IInv, TypeInv, Counted, Use

(* A writer has the only copy.                                             *)
LEMMA WriterHasCopy ==
  IInv => \A o \in Owners : Uses(o, LCK_write) => Fresh = {Home[o]}
<1> SUFFICES ASSUME IInv, NEW o \in Owners, entries[o] > 0, level[o] = LCK_write
             PROVE  Fresh = {Home[o]}
  BY Zenon DEF Uses
<1>1. object[Home[o]] = "current" /\ Home[o] \in Processes
  BY InvariantExcludes, HomeType, Zenon DEF ObjectIsCurrent
<1>2. \A q \in Processes : q # Home[o] => object[q] = "none"
  BY WriterAlone, Zenon
<1> QED
  BY <1>1, <1>2, Zenon DEF Fresh

LEMMA NextInvariant ==
  IInv' => /\ Exclusion' /\ ObjectIsCurrent'
           /\ (\A o \in Owners : Uses(o, LCK_write) => Fresh = {Home[o]})'
BY InvariantExcludes, WriterHasCopy, PTL

(* lock() returns: that it may is seen from the state it returns in.       *)
LEMMA LockRefines ==
  ASSUME IInv, IInv', NEW o \in Owners, NEW v \in {LCK_read, LCK_write},
         Use(o) = LCK_none, Use(o)' = v,
         \A n \in Owners : n # o => Use(n)' = Use(n),
         \A q \in Processes : q # Home[o] => object'[q] = object[q]
  PROVE  Abstract!Lock(o, v)
<1>1. /\ LCK_none # LCK_read /\ LCK_none # LCK_write /\ LCK_read # LCK_write
      /\ v = LCK_read \/ v = LCK_write
  BY DEF LCK_none, LCK_read, LCK_write, LCK_PR, LCK_EX
<1>2. entries'[o] > 0 /\ level'[o] = v
  BY <1>1, Zenon DEF Use
<1>3. \A n \in Owners : IF v = LCK_write THEN Use(n) = LCK_none ELSE Use(n) # LCK_write
  <2> SUFFICES ASSUME NEW n \in Owners, n # o
               PROVE  IF v = LCK_write THEN Use(n)' = LCK_none ELSE Use(n)' # LCK_write
    BY <1>1, Zenon
  <2>1. CASE v = LCK_write
    <3>1. ~Uses(n, LCK_write)' /\ ~Uses(n, LCK_read)'
      BY <1>2, <2>1, NextInvariant, Zenon DEF Exclusion, Uses
    <3>2. level'[n] \in {LCK_none, LCK_read, LCK_write}
      BY Zenon DEF IInv, TypeInv, Levels
    <3> QED
      BY <2>1, <3>1, <3>2, Zenon DEF Use, Uses
  <2>2. CASE v = LCK_read
    <3>1. ~Uses(n, LCK_write)'
      BY <1>2, <2>2, NextInvariant, Zenon DEF Exclusion, Uses
    <3> QED
      BY <1>1, <2>2, <3>1, Zenon DEF Use, Uses
  <2> QED
    BY <1>1, <2>1, <2>2, Zenon
<1>4. [n \in Owners |-> Use(n)'] = [[n \in Owners |-> Use(n)] EXCEPT ![o] = v]
  OBVIOUS
<1>5. Fresh' = IF v = LCK_write THEN {Home[o]} ELSE Fresh \cup {Home[o]}
  <2>1. CASE v = LCK_write
    BY <1>2, <2>1, NextInvariant, Zenon DEF Uses
  <2>2. CASE v # LCK_write
    <3>1. object'[Home[o]] = "current" /\ Home[o] \in Processes
      BY <1>2, NextInvariant, HomeType, Zenon DEF ObjectIsCurrent
    <3> QED
      BY <2>2, <3>1, Zenon DEF Fresh
  <2> QED
    BY <2>1, <2>2, Zenon
<1> QED
  BY <1>3, <1>4, <1>5, Zenon DEF Abstract!Lock, Abstract!LCK_none, Abstract!LCK_write,
     Abstract!LCK_EX,
     LCK_none, LCK_write, LCK_EX, Use, Fresh

LEMMA UnlockRefines ==
  ASSUME NEW o \in Owners, Use(o) # LCK_none, Use(o)' = LCK_none,
         \A n \in Owners : n # o => Use(n)' = Use(n),
         \/ object' = object
         \/ /\ object' = [object EXCEPT ![Home[o]] = "none"] /\ DOMAIN object = Processes
            /\ \A n \in Owners : Home[n] = Home[o] /\ n # o => Use(n) = LCK_none
  PROVE  Abstract!Unlock(o)
<1>1. [n \in Owners |-> Use(n)'] = [[n \in Owners |-> Use(n)] EXCEPT ![o] = LCK_none]
  OBVIOUS
<1>2. \/ Fresh' = Fresh
      \/ /\ {n \in Owners : Home[n] = Home[o] /\ Use(n) # LCK_none} = {o}
         /\ Fresh' = Fresh \ {Home[o]}
  <2>1. CASE object' = object
    BY <2>1, Zenon DEF Fresh
  <2>2. CASE object' # object
    <3>1. Fresh' = Fresh \ {Home[o]}
      BY <2>2, Zenon DEF Fresh
    <3> QED
      BY <2>2, <3>1, Zenon
  <2> QED
    BY <2>1, <2>2, Zenon
<1> QED
  BY <1>1, <1>2, Zenon DEF Abstract!Unlock, Abstract!Users, Abstract!LCK_none, LCK_none, Use,
     Fresh

LEMMA DropRefines ==
  ASSUME NEW p \in Processes, DOMAIN object = Processes,
         \A n \in Owners : Use(n)' = Use(n) /\ (Home[n] = p => Use(n) = LCK_none),
         object' = [object EXCEPT ![p] = "none"]
  PROVE  Abstract!Drop(p)
<1>1. [n \in Owners |-> Use(n)'] = [n \in Owners |-> Use(n)]
  OBVIOUS
<1>2. Fresh' = Fresh \ {p}
  BY Zenon DEF Fresh
<1>3. {n \in Owners : Home[n] = p /\ Use(n) # LCK_none} = {}
  OBVIOUS
<1> QED
  BY <1>1, <1>2, <1>3, Zenon DEF Abstract!Drop, Abstract!Users, Abstract!LCK_none, LCK_none, Use,
     Fresh

LEMMA HandOverRefines ==
  ASSUME NEW o \in Owners, NEW new \in Owners, o # new, Home[o] = Home[new],
         Use(o) # LCK_none, Use(new) = LCK_none, Use(o)' = LCK_none, Use(new)' = Use(o),
         \A n \in Owners : n # o /\ n # new => Use(n)' = Use(n),
         object' = object
  PROVE  Abstract!HandOver(o, new)
<1>1. [n \in Owners |-> Use(n)'] = [[n \in Owners |-> Use(n)] EXCEPT ![o] = LCK_none, ![new] =
        Use(o)]
  OBVIOUS
<1>2. Fresh' = Fresh
  BY Zenon DEF Fresh
<1> QED
  BY <1>1, <1>2, Zenon DEF Abstract!HandOver, Abstract!LCK_none, LCK_none, Use, Fresh

(* Most steps change neither.                                              *)
AbstractVars == <<[o \in Owners |-> Use(o)], Fresh>>

LEMMA QuietRefines ==
  ASSUME \A n \in Owners : Use(n)' = Use(n), object' = object
  PROVE  UNCHANGED AbstractVars
<1>1. [n \in Owners |-> Use(n)'] = [n \in Owners |-> Use(n)]
  OBVIOUS
<1> QED
  BY <1>1, Zenon DEF AbstractVars, Fresh

AbstractStep == Abstract!Next \/ UNCHANGED AbstractVars

(* A release or downgrade without users drops the copy, or nothing.        *)
LEMMA ReleaseRefines ==
  ASSUME IInv, NEW p \in Processes, Unused(p),
         UNCHANGED entries, \A n \in Owners : entries[n] > 0 => level'[n] = level[n],
         object' = object \/ object' = [object EXCEPT ![p] = "none"]
  PROVE  AbstractStep
<1>1. \A n \in Owners : Use(n)' = Use(n)
  BY Zenon DEF Use
<1>2. \A n \in Owners : Home[n] = p => Use(n) = LCK_none
  BY UnusedProcess, UseType, Zenon
<1>3. DOMAIN object = Processes
  BY Zenon DEF IInv, TypeInv
<1>4. CASE object' = object
  BY <1>1, <1>4, QuietRefines, Zenon DEF AbstractStep
<1>5. CASE object' = [object EXCEPT ![p] = "none"]
  BY <1>1, <1>2, <1>3, <1>5, DropRefines, Zenon DEF AbstractStep, Abstract!Next
<1> QED
  BY <1>4, <1>5, Zenon

(* Enter() is where lock() takes effect.                                   *)
LEMMA EnterRefines ==
  ASSUME IInv, IInv', NEW o \in Owners, NEW v \in {LCK_read, LCK_write},
         entries[o] = 0, Enter(o, v),
         \A q \in Processes : q # Home[o] => object'[q] = object[q]
  PROVE  AbstractStep
<1>1. entries' = [entries EXCEPT ![o] = @ + 1] /\ level' = [level EXCEPT ![o] = v]
  BY Zenon DEF Enter
<1>2. Use(o) = LCK_none /\ Use(o)' = v
  BY <1>1 DEF IInv, TypeInv, Use
<1>3. \A n \in Owners : n # o => Use(n)' = Use(n)
  BY <1>1, Zenon DEF IInv, TypeInv, Use
<1>4. Abstract!Lock(o, v)
  BY <1>2, <1>3, LockRefines, Zenon
<1>5. v \in {Abstract!LCK_read, Abstract!LCK_write}
  BY Zenon DEF Abstract!LCK_read, Abstract!LCK_write, Abstract!LCK_PR, Abstract!LCK_EX,
         LCK_read, LCK_write, LCK_PR, LCK_EX
<1> QED
  BY <1>4, <1>5, Zenon DEF AbstractStep, Abstract!Next

LEMMA UnlockReadRefines ==
  ASSUME IInv, IInv', NEW o \in Owners, unlock_read(o)
  PROVE  AbstractStep
<1> DEFINE p == Home[o]
<1>0. /\ p \in Processes /\ level[o] = LCK_read /\ entries[o] = readers[o] /\ readers[o] > 0
      /\ LCK_read # LCK_none /\ entries \in [Owners -> Nat] /\ DOMAIN object = Processes
      /\ entries' = [entries EXCEPT ![o] = @ - 1] /\ UNCHANGED level
  BY HomeType, Zenon DEF IInv, TypeInv, Counted, unlock_read, Leave, LCK_read, LCK_none, LCK_PR
<1>1. \A n \in Owners : n # o => Use(n)' = Use(n)
  BY <1>0, Zenon DEF Use
<1>2. CASE readers[o] = 1
  <2>1. Use(o) # LCK_none /\ Use(o)' = LCK_none
    BY <1>0, <1>2 DEF Use
  <2>2. CASE object' = object
    BY <1>1, <2>1, <2>2, UnlockRefines, Zenon DEF AbstractStep, Abstract!Next
  <2>3. CASE object' # object
    <3>1. /\ object' = [object EXCEPT ![p] = "none"]
          /\ Readers(p) \subseteq {o} /\ entry_count[p] = 0
      BY <2>3, Zenon DEF unlock_read, GiveUp
    <3>2. \A n \in Owners : Home[n] = p /\ n # o => Use(n) = LCK_none
      <4> SUFFICES ASSUME NEW n \in Owners, Home[n] = p, n # o PROVE entries[n] = 0
        BY UseType, Zenon
      <4>1. readers[n] = 0 /\ writer[p] = NULL
        BY <1>0, <3>1 DEF IInv, TypeInv, OneWriter, Readers
      <4>2. level[n] = LCK_none \/ level[n] = LCK_read \/ level[n] = LCK_write
        BY Zenon DEF IInv, TypeInv, Levels
      <4> QED
        BY <4>1, <4>2, ConstantsAssumption, SMTT(30) DEF IInv, TypeInv, Counted
    <3> QED
      BY <1>0, <1>1, <2>1, <3>1, <3>2, UnlockRefines, Zenon DEF AbstractStep, Abstract!Next
  <2> QED
    BY <2>2, <2>3, Zenon
<1>3. CASE readers[o] # 1
  <2>1. object' = object
    BY <1>3, Zenon DEF unlock_read
  <2>2. entries[o] - 1 > 0
    BY <1>0, <1>3
  <2>3. Use(o)' = Use(o)
    BY <1>0, <2>2, Zenon DEF Use
  <2> QED
    BY <1>1, <2>1, <2>3, QuietRefines, Zenon DEF AbstractStep
<1> QED
  BY <1>2, <1>3, Zenon

LEMMA UnlockWriteRefines ==
  ASSUME IInv, IInv', NEW o \in Owners, unlock_write(o)
  PROVE  AbstractStep
<1>0. /\ Home[o] \in Processes /\ level[o] = LCK_write /\ entries[o] > 0 /\ writer[Home[o]] = o
      /\ entries \in [Owners -> Nat] /\ DOMAIN object = Processes
      /\ entries' = [entries EXCEPT ![o] = @ - 1] /\ UNCHANGED level
  BY HomeType, Zenon DEF IInv, TypeInv, Counted, unlock_write, Leave
<1>1. entries[o] = 1 /\ LCK_write # LCK_none
  <2>1. entries[o] = 1
    BY <1>0, ConstantsAssumption DEF IInv, OneWriter
  <2> QED
    BY <2>1, SMTT(30) DEF LCK_write, LCK_none, LCK_EX
<1>2. \A n \in Owners : n # o => Use(n)' = Use(n) /\ Use(n) = LCK_none
  BY <1>0, WriterExcludes, UseType, Zenon DEF Use
<1>3. Use(o) # LCK_none /\ Use(o)' = LCK_none
  BY <1>0, <1>1 DEF Use
<1>4. object' = object \/ object' = [object EXCEPT ![Home[o]] = "none"]
  BY Zenon DEF unlock_write, GiveUp
<1> QED
  BY <1>0, <1>2, <1>3, <1>4, UnlockRefines, Zenon DEF AbstractStep, Abstract!Next

(* A hand-over of one of several entries only adds, or only removes, a     *)
(* user.                                                                   *)
LEMMA HandOverReadRefines ==
  ASSUME IInv, IInv', NEW o \in Owners, NEW new \in Owners, changeLockOwner_read(o, new)
  PROVE  AbstractStep
<1>0. /\ o # new /\ Home[o] = Home[new]
      /\ readers[o] > 0 /\ (entries[new] > 0 => level[new] = LCK_read)
      /\ entries' = [entries EXCEPT ![o] = @ - 1, ![new] = @ + 1]
      /\ level' = [level EXCEPT ![new] = LCK_read]
      /\ object' = object
  BY Zenon DEF changeLockOwner_read
<1>1. /\ level[o] = LCK_read /\ entries[o] = readers[o] /\ LCK_read # LCK_none
      /\ entries \in [Owners -> Nat] /\ level \in [Owners -> Levels]
  BY <1>0, SMTT(30) DEF IInv, TypeInv, Counted, LCK_read, LCK_none, LCK_PR
<1>2. /\ entries'[o] = entries[o] - 1 /\ entries'[new] = entries[new] + 1
      /\ level'[o] = LCK_read /\ level'[new] = LCK_read
      /\ \A n \in Owners : n # o /\ n # new => Use(n)' = Use(n)
  BY <1>0, <1>1, Zenon DEF Use
<1>3. Use(o) = LCK_read /\ Use(new)' = LCK_read
  BY <1>0, <1>1, <1>2 DEF Use
<1>4. CASE entries[o] = 1 /\ entries[new] = 0
  <2>1. Use(new) = LCK_none /\ Use(o)' = LCK_none
    BY <1>2, <1>4 DEF Use
  <2> QED
    BY <1>0, <1>1, <1>2, <1>3, <2>1, HandOverRefines, ZenonT(30) DEF AbstractStep, Abstract!Next
<1>5. CASE entries[o] = 1 /\ entries[new] > 0
  <2>1. Use(new)' = Use(new) /\ Use(o)' = LCK_none
    BY <1>0, <1>2, <1>3, <1>5 DEF Use
  <2> QED
    BY <1>0, <1>1, <1>2, <1>3, <2>1, UnlockRefines, ZenonT(30) DEF AbstractStep, Abstract!Next
<1>6. CASE entries[o] > 1 /\ entries[new] = 0
  <2>1. Use(new) = LCK_none /\ Use(o)' = Use(o)
    BY <1>1, <1>2, <1>3, <1>6 DEF Use
  <2>2. Abstract!Lock(new, LCK_read)
    BY <1>0, <1>2, <1>3, <2>1, LockRefines, Zenon
  <2>3. LCK_read = Abstract!LCK_read
    BY Zenon DEF Abstract!LCK_read, Abstract!LCK_PR, LCK_read, LCK_PR
  <2> QED
    BY <2>2, <2>3, Zenon DEF AbstractStep, Abstract!Next
<1>7. CASE entries[o] > 1 /\ entries[new] > 0
  <2>1. Use(new)' = Use(new) /\ Use(o)' = Use(o)
    BY <1>0, <1>1, <1>2, <1>3, <1>7 DEF Use
  <2> QED
    BY <1>0, <1>2, <2>1, QuietRefines, Zenon DEF AbstractStep
<1>8. /\ entries[o] = 1 \/ entries[o] > 1
      /\ entries[new] = 0 \/ entries[new] > 0
  BY <1>0, <1>1
<1> QED
  BY <1>4, <1>5, <1>6, <1>7, <1>8, Zenon

LEMMA HandOverWriteRefines ==
  ASSUME IInv, IInv', NEW o \in Owners, NEW new \in Owners, changeLockOwner_write(o, new)
  PROVE  AbstractStep
<1>0. /\ o # new /\ Home[o] = Home[new] /\ Home[o] \in Processes
      /\ writer[Home[o]] = o /\ entries[new] = 0
      /\ entries' = [entries EXCEPT ![o] = 0, ![new] = 1]
      /\ level' = [level EXCEPT ![new] = LCK_write]
      /\ object' = object
  BY HomeType, Zenon DEF changeLockOwner_write
<1>1. /\ level[o] = LCK_write /\ entries[o] = 1 /\ LCK_write # LCK_none
      /\ entries \in [Owners -> Nat] /\ level \in [Owners -> Levels]
  <2>1. level[o] = LCK_write /\ entries[o] = 1
    BY <1>0, ConstantsAssumption DEF IInv, OneWriter
  <2>2. entries \in [Owners -> Nat] /\ level \in [Owners -> Levels]
    BY ZenonT(30) DEF IInv, TypeInv
  <2> QED
    BY <2>1, <2>2, SMTT(30) DEF LCK_write, LCK_none, LCK_EX
<1>2. /\ Use(o) = LCK_write /\ Use(new) = LCK_none
      /\ Use(o)' = LCK_none /\ Use(new)' = LCK_write
      /\ \A n \in Owners : n # o /\ n # new => Use(n)' = Use(n)
  BY <1>0, <1>1 DEF Use
<1> QED
  BY <1>0, <1>1, <1>2, HandOverRefines, Zenon DEF AbstractStep, Abstract!Next

LEMMA RefinementStep == IInv /\ IInv' /\ [Next]_vars => AbstractStep
<1> SUFFICES ASSUME IInv, IInv', [Next]_vars PROVE AbstractStep
  OBVIOUS
<1>0. ASSUME UNCHANGED <<entries, level, object>> PROVE AbstractStep
  BY <1>0, QuietRefines, Zenon DEF AbstractStep, Use
<1>1. CASE lm_grant
  BY <1>0, <1>1, Zenon DEF lm_grant
<1>2. ASSUME NEW o \in Owners, Call(o) PROVE AbstractStep
  <2>0. /\ entries \in [Owners -> Nat] /\ DOMAIN object = Processes /\ Home[o] \in Processes
        /\ readers[o] = 0 /\ level[o] = LCK_read => entries[o] = 0
    BY HomeType, Zenon DEF IInv, TypeInv, Counted
  <2>1. CASE lock_recursion(o)
    <3>1. /\ entries' = [entries EXCEPT ![o] = @ + 1] /\ readers[o] > 0
          /\ UNCHANGED <<level, object>>
      BY <2>1, SMTT(30) DEF lock_recursion
    <3>2. entries[o] > 0
      <4>1. readers[o] = IF level[o] = LCK_read THEN entries[o] ELSE 0
        BY ZenonT(30) DEF IInv, Counted
      <4> QED
        BY <3>1, <4>1, SMTT(30)
    <3>3. \A n \in Owners : Use(n)' = Use(n)
      <4> SUFFICES ASSUME NEW n \in Owners PROVE Use(n)' = Use(n)
        OBVIOUS
      <4>1. CASE n = o
        <5>1. entries'[o] = entries[o] + 1 /\ entries[o] \in Nat
          BY <2>0, <3>1, Zenon
        <5>2. entries'[o] > 0
          BY <3>2, <5>1
        <5> QED
          BY <3>1, <3>2, <4>1, <5>2, Zenon DEF Use
      <4>2. CASE n # o
        BY <2>0, <3>1, <4>2, Zenon DEF Use
      <4> QED
        BY <4>1, <4>2, Zenon
    <3> QED
      BY <3>1, <3>3, QuietRefines, Zenon DEF AbstractStep
  <2>2. ASSUME NEW v \in {LCK_read, LCK_write}, lock_cached(o, v) PROVE AbstractStep
    <3>1. entries[o] = 0 /\ Enter(o, v) /\ object' = object
      BY <2>0, <2>2, Zenon DEF lock_cached, MayAsk
    <3> QED
      BY <3>1, EnterRefines, Zenon
  <2>3. ASSUME NEW v \in {LCK_read, LCK_write}, lock_first(o, v) PROVE AbstractStep
    <3>1. /\ entries[o] = 0 /\ UNCHANGED entries /\ level' = [level EXCEPT ![o] = v]
          /\ \/ object' = object
             \/ Unused(Home[o]) /\ object' = [object EXCEPT ![Home[o]] = "none"]
      BY <2>0, <2>3, ZenonT(30) DEF lock_first, MayAsk
    <3>2. \A n \in Owners : entries[n] > 0 => level'[n] = level[n]
      BY <3>1 DEF IInv, TypeInv
    <3>3. CASE object' = object
      BY <3>1, <3>2, <3>3, QuietRefines, Zenon DEF AbstractStep, Use
    <3> QED
      BY <2>0, <3>1, <3>2, <3>3, ReleaseRefines, Zenon
  <2>4. CASE LCK_lock(o)
    BY <1>0, <2>4, Zenon DEF LCK_lock
  <2>5. CASE LCK_lock_fails(o)
    BY <1>0, <2>5, Zenon DEF LCK_lock_fails
  <2>6. CASE lock_second(o)
    <3>1. newLock[o] \in {LCK_read, LCK_write} /\ entries[o] = 0
      BY <2>6, Zenon DEF lock_second, IInv, Calls
    <3>2. Enter(o, newLock[o]) /\ object' = [object EXCEPT ![Home[o]] = "current"]
      BY <2>6, Zenon DEF lock_second, fetch
    <3>3. \A q \in Processes : q # Home[o] => object'[q] = object[q]
      BY <2>0, <3>2, Zenon
    <3> QED
      BY <3>1, <3>2, <3>3, EnterRefines, Zenon
  <2>7. CASE fetch_fails(o)
    BY <1>0, <2>7, Zenon DEF fetch_fails
  <2>8. CASE unlock_read(o)
    BY <2>8, UnlockReadRefines, Zenon
  <2>9. CASE unlock_write(o)
    BY <2>9, UnlockWriteRefines, Zenon
  <2>10. ASSUME NEW new \in Owners, changeLockOwner_read(o, new) PROVE AbstractStep
    BY <2>10, HandOverReadRefines, Zenon
  <2>11. ASSUME NEW new \in Owners, changeLockOwner_write(o, new) PROVE AbstractStep
    BY <2>11, HandOverWriteRefines, Zenon
  <2>12. CASE Write(o)
    BY <1>0, <2>12, WriteStep, Zenon
  <2> QED
    BY <1>2, <2>1, <2>2, <2>3, <2>4, <2>5, <2>6, <2>7, <2>8, <2>9, <2>10, <2>11, <2>12, Zenon DEF
       Call
<1>3. ASSUME NEW o \in Owners, lm_post(o) PROVE AbstractStep
  BY <1>0, <1>3, Zenon DEF lm_post, callVars
<1>4. ASSUME NEW h \in Processes \cup Owners, lm_ast(h) PROVE AbstractStep
  BY <1>0, <1>4, Zenon DEF lm_ast, callVars
<1>5. ASSUME NEW p \in Processes, blockingAstHandler(p) PROVE AbstractStep
  <2>1. UNCHANGED <<entries, level>>
    BY <1>5, Zenon DEF blockingAstHandler, callVars
  <2>2. \/ object' = object
        \/ Unused(p) /\ object' = [object EXCEPT ![p] = "none"]
    BY <1>5, Zenon DEF blockingAstHandler
  <2> QED
    BY <1>0, <2>1, <2>2, ReleaseRefines, Zenon
<1>6. ASSUME NEW p \in Processes, tryReleaseLock(p) PROVE AbstractStep
  BY <1>6, ReleaseRefines, Zenon DEF tryReleaseLock, callVars
<1>7. CASE UNCHANGED vars
  BY <1>0, <1>7, Zenon DEF vars, callVars
<1> QED
  BY <1>1, <1>2, <1>3, <1>4, <1>5, <1>6, <1>7, Zenon DEF Next

LEMMA RefinementInit == Init => Abstract!Init
BY Zenon DEF Init, Abstract!Init, Abstract!LCK_none, LCK_none

(* lock(), unlock(), changeLockOwner() and the blocking routine, with the  *)
(* cached lock, its counters and the lock manager, implement a lock whose  *)
(* calls take effect in one step.                                          *)
THEOREM Refinement == Spec => ImplementsRWLock
<1>1. IInv /\ IInv' /\ [Next]_vars =>
        [Abstract!Next]_<<[o \in Owners |-> IF entries[o] > 0 THEN level[o] ELSE LCK_none],
                         {p \in Processes : object[p] = "current"}>>
  BY RefinementStep, Zenon DEF AbstractStep, AbstractVars, Use, Fresh
<1> QED
  BY <1>1, RefinementInit, Invariance, PTL DEF Spec, ImplementsRWLock, Abstract!Spec
=============================================================================
