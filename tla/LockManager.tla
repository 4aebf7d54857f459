----------------------------- MODULE LockManager -----------------------------
(***************************************************************************)
(* The lock manager of the Classic server (src/src/lock/lock.cpp), POSIX   *)
(* build: owners are processes, the lock table is shared memory guarded by *)
(* one mutex, waiters sleep on an event (USE_WAKEUP_EVENTS), blocking ASTs *)
(* are delivered by a signal (USE_BLOCKING_SIGNALS) and there is no lock   *)
(* manager process (MANAGER_PROCESS is not defined).                       *)
(*                                                                         *)
(* A section of code that runs between acquire() and release() is one step *)
(* except for the two loops that a section may end with: post_pending()    *)
(* takes one step per pending request it visits and purge_owner() one step *)
(* per request it releases.  While they run the mutex (lhb_active) is held *)
(* and only code that does not take the mutex can interleave: a waiter     *)
(* that polls its own request, a signal handler that finds the lock        *)
(* manager busy, and the death of a process.                               *)
(*                                                                         *)
(* The queue own_blocks of an owner is the set of its requests that carry  *)
(* LRQ_blocking; own_requests is the set of requests with that lrq_owner.  *)
(***************************************************************************)
EXTENDS LockLevels, Sequences, FiniteSets

CONSTANTS
  Owners,         \* processes that attach to the lock table
  Locks,          \* names of lockable resources (lbl_key within one parent)
  Requests,       \* lock request blocks of the table
  NULL,           \* the null offset
  LOCK_ordering,  \* configuration: are new requests granted in queue order?
  Levels,         \* levels that callers ask for
  Waits,          \* lck_wait of the callers: zero, positive or negative
  Asts,           \* whether callers pass a blocking routine
  MayCrash,       \* the owners that may die
  HolderMayCrash  \* may an owner die while it holds the mutex?

ASSUME NullAssumption ==
  /\ NULL \notin Owners \cup Locks \cup Requests
  /\ "loop" \notin Requests \cup {NULL}
ASSUME RequestsAssumption ==
  IsFiniteSet(Requests)
ASSUME CallersAssumption ==
  /\ LOCK_ordering \in BOOLEAN
  /\ Levels \subseteq LCK_null .. LCK_EX
  /\ Waits \subseteq {"no_wait", "wait", "timeout"}
  /\ Asts \subseteq BOOLEAN
  /\ MayCrash \subseteq Owners
  /\ HolderMayCrash \in BOOLEAN

VARIABLES
  lrq_lock, lrq_owner, lrq_requested, lrq_state, lrq_flags, lrq_ast,
  lbl_requests,   \* the queue of requests of each lock
  lbl_counts,     \* number of requests granted at each level
  lbl_state,      \* the highest level granted
  lbl_pending,    \* lbl_pending_lrq_count
  own_pending,    \* own_pending_request
  own_flags,      \* OWN_scanned, OWN_wakeup, OWN_timeout
  own_signaled,   \* OWN_signaled, in own_ast_flags
  lhb_owners,     \* owner blocks in use
  lhb_active,     \* lhb_active_owner: who holds the mutex
  posting,        \* the lock post_pending() is working on
  cursor,         \* its position in the queue of that lock
  purging,        \* the owners that the holder of the mutex is purging
  pc,             \* what each process is doing
  wreq,           \* the request that wait_for_request() was called for
  ast             \* the request whose blocking routine runs, or "loop"

lrqVars == <<lrq_lock, lrq_owner, lrq_requested, lrq_state, lrq_flags, lrq_ast>>
lblVars == <<lbl_requests, lbl_counts, lbl_state, lbl_pending>>
ownVars == <<own_pending, own_flags, own_signaled, lhb_owners>>
mutexVars == <<lhb_active, posting, cursor, purging>>
procVars == <<pc, wreq, ast>>
vars == <<lrqVars, lblVars, ownVars, mutexVars, procVars>>

LrqFlags == {"blocking", "pending", "rejected", "blocking_seen", "just_granted"}
OwnFlags == {"scanned", "wakeup", "timeout"}
PC == {"none", "init", "idle", "wait", "scan", "exit", "denied", "fini", "dead"}

TypeRequests ==
  /\ lrq_lock \in [Requests -> Locks \cup {NULL}]
  /\ lrq_owner \in [Requests -> Owners \cup {NULL}]
  /\ lrq_requested \in [Requests -> Level]
  /\ lrq_state \in [Requests -> Level]
  /\ lrq_flags \in [Requests -> SUBSET LrqFlags]
  /\ lrq_ast \in [Requests -> BOOLEAN]
TypeLocks ==
  /\ lbl_requests \in [Locks -> Seq(Requests)]
  /\ lbl_counts \in [Locks -> [Level -> Nat]]
  /\ lbl_state \in [Locks -> Level]
  /\ lbl_pending \in [Locks -> Nat]
TypeOwners ==
  /\ own_pending \in [Owners -> Requests \cup {NULL}]
  /\ own_flags \in [Owners -> SUBSET OwnFlags]
  /\ own_signaled \in [Owners -> BOOLEAN]
  /\ lhb_owners \subseteq Owners
TypeMutex ==
  /\ lhb_active \in Owners \cup {NULL}
  /\ posting \in Locks \cup {NULL}
  /\ cursor \in Nat
  /\ purging \subseteq Owners
TypeProcesses ==
  /\ pc \in [Owners -> PC]
  /\ wreq \in [Owners -> Requests \cup {NULL}]
  /\ ast \in [Owners -> Requests \cup {NULL, "loop"}]

(* The type invariant of the lock table and the processes; in particular   *)
(* no count of a lock block ever drops below zero.                         *)
TypeOK == TypeRequests /\ TypeLocks /\ TypeOwners /\ TypeMutex /\ TypeProcesses

-----------------------------------------------------------------------------
(* Helpers                                                                 *)

Pending(r) == "pending" \in lrq_flags[r]
PendingRequests == {p \in Requests : Pending(p)}
RequestsOf(l) == {r \in Requests : lrq_lock[r] = l}
OwnBlocks(o) == {r \in Requests : lrq_owner[r] = o /\ "blocking" \in lrq_flags[r]}
Dead(o) == pc[o] = "dead"
InCall(o) == pc[o] \in {"wait", "scan", "exit", "denied"}
Attached(o) == pc[o] \in {"idle", "wait", "scan", "exit", "denied"}

(* own_semaphore is set.                                                   *)
InWait(o) == pc[o] \in {"wait", "scan", "exit"}

Inc(counts, level) == [counts EXCEPT ![level] = @ + 1]
Dec(counts, level) == [counts EXCEPT ![level] = @ - 1]

(* lock_state(): the highest level that somebody holds.                    *)
lock_state(counts) ==
  IF \E v \in LCK_null .. LCK_EX : counts[v] > 0
  THEN CHOOSE v \in LCK_null .. LCK_EX :
         counts[v] > 0 /\ \A w \in LCK_null .. LCK_EX : counts[w] > 0 => w <= v
  ELSE LCK_none

(* The counts of lock l without what request r holds.                      *)
CountsWithout_kept(l, r) ==               \* mutant: what r held is not taken off
  lbl_counts[l]
CountsWithout(l, r) ==
  IF lrq_state[r] = LCK_none THEN lbl_counts[l]
  ELSE Dec(lbl_counts[l], lrq_state[r])

(* The level that request r of lock l must be compatible with: for a       *)
(* conversion its own grant is left out of the count.                      *)
StateWithout(l, r) ==
  IF lrq_state[r] = LCK_none THEN lbl_state[l] ELSE lock_state(CountsWithout(l, r))

(* remove_que() of the element at position i.                              *)
RemoveAt(q, i) == [j \in 1 .. Len(q) - 1 |-> IF j < i THEN q[j] ELSE q[j + 1]]
remove_que(q, r) ==
  RemoveAt(q, CHOOSE i \in DOMAIN q : q[i] = r)

MutexFree == lhb_active = NULL

(* A call into the lock manager from the main flow of process o.           *)
MayCall(o) == pc[o] = "idle" /\ ast[o] = NULL /\ MutexFree

(* acquire() ... release(): the section of owner o ends with post_pending  *)
(* on lock l, which has n pending requests and returns at once if n is 0,  *)
(* and with purging the owners found dead.                                 *)
EndSection_offbyone(o, l, n, dead) ==     \* mutant: a single waiter is left out
  /\ posting' = IF n > 1 THEN l ELSE NULL
  /\ cursor' = 1
  /\ purging' = dead
  /\ lhb_active' = IF n > 1 \/ dead # {} THEN o ELSE NULL
EndSection(o, l, n, dead) ==
  /\ posting' = IF n > 0 THEN l ELSE NULL
  /\ cursor' = 1
  /\ purging' = dead
  /\ lhb_active' = IF n > 0 \/ dead # {} THEN o ELSE NULL

(* release(): the owners in signal have been sent a signal, and an owner   *)
(* whose own_blocks are not empty and that has none on its way enters      *)
(* blocking_action2() itself.  A call made by a blocking routine returns   *)
(* to the loop that runs the routines.                                     *)
release(o, blocks, signal) ==
  /\ own_signaled' = [q \in Owners |->
        own_signaled[q] \/ q \in signal \/ (q = o /\ blocks # {})]
  /\ ast' = [ast EXCEPT ![o] =
        IF @ # NULL \/ (blocks # {} /\ ~own_signaled[o]) THEN "loop" ELSE NULL]

-----------------------------------------------------------------------------
(* grant(), post_blockage() and wait_for_request(): parts of the actions   *)

(* grant(): request r of lock l now holds level v.  A pending request is   *)
(* no longer pending; its owner is woken up.                               *)
grant(l, r, v) ==
  LET counts == Inc(CountsWithout(l, r), v)
  IN /\ lrq_requested' = [lrq_requested EXCEPT ![r] = v]
     /\ lrq_state' = [lrq_state EXCEPT ![r] = v]
     /\ lbl_counts' = [lbl_counts EXCEPT ![l] = counts]
     /\ lbl_state' = [lbl_state EXCEPT ![l] = lock_state(counts)]

post_wakeup_never(o) ==                   \* mutant: the event is not posted
  UNCHANGED own_flags
post_wakeup(o) ==
  own_flags' = [own_flags EXCEPT ![o] = IF InWait(o) THEN @ \cup {"wakeup"} ELSE @]

(* The requests that post_blockage() adds to the own_blocks of their       *)
(* owners when r asks for level v.  (The loop stops at a request that holds *)
(* LCK_EX; by GrantedCompatible nobody behind it holds a level that        *)
(* conflicts with anything.)                                               *)
Blockers(l, r, v) ==
  {b \in RequestsOf(l) \ {r} : /\ ~COMPATIBLE(v, lrq_state[b])
                               /\ lrq_ast[b]
                               /\ "blocking_seen" \notin lrq_flags[b]}

(* Flags after post_blockage(), from the flags f before it.                *)
MarkBlocking(f, blockers) ==
  [b \in Requests |-> IF b \in blockers /\ "blocking" \notin f[b]
                      THEN (f[b] \ {"just_granted"}) \cup {"blocking"}
                      ELSE f[b]]

(* signal_owner() for each owner of a blocking request other than o itself *)
(* that is not signaled already; the ones that cannot be signaled because  *)
(* they are dead are purged.                                               *)
Signalled(o, blockers) ==
  {q \in {lrq_owner[b] : b \in blockers} \ {o} : ~own_signaled[q]}

post_blockage(o, l, r, v, f) ==
  LET blockers == Blockers(l, r, v)
      signal == Signalled(o, blockers)
  IN /\ lrq_flags' = MarkBlocking(f, blockers)
     /\ release(o, {b \in OwnBlocks(o) \cup blockers : lrq_owner[b] = o},
                {q \in signal : ~Dead(q)})
     /\ EndSection(o, NULL, 0, {q \in signal : Dead(q)})

(* wait_for_request() up to the loop, for a request r already in the queue *)
(* of lock l; f are the flags of all requests before the call.             *)
StartWait(o, l, r, v, wait, f) ==
  /\ lbl_pending' = [lbl_pending EXCEPT ![l] = @ + 1]
  /\ own_pending' = [own_pending EXCEPT ![o] = r]
  /\ own_flags' = [own_flags EXCEPT ![o] = IF wait = "timeout" THEN {"timeout"} ELSE {}]
  /\ pc' = [pc EXCEPT ![o] = "wait"]
  /\ wreq' = [wreq EXCEPT ![o] = r]
  /\ post_blockage(o, l, r, v,
        [f EXCEPT ![r] = (@ \ {"rejected"}) \cup {"pending"}])

-----------------------------------------------------------------------------
(* LOCK_enq                                                                *)

(* grant_or_que(): may a new request for level v be granted at once?       *)
GrantNow_unchecked(l, v) ==               \* mutant: the level held is not checked
  ~LOCK_ordering \/ v = LCK_null \/ lbl_pending[l] = 0
GrantNow_unordered(l, v) ==               \* mutant: the waiters are passed over
  COMPATIBLE(v, lbl_state[l])
GrantNow(l, v) ==
  /\ COMPATIBLE(v, lbl_state[l])
  /\ ~LOCK_ordering \/ v = LCK_null \/ lbl_pending[l] = 0

(* A request block is taken from the free list, or allocated, for owner o. *)
get_request(o, l, r, v, a) ==
  /\ lrq_lock[r] = NULL
  /\ lrq_lock' = [lrq_lock EXCEPT ![r] = l]
  /\ lrq_owner' = [lrq_owner EXCEPT ![r] = o]
  /\ lrq_ast' = [lrq_ast EXCEPT ![r] = a]
  /\ lbl_requests' = [lbl_requests EXCEPT ![l] = Append(@, r)]

(* The request is granted at once; also the case of a lock that does not   *)
(* exist yet, which is a lock without requests.                            *)
LOCK_enq_grant(o, l, r, v, a) ==
  /\ MayCall(o)
  /\ GrantNow(l, v)
  /\ get_request(o, l, r, v, a)
  /\ grant(l, r, v)
  /\ EndSection(o, l, lbl_pending[l], {})
  /\ release(o, OwnBlocks(o), {})
  /\ UNCHANGED <<lrq_flags, lbl_pending, own_pending, own_flags, lhb_owners, pc, wreq>>

(* The request has to wait.                                                *)
LOCK_enq_wait(o, l, r, v, a, wait) ==
  /\ MayCall(o)
  /\ wait # "no_wait"
  /\ ~GrantNow(l, v)
  /\ get_request(o, l, r, v, a)
  /\ lrq_requested' = [lrq_requested EXCEPT ![r] = v]
  /\ StartWait(o, l, r, v, wait, lrq_flags)
  /\ UNCHANGED <<lrq_state, lbl_counts, lbl_state, lhb_owners>>

(* The caller does not wait: the request, queued only within the section,  *)
(* is released again, which posts the pending requests of the lock.        *)
LOCK_enq_deny(o, l, v) ==
  /\ MayCall(o)
  /\ ~GrantNow(l, v)
  /\ \E r \in Requests : lrq_lock[r] = NULL
  /\ EndSection(o, l, lbl_pending[l], {})
  /\ release(o, OwnBlocks(o), {})
  /\ UNCHANGED <<lrqVars, lblVars, own_pending, own_flags, lhb_owners, pc, wreq>>

LOCK_enq(o) ==
  \E l \in Locks, v \in Levels :
    \/ \E r \in Requests, a \in Asts :
         \/ LOCK_enq_grant(o, l, r, v, a)
         \/ \E wait \in Waits : LOCK_enq_wait(o, l, r, v, a, wait)
    \/ "no_wait" \in Waits /\ LOCK_enq_deny(o, l, v)

-----------------------------------------------------------------------------
(* LOCK_convert                                                            *)

(* An owner converts a request it holds; by MayCall it is not waiting.     *)
Held(o, r) == lrq_owner[r] = o /\ lrq_state[r] # LCK_none

(* convert(): compatible with the other holders, so granted at once, ahead *)
(* of everybody who waits.                                                 *)
convert_grant(o, r, v, f) ==
  LET l == lrq_lock[r]
  IN /\ COMPATIBLE(v, StateWithout(l, r))
     /\ grant(l, r, v)
     /\ lrq_flags' = [f EXCEPT ![r] = @ \ {"blocking_seen"}]
     /\ post_wakeup(o)
     /\ EndSection(o, l, lbl_pending[l], {})
     /\ release(o, OwnBlocks(o), {})
     /\ UNCHANGED <<lrq_lock, lrq_owner, lbl_requests, lbl_pending,
                    own_pending, lhb_owners, pc, wreq>>

(* convert() that is refused at once leaves the request as it was, except  *)
(* that it may be notified of a blockage again.                            *)
convert_deny(o, r, v) ==
  /\ ~COMPATIBLE(v, StateWithout(lrq_lock[r], r))
  /\ lrq_requested' = [lrq_requested EXCEPT ![r] = lrq_state[r]]
  /\ lrq_flags' = [lrq_flags EXCEPT ![r] = @ \ {"blocking_seen"}]
  /\ EndSection(o, NULL, 0, {})
  /\ release(o, OwnBlocks(o), {})
  /\ UNCHANGED <<lrq_lock, lrq_owner, lrq_state, lrq_ast, lblVars,
                 own_pending, own_flags, lhb_owners, pc, wreq>>

LOCK_convert_grant(o, r, v, a) ==
  /\ MayCall(o)
  /\ Held(o, r)
  /\ convert_grant(o, r, v, lrq_flags)
  /\ lrq_ast' = [lrq_ast EXCEPT ![r] = a]

LOCK_convert_deny(o, r, v) ==
  /\ MayCall(o)
  /\ Held(o, r)
  /\ convert_deny(o, r, v)

LOCK_convert_wait(o, r, v, wait) ==
  /\ MayCall(o)
  /\ Held(o, r)
  /\ wait # "no_wait"
  /\ ~COMPATIBLE(v, StateWithout(lrq_lock[r], r))
  /\ lrq_requested' = [lrq_requested EXCEPT ![r] = v]
  /\ StartWait(o, lrq_lock[r], r, v, wait,
               [lrq_flags EXCEPT ![r] = @ \ {"blocking_seen"}])
  /\ UNCHANGED <<lrq_lock, lrq_owner, lrq_state, lrq_ast,
                 lbl_requests, lbl_counts, lbl_state, lhb_owners>>

LOCK_convert(o) ==
  \E r \in Requests, v \in Levels :
    \/ \E a \in Asts : LOCK_convert_grant(o, r, v, a)
    \/ "no_wait" \in Waits /\ LOCK_convert_deny(o, r, v)
    \/ \E wait \in Waits : LOCK_convert_wait(o, r, v, wait)

-----------------------------------------------------------------------------
(* LOCK_deq and LOCK_downgrade                                             *)

WaitersWithout_always(r) ==               \* mutant: r need not be pending
  lbl_pending[lrq_lock[r]] - 1
WaitersWithout(r) == lbl_pending[lrq_lock[r]] - (IF Pending(r) THEN 1 ELSE 0)

(* release_request(): the request leaves its lock and becomes free; a lock *)
(* without requests is freed.  The caller goes on with post_pending.       *)
release_request(r) ==
  LET l == lrq_lock[r]
      last == Len(lbl_requests[l]) = 1
      counts == IF last THEN [v \in Level |-> 0]
                ELSE CountsWithout(l, r)
  IN /\ lrq_lock' = [lrq_lock EXCEPT ![r] = NULL]
     /\ lrq_owner' = [lrq_owner EXCEPT ![r] = NULL]
     /\ lrq_requested' = [lrq_requested EXCEPT ![r] = LCK_none]
     /\ lrq_state' = [lrq_state EXCEPT ![r] = LCK_none]
     /\ lrq_flags' = [lrq_flags EXCEPT ![r] = {}]
     /\ lrq_ast' = [lrq_ast EXCEPT ![r] = FALSE]
     /\ lbl_requests' = [lbl_requests EXCEPT ![l] = remove_que(@, r)]
     /\ lbl_counts' = [lbl_counts EXCEPT ![l] = counts]
     /\ lbl_state' = [lbl_state EXCEPT ![l] = lock_state(counts)]
     /\ lbl_pending' = [lbl_pending EXCEPT ![l] = WaitersWithout(r)]

dequeue(o, r) ==
  /\ release_request(r)
  /\ EndSection(o, lrq_lock[r], WaitersWithout(r), {})
  /\ release(o, OwnBlocks(o) \ {r}, {})
  /\ UNCHANGED <<own_pending, own_flags, lhb_owners, pc, wreq>>

LOCK_deq(o) ==
  /\ MayCall(o)
  /\ \E r \in Requests : Held(o, r) /\ dequeue(o, r)

(* The highest level asked for by another pending request of the lock.     *)
PendingState(r) ==
  LET asked == {lrq_requested[p] : p \in {q \in RequestsOf(lrq_lock[r]) \ {r} : Pending(q)}}
  IN IF asked = {} THEN LCK_none
     ELSE CHOOSE v \in asked : \A w \in asked : w <= v

(* The highest level, at most the one held, that is compatible with it.    *)
DowngradeLevel(r) ==
  LET fits == {v \in 0 .. lrq_state[r] : v = LCK_none \/ COMPATIBLE(PendingState(r), v)}
  IN CHOOSE v \in fits : \A w \in fits : w <= v

downgrade(o, r) ==
  LET v == DowngradeLevel(r)
  IN \/ /\ v <= LCK_null
        /\ dequeue(o, r)
     \/ /\ v > LCK_null
        /\ \/ convert_grant(o, r, v, lrq_flags) /\ UNCHANGED lrq_ast
           \/ convert_deny(o, r, v)

LOCK_downgrade(o) ==
  /\ MayCall(o)
  /\ \E r \in Requests : Held(o, r) /\ downgrade(o, r)

-----------------------------------------------------------------------------
(* post_pending(), purge_owner(): the loops that end a section             *)

InLoop(o) == lhb_active = o

(* Sections that go on after their loops: the deadlock scan and LOCK_init. *)
GoesOn(o) == pc[o] \in {"scan", "init"}

(* Position i is the next pending request of the lock being posted.        *)
NextPending(i) ==
  LET q == lbl_requests[posting]
  IN /\ i \in cursor .. Len(q)
     /\ Pending(q[i])
     /\ \A j \in cursor .. i - 1 : ~Pending(q[j])

post_pending_grant(o) ==
  /\ InLoop(o)
  /\ posting # NULL
  /\ \E i \in DOMAIN lbl_requests[posting] :
       LET r == lbl_requests[posting][i]
       IN /\ NextPending(i)
          /\ COMPATIBLE(lrq_requested[r], StateWithout(posting, r))
          /\ grant(posting, r, lrq_requested[r])
          /\ lrq_flags' = [lrq_flags EXCEPT ![r] = @ \ {"pending"}]
          /\ lbl_pending' = [lbl_pending EXCEPT ![posting] = @ - 1]
          /\ post_wakeup(lrq_owner[r])
          /\ cursor' = i + 1
  /\ UNCHANGED <<lrq_lock, lrq_owner, lrq_ast, lbl_requests, own_pending, own_signaled,
                 lhb_owners, lhb_active, posting, purging, procVars>>

(* A request that still has to wait is woken up, so that it can post the   *)
(* blockage to the new holders.  It stops the loop if order matters.       *)
post_pending_block(o) ==
  /\ InLoop(o)
  /\ posting # NULL
  /\ \E i \in DOMAIN lbl_requests[posting] :
       LET r == lbl_requests[posting][i]
       IN /\ NextPending(i)
          /\ ~COMPATIBLE(lrq_requested[r], StateWithout(posting, r))
          /\ post_wakeup(lrq_owner[r])
          /\ cursor' = IF LOCK_ordering THEN Len(lbl_requests[posting]) + 1 ELSE i + 1
  /\ UNCHANGED <<lrqVars, lblVars, own_pending, own_signaled, lhb_owners,
                 lhb_active, posting, purging, procVars>>

(* The requests ahead of the first pending one that nobody has notified.   *)
JustGranted(l) ==
  LET q == lbl_requests[l]
  IN {r \in Requests : \E i \in DOMAIN q :
        /\ q[i] = r
        /\ \A j \in 1 .. i : ~Pending(q[j])
        /\ lrq_flags[r] \cap {"blocking", "blocking_seen"} = {}
        /\ lrq_ast[r]}

post_pending_end(o) ==
  /\ InLoop(o)
  /\ posting # NULL
  /\ \A i \in cursor .. Len(lbl_requests[posting]) : ~Pending(lbl_requests[posting][i])
  /\ lrq_flags' = [r \in Requests |->
        IF lbl_pending[posting] > 0 /\ r \in JustGranted(posting)
        THEN lrq_flags[r] \cup {"just_granted"} ELSE lrq_flags[r]]
  /\ posting' = NULL
  /\ lhb_active' = IF purging # {} \/ GoesOn(o) THEN o ELSE NULL
  /\ UNCHANGED <<lrq_lock, lrq_owner, lrq_requested, lrq_state, lrq_ast, lblVars,
                 ownVars, cursor, purging, procVars>>

(* purge_owner() releases one more request of an owner it purges ...       *)
purge_request(o) ==
  /\ InLoop(o)
  /\ posting = NULL
  /\ \E r \in Requests :
       /\ lrq_owner[r] \in purging
       /\ release_request(r)
       /\ EndSection(o, lrq_lock[r], WaitersWithout(r), purging)
  /\ UNCHANGED <<ownVars, procVars>>

(* ... and frees the owner block when there is none left.                  *)
purge_owner(o) ==
  /\ InLoop(o)
  /\ posting = NULL
  /\ \E q \in purging :
       /\ \A r \in Requests : lrq_owner[r] # q
       /\ lhb_owners' = lhb_owners \ {q}
       /\ own_pending' = [own_pending EXCEPT ![q] = NULL]
       /\ own_flags' = [own_flags EXCEPT ![q] = {}]
       /\ own_signaled' = [own_signaled EXCEPT ![q] = FALSE]
       /\ purging' = purging \ {q}
       /\ lhb_active' = IF purging' # {} \/ GoesOn(o) THEN o ELSE NULL
       /\ pc' = [pc EXCEPT ![o] = IF @ = "fini" THEN "none" ELSE @]
  /\ UNCHANGED <<lrqVars, lblVars, posting, cursor, wreq, ast>>

-----------------------------------------------------------------------------
(* wait_for_request(): the loop of a waiting process                       *)

DeadOwners_none == {}                     \* mutant: nobody is probed
DeadOwners_inverted ==                    \* mutant: the test is the wrong way round
  {q \in lhb_owners : ~Dead(q)}
DeadOwners == {q \in lhb_owners : Dead(q)}

(* The loop ends when the request is no longer pending, which is read, and *)
(* the owner block cleaned up, without the mutex.  The caller returns or   *)
(* has a rejected request to take back.  A process at "exit" has seen that *)
(* its request is decided while it had the mutex.                          *)
wait_exit(o) ==
  /\ pc[o] \in {"wait", "exit"}
  /\ ast[o] = NULL
  /\ ~Pending(wreq[o])
  /\ own_pending' = [own_pending EXCEPT ![o] = NULL]
  /\ own_flags' = [own_flags EXCEPT ![o] = @ \ {"timeout"}]
  /\ IF "rejected" \in lrq_flags[wreq[o]]
     THEN pc' = [pc EXCEPT ![o] = "denied"] /\ UNCHANGED wreq
     ELSE pc' = [pc EXCEPT ![o] = "idle"] /\ wreq' = [wreq EXCEPT ![o] = NULL]
  /\ UNCHANGED <<lrqVars, lblVars, own_signaled, lhb_owners, mutexVars, ast>>

(* Both LOCK_enq and LOCK_convert take a rejected request back in a        *)
(* section of their own.  (convert() resets lrq_requested after it called  *)
(* post_pending(), which does not look at a request that is not pending.)  *)
deny_enq(o) ==
  /\ pc[o] = "denied"
  /\ ast[o] = NULL
  /\ MutexFree
  /\ lrq_state[wreq[o]] = LCK_none
  /\ release_request(wreq[o])
  /\ EndSection(o, lrq_lock[wreq[o]], WaitersWithout(wreq[o]), {})
  /\ release(o, OwnBlocks(o) \ {wreq[o]}, {})
  /\ pc' = [pc EXCEPT ![o] = "idle"]
  /\ wreq' = [wreq EXCEPT ![o] = NULL]
  /\ UNCHANGED <<own_pending, own_flags, lhb_owners>>

deny_convert(o) ==
  /\ pc[o] = "denied"
  /\ ast[o] = NULL
  /\ MutexFree
  /\ lrq_state[wreq[o]] # LCK_none
  /\ lrq_requested' = [lrq_requested EXCEPT ![wreq[o]] = lrq_state[wreq[o]]]
  /\ EndSection(o, lrq_lock[wreq[o]], lbl_pending[lrq_lock[wreq[o]]], {})
  /\ release(o, OwnBlocks(o), {})
  /\ pc' = [pc EXCEPT ![o] = "idle"]
  /\ wreq' = [wreq EXCEPT ![o] = NULL]
  /\ UNCHANGED <<lrq_lock, lrq_owner, lrq_state, lrq_flags, lrq_ast,
                 lblVars, own_pending, own_flags, lhb_owners>>

(* Take the mutex in the loop and find the request decided meanwhile.      *)
wait_resolved(o) ==
  /\ pc[o] = "wait"
  /\ ast[o] = NULL
  /\ MutexFree
  /\ ~Pending(wreq[o])
  /\ own_flags' = [own_flags EXCEPT ![o] = @ \ {"wakeup"}]
  /\ pc' = [pc EXCEPT ![o] = "exit"]
  /\ EndSection(o, NULL, 0, {})
  /\ release(o, OwnBlocks(o), {})
  /\ UNCHANGED <<lrqVars, lblVars, own_pending, lhb_owners, wreq>>

(* Take the mutex in the loop and find the request still pending.          *)
StillPending(o) ==
  /\ pc[o] = "wait"
  /\ ast[o] = NULL
  /\ MutexFree
  /\ Pending(wreq[o])

Reject(r) == [lrq_flags EXCEPT ![r] = (@ \ {"pending"}) \cup {"rejected"}]

(* The time the caller was ready to wait is over.                          *)
wait_timeout(o) ==
  LET r == wreq[o]
  IN /\ StillPending(o)
     /\ "timeout" \in own_flags[o]
     /\ lrq_flags' = Reject(r)
     /\ lbl_pending' = [lbl_pending EXCEPT ![lrq_lock[r]] = @ - 1]
     /\ own_flags' = [own_flags EXCEPT ![o] = @ \ {"wakeup"}]
     /\ pc' = [pc EXCEPT ![o] = "exit"]
     /\ EndSection(o, NULL, 0, {})
     /\ release(o, OwnBlocks(o), {})
     /\ UNCHANGED <<lrq_lock, lrq_owner, lrq_requested, lrq_state, lrq_ast,
                    lbl_requests, lbl_counts, lbl_state,
                    own_pending, lhb_owners, wreq>>

(* Somebody woke the process up: it notifies the holders that block it.    *)
wait_woken(o) ==
  LET r == wreq[o]
  IN /\ StillPending(o)
     /\ "wakeup" \in own_flags[o]
     /\ own_flags' = [own_flags EXCEPT ![o] = @ \ {"wakeup"}]
     /\ post_blockage(o, lrq_lock[r], r, lrq_requested[r], lrq_flags)
     /\ UNCHANGED <<lrq_lock, lrq_owner, lrq_requested, lrq_state, lrq_ast, lblVars,
                    own_pending, lhb_owners, pc, wreq>>

(* The process waited for a scan interval: probe_owners() purges the dead, *)
(* then, with the mutex still held, it looks for a deadlock.  It looked    *)
(* for a wakeup before it took the mutex: one that came later is cleared.  *)
wait_probe(o) ==
  /\ StillPending(o)
  /\ own_flags' = [own_flags EXCEPT ![o] = @ \ {"wakeup"}]
  /\ pc' = [pc EXCEPT ![o] = "scan"]
  /\ lhb_active' = o
  /\ posting' = NULL
  /\ cursor' = 1
  /\ purging' = DeadOwners
  /\ UNCHANGED <<lrqVars, lblVars, own_pending, own_signaled, lhb_owners, wreq, ast>>

-----------------------------------------------------------------------------
(* deadlock_scan() and deadlock_walk()                                     *)

Before(b, r) ==
  LET q == lbl_requests[lrq_lock[r]]
  IN \E i, j \in DOMAIN q : i < j /\ q[i] = b /\ q[j] = r

(* The requests that the walk takes to block request r.  A conversion, and *)
(* any request when grants are not ordered, is blocked by the levels       *)
(* granted; a new request also by what was asked for ahead of it.          *)
WalkBlocks_ordered(r) ==                  \* mutant: conversions keep the order too
  {b \in RequestsOf(lrq_lock[r]) \ {r} :
     /\ Before(b, r) /\ ~COMPATIBLE(lrq_requested[r], MAX(lrq_state[b], lrq_requested[b]))
     /\ "timeout" \notin own_flags[lrq_owner[b]]}
WalkBlocks_timeout(r) ==                  \* mutant: waits with a time out count
  {b \in RequestsOf(lrq_lock[r]) \ {r} :
     IF ~LOCK_ordering \/ lrq_state[r] > LCK_null
     THEN ~COMPATIBLE(lrq_requested[r], lrq_state[b])
     ELSE Before(b, r) /\ ~COMPATIBLE(lrq_requested[r], MAX(lrq_state[b], lrq_requested[b]))}
WalkBlocks(r) ==
  {b \in RequestsOf(lrq_lock[r]) \ {r} :
     /\ IF ~LOCK_ordering \/ lrq_state[r] > LCK_null
        THEN ~COMPATIBLE(lrq_requested[r], lrq_state[b])
        ELSE Before(b, r) /\ ~COMPATIBLE(lrq_requested[r], MAX(lrq_state[b], lrq_requested[b]))
     /\ "timeout" \notin own_flags[lrq_owner[b]]}

(* A block whose owner may still give way.                                 *)
MaybeGivesWay_signal(b) ==                \* mutant: only a signal on its way counts
  own_signaled[lrq_owner[b]]
MaybeGivesWay(b) ==
  \/ own_signaled[lrq_owner[b]]
  \/ OwnBlocks(lrq_owner[b]) # {}
  \/ "just_granted" \in lrq_flags[b]

(* The walk goes on from a block to the request its owner is waiting for.  *)
WalkOn(b) ==
  /\ ~MaybeGivesWay(b)
  /\ own_pending[lrq_owner[b]] # NULL
  /\ Pending(own_pending[lrq_owner[b]])

(* deadlock_walk(): a depth-first search in the order of the queues that   *)
(* returns the first request it finds again on its own path.               *)
deadlock_walk(r) ==
  LET walk[path \in SUBSET Requests, p \in Requests] ==
        IF p \in path THEN p
        ELSE LET q == lbl_requests[lrq_lock[p]]
                 Below(i) == walk[path \cup {p}, own_pending[lrq_owner[q[i]]]]
                 found == {i \in DOMAIN q : /\ q[i] \in WalkBlocks(p)
                                            /\ WalkOn(q[i])
                                            /\ Below(i) # NULL}
             IN IF found = {} THEN NULL
                ELSE Below(CHOOSE i \in found : \A j \in found : i <= j)
  IN walk[{}, r]

(* Without a victim the search has visited all that is reachable from r.   *)
MaybeDeadlock(r) ==
  LET visited[n \in Nat] ==
        IF n = 0 THEN {r}
        ELSE visited[n - 1] \cup
             {own_pending[lrq_owner[b]] :
                b \in {c \in UNION {WalkBlocks(p) : p \in visited[n - 1]} : WalkOn(c)}}
  IN \E p \in visited[Cardinality(Requests)] : \E b \in WalkBlocks(p) : MaybeGivesWay(b)

InScan(o) ==
  /\ InLoop(o)
  /\ pc[o] = "scan"
  /\ posting = NULL
  /\ purging = {}

MustScan(o) == own_flags[o] \cap {"scanned", "timeout"} = {}

(* The victim is rejected; its owner is woken up unless it is the one that *)
(* scans.                                                                  *)
reject_victim_silent(o, victim) ==        \* mutant: nobody is woken up
  LET q == lrq_owner[victim]
  IN /\ lrq_flags' = Reject(victim)
     /\ lbl_pending' = [lbl_pending EXCEPT ![lrq_lock[victim]] = @ - 1]
     /\ own_pending' = [own_pending EXCEPT ![q] = NULL]
     /\ own_flags' = [own_flags EXCEPT ![q] = @ \ {"scanned"}]
reject_victim(o, victim) ==
  LET q == lrq_owner[victim]
  IN /\ lrq_flags' = Reject(victim)
     /\ lbl_pending' = [lbl_pending EXCEPT ![lrq_lock[victim]] = @ - 1]
     /\ own_pending' = [own_pending EXCEPT ![q] = NULL]
     /\ own_flags' = [own_flags EXCEPT ![q] =
           (@ \ {"scanned"}) \cup (IF victim # wreq[o] THEN {"wakeup"} ELSE {})]

(* A deadlock: the process goes on waiting, or falls out of the loop if it *)
(* has rejected its own request.  (The walk only follows pending requests, *)
(* so that is what it returns.)                                            *)
scan_deadlock(o) ==
  /\ InScan(o)
  /\ Pending(wreq[o])
  /\ MustScan(o)
  /\ \E victim \in PendingRequests :
       /\ victim = deadlock_walk(wreq[o])
       /\ reject_victim(o, victim)
       /\ pc' = [pc EXCEPT ![o] = IF victim = wreq[o] THEN "exit" ELSE "wait"]
  /\ EndSection(o, NULL, 0, {})
  /\ release(o, OwnBlocks(o), {})
  /\ UNCHANGED <<lrq_lock, lrq_owner, lrq_requested, lrq_state, lrq_ast,
                 lbl_requests, lbl_counts, lbl_state, lhb_owners, wreq>>

(* No deadlock, or none looked for: post the blockage again.  The owner is *)
(* marked so that it scans no more when the search left nothing open.      *)
scan_repost_silent(o) ==                  \* mutant: the blockage is not posted
  LET r == wreq[o]
  IN /\ InScan(o)
     /\ Pending(r)
     /\ MustScan(o) => deadlock_walk(r) = NULL
     /\ own_flags' = [own_flags EXCEPT ![o] =
           IF MustScan(o) /\ ~MaybeDeadlock(r) THEN @ \cup {"scanned"} ELSE @]
     /\ pc' = [pc EXCEPT ![o] = "wait"]
     /\ EndSection(o, NULL, 0, {})
     /\ release(o, OwnBlocks(o), {})
     /\ UNCHANGED <<lrqVars, lblVars, own_pending, lhb_owners, wreq>>
scan_repost(o) ==
  LET r == wreq[o]
  IN /\ InScan(o)
     /\ Pending(r)
     /\ MustScan(o) => deadlock_walk(r) = NULL
     /\ own_flags' = [own_flags EXCEPT ![o] =
           IF MustScan(o) /\ ~MaybeDeadlock(r) THEN @ \cup {"scanned"} ELSE @]
     /\ pc' = [pc EXCEPT ![o] = "wait"]
     /\ post_blockage(o, lrq_lock[r], r, lrq_requested[r], lrq_flags)
     /\ UNCHANGED <<lrq_lock, lrq_owner, lrq_requested, lrq_state, lrq_ast, lblVars,
                    own_pending, lhb_owners, wreq>>

(* Purging the dead has granted the request.                               *)
scan_granted(o) ==
  /\ InScan(o)
  /\ ~Pending(wreq[o])
  /\ pc' = [pc EXCEPT ![o] = "exit"]
  /\ EndSection(o, NULL, 0, {})
  /\ release(o, OwnBlocks(o), {})
  /\ UNCHANGED <<lrqVars, lblVars, own_pending, own_flags, lhb_owners, wreq>>

-----------------------------------------------------------------------------
(* Blocking ASTs                                                           *)

(* The signal handler blocking_action(), or release() of the owner, enters *)
(* blocking_action2(): it takes one request off own_blocks and calls its   *)
(* routine with the mutex released ...                                     *)
Signaled(o) ==
  /\ pc[o] \in {"idle", "wait", "exit", "denied"}
  /\ MutexFree
  /\ \/ ast[o] = NULL /\ own_signaled[o]
     \/ ast[o] = "loop"

blocking_action(o) ==
  /\ Signaled(o)
  /\ \E r \in OwnBlocks(o) :
       /\ lrq_flags' = [lrq_flags EXCEPT ![r] = (@ \ {"blocking"}) \cup {"blocking_seen"}]
       /\ ast' = [ast EXCEPT ![o] = r]
  /\ UNCHANGED <<lrq_lock, lrq_owner, lrq_requested, lrq_state, lrq_ast, lblVars,
                 ownVars, mutexVars, pc, wreq>>

(* ... and clears OWN_signaled once there is no more to do.                *)
blocking_action_end(o) ==
  /\ Signaled(o)
  /\ OwnBlocks(o) = {}
  /\ own_signaled' = [own_signaled EXCEPT ![o] = FALSE]
  /\ ast' = [ast EXCEPT ![o] = NULL]
  /\ UNCHANGED <<lrqVars, lblVars, own_pending, own_flags, lhb_owners, mutexVars, pc, wreq>>

(* A signal that arrives while the process is inside the lock manager      *)
(* (LOCK_asts) is dropped, without the mutex.                              *)
signal_dropped(o) ==
  /\ pc[o] \notin {"none", "dead"}
  /\ ast[o] = NULL
  /\ own_signaled[o]
  /\ own_signaled' = [own_signaled EXCEPT ![o] = FALSE]
  /\ UNCHANGED <<lrqVars, lblVars, own_pending, own_flags, lhb_owners, mutexVars, procVars>>

(* The routine: it gives the lock up, downgrades it, or only takes note.   *)
(* A routine never touches the request its process is waiting for.         *)
InRoutine(o) == ast[o] \in Requests

ast_release(o) ==
  /\ InRoutine(o)
  /\ MutexFree
  /\ ast[o] # wreq[o]
  /\ dequeue(o, ast[o])

ast_downgrade(o) ==
  /\ InRoutine(o)
  /\ MutexFree
  /\ ast[o] # wreq[o]
  /\ downgrade(o, ast[o])

ast_note(o) ==
  /\ InRoutine(o)
  /\ ast' = [ast EXCEPT ![o] = "loop"]
  /\ UNCHANGED <<lrqVars, lblVars, ownVars, mutexVars, pc, wreq>>

-----------------------------------------------------------------------------
(* LOCK_init, LOCK_fini and the death of a process                         *)

(* create_owner() first purges an owner block left by a dead process with  *)
(* the same identity ...                                                   *)
LOCK_init_purge(o) ==
  /\ pc[o] = "none"
  /\ MutexFree
  /\ o \in lhb_owners
  /\ pc' = [pc EXCEPT ![o] = "init"]
  /\ EndSection(o, NULL, 0, {o})
  /\ UNCHANGED <<lrqVars, lblVars, ownVars, wreq, ast>>

(* ... then makes a new one and purges every other owner that is dead.     *)
LOCK_init(o) ==
  /\ \/ pc[o] = "none" /\ MutexFree
     \/ pc[o] = "init" /\ lhb_active = o /\ posting = NULL /\ purging = {}
  /\ o \notin lhb_owners
  /\ pc' = [pc EXCEPT ![o] = "idle"]
  /\ lhb_owners' = lhb_owners \cup {o}
  /\ EndSection(o, NULL, 0, DeadOwners)
  /\ UNCHANGED <<lrqVars, lblVars, own_pending, own_flags, own_signaled, wreq, ast>>

(* The last user of the owner block is gone (LOCK_fini), or the process    *)
(* exits in good order (exit_handler).                                     *)
LOCK_fini(o) ==
  /\ MayCall(o)
  /\ pc' = [pc EXCEPT ![o] = "fini"]
  /\ EndSection(o, NULL, 0, {o})
  /\ UNCHANGED <<lrqVars, lblVars, ownVars, wreq, ast>>

(* A process dies.  Its blocks stay in the table.  If it held the mutex the *)
(* operating system frees it, and what the section had left to do is lost. *)
Crash(o) ==
  /\ o \in MayCrash
  /\ pc[o] \notin {"none", "dead"}
  /\ lhb_active # o
  /\ pc' = [pc EXCEPT ![o] = "dead"]
  /\ wreq' = [wreq EXCEPT ![o] = NULL]
  /\ ast' = [ast EXCEPT ![o] = NULL]
  /\ UNCHANGED <<lrqVars, lblVars, ownVars, mutexVars>>

CrashHolder(o) ==
  /\ HolderMayCrash
  /\ o \in MayCrash
  /\ lhb_active = o
  /\ pc' = [pc EXCEPT ![o] = "dead"]
  /\ wreq' = [wreq EXCEPT ![o] = NULL]
  /\ ast' = [ast EXCEPT ![o] = NULL]
  /\ lhb_active' = NULL
  /\ posting' = NULL
  /\ cursor' = 1
  /\ purging' = {}
  /\ UNCHANGED <<lrqVars, lblVars, ownVars>>

(* A new process with the identity of a dead one.                          *)
Restart(o) ==
  /\ pc[o] = "dead"
  /\ pc' = [pc EXCEPT ![o] = "none"]
  /\ UNCHANGED <<lrqVars, lblVars, ownVars, mutexVars, wreq, ast>>

-----------------------------------------------------------------------------
Init ==
  /\ lrq_lock = [r \in Requests |-> NULL]
  /\ lrq_owner = [r \in Requests |-> NULL]
  /\ lrq_requested = [r \in Requests |-> LCK_none]
  /\ lrq_state = [r \in Requests |-> LCK_none]
  /\ lrq_flags = [r \in Requests |-> {}]
  /\ lrq_ast = [r \in Requests |-> FALSE]
  /\ lbl_requests = [l \in Locks |-> << >>]
  /\ lbl_counts = [l \in Locks |-> [v \in Level |-> 0]]
  /\ lbl_state = [l \in Locks |-> LCK_none]
  /\ lbl_pending = [l \in Locks |-> 0]
  /\ own_pending = [o \in Owners |-> NULL]
  /\ own_flags = [o \in Owners |-> {}]
  /\ own_signaled = [o \in Owners |-> FALSE]
  /\ lhb_owners = {}
  /\ lhb_active = NULL
  /\ posting = NULL
  /\ cursor = 1
  /\ purging = {}
  /\ pc = [o \in Owners |-> "none"]
  /\ wreq = [o \in Owners |-> NULL]
  /\ ast = [o \in Owners |-> NULL]

Calls(o) == LOCK_enq(o) \/ LOCK_convert(o) \/ LOCK_deq(o) \/ LOCK_downgrade(o)
Loops(o) == \/ post_pending_grant(o) \/ post_pending_block(o) \/ post_pending_end(o)
            \/ purge_request(o) \/ purge_owner(o)
Waiting(o) == \/ wait_exit(o) \/ wait_resolved(o) \/ deny_enq(o) \/ deny_convert(o)
              \/ wait_timeout(o) \/ wait_woken(o) \/ wait_probe(o)
              \/ scan_deadlock(o) \/ scan_repost(o) \/ scan_granted(o)
Blocking(o) == \/ blocking_action(o) \/ blocking_action_end(o) \/ signal_dropped(o)
               \/ ast_release(o) \/ ast_downgrade(o) \/ ast_note(o)
Process(o) == \/ LOCK_init_purge(o) \/ LOCK_init(o) \/ LOCK_fini(o)
              \/ Crash(o) \/ CrashHolder(o) \/ Restart(o)

Next == \E o \in Owners :
  Calls(o) \/ Loops(o) \/ Waiting(o) \/ Blocking(o) \/ Process(o)

Spec == Init /\ [][Next]_vars

-----------------------------------------------------------------------------
(* Safety                                                                  *)

(* What the lock manager is for: two requests granted on one lock are      *)
(* compatible, whatever grant(), convert() and post_pending() decided from *)
(* the counts.                                                             *)
GrantedCompatible ==
  \A r, s \in Requests :
    r # s /\ lrq_lock[r] # NULL /\ lrq_lock[r] = lrq_lock[s]
      => COMPATIBLE(lrq_state[r], lrq_state[s])

HolderCounts ==
  \A l \in Locks : \A v \in LCK_null .. LCK_EX :
    lbl_counts[l][v] = Cardinality({r \in RequestsOf(l) : lrq_state[r] = v})
HighestLevel ==
  \A l \in Locks : lbl_state[l] = lock_state(lbl_counts[l])
PendingCount ==
  \A l \in Locks : lbl_pending[l] = Cardinality({r \in RequestsOf(l) : Pending(r)})

(* The lock block summarises its queue (the checks of validate_lock()):    *)
(* the counts, the state and the number of pending requests that every     *)
(* decision to grant is taken from.                                        *)
SummaryOfQueue == HolderCounts /\ HighestLevel /\ PendingCount

QueueOfLock ==
  \A l \in Locks :
    LET q == lbl_requests[l]
    IN /\ \A i \in 1 .. Len(q) : lrq_lock[q[i]] = l
       /\ \A r \in RequestsOf(l) : \E i \in 1 .. Len(q) : q[i] = r
       /\ \A i, j \in 1 .. Len(q) : q[i] = q[j] => i = j
FreeRequests ==
  \A r \in Requests :
    lrq_lock[r] = NULL => lrq_owner[r] = NULL /\ lrq_state[r] = LCK_none /\ lrq_flags[r] = {}
OwnersInTable ==
  /\ \A r \in Requests : lrq_lock[r] # NULL => lrq_owner[r] \in lhb_owners
  /\ \A o \in Owners : Attached(o) => o \in lhb_owners
WaitersOwn ==
  \A o \in Owners :
    /\ InCall(o) => wreq[o] \in Requests /\ lrq_owner[wreq[o]] = o
    /\ ast[o] \in Requests => lrq_owner[ast[o]] = o
    /\ ~Attached(o) => ast[o] = NULL
PendingIsWaited ==
  \A r \in Requests :
    Pending(r) => LET o == lrq_owner[r]
                  IN Attached(o) => pc[o] \in {"wait", "scan"} /\ wreq[o] = r
PurgedAreGone ==
  /\ \A q \in purging : ~Attached(q)
  /\ lhb_active = NULL => purging = {}

(* The links of the table: the queue of a lock holds each of its requests  *)
(* once; every request belongs to an owner block in use; a process that    *)
(* waits, or runs a blocking routine, still owns the request it works on   *)
(* although others purge owners they found dead; a pending request is one  *)
(* its owner waits for, or the owner is dead; nobody alive is purged.      *)
Links == /\ QueueOfLock
         /\ FreeRequests
         /\ OwnersInTable
         /\ WaitersOwn
         /\ PendingIsWaited
         /\ PurgedAreGone

(* No grant is forgotten: when nobody works on the table, a request that   *)
(* is pending without one pending ahead of it does conflict with a holder, *)
(* unless a rejected request has still to be taken back by its owner,      *)
(* which posts the lock again.                                             *)
NoForgottenGrant ==
  lhb_active = NULL =>
    \A r \in Requests :
      Pending(r) =>
        LET l == lrq_lock[r]
        IN \/ ~COMPATIBLE(lrq_requested[r], StateWithout(l, r))
           \/ LOCK_ordering /\ \E p \in RequestsOf(l) : Pending(p) /\ Before(p, r)
           \/ \E p \in RequestsOf(l) : /\ "rejected" \in lrq_flags[p]
                                        /\ lrq_requested[p] # lrq_state[p]

(* A process asleep in wait_for_request() whose request has been decided   *)
(* has been woken up: no wakeup is lost between grant(), or the rejection  *)
(* by the deadlock scan of another process, and the loop that reads the    *)
(* request unlocked.  Who rejects its own request leaves the loop.         *)
DecidedIsWoken ==
  \A o \in Owners :
    pc[o] = "wait" /\ ~Pending(wreq[o]) => "wakeup" \in own_flags[o]

-----------------------------------------------------------------------------
(* Deadlocks, defined from what post_pending() can grant                   *)

(* A set D of pending requests is stuck if none of their owners waits with *)
(* a time out or has a blocking routine to run, and post_pending() would   *)
(* grant none of them even if all other owners released all they have.     *)
Stuck(D) ==
  LET owners == {lrq_owner[r] : r \in D}
      Rest(l) == {b \in RequestsOf(l) : lrq_owner[b] \in owners}
      Conflict(p) == \E b \in Rest(lrq_lock[p]) \ {p} :
                        ~COMPATIBLE(lrq_requested[p], lrq_state[b])
      Ahead(p) == {q \in D : lrq_lock[q] = lrq_lock[p] /\ Before(q, p)}
  IN /\ \A o \in owners : /\ InWait(o) \/ pc[o] \in {"dead", "none"}
                          /\ "timeout" \notin own_flags[o]
                          /\ ast[o] = NULL /\ ~own_signaled[o]
     /\ \A r \in D : \A b \in Rest(lrq_lock[r]) \ D :
          ~COMPATIBLE(lrq_requested[r], lrq_state[b]) /\ lrq_ast[b]
            => "blocking_seen" \in lrq_flags[b]
     /\ \A p \in D : Conflict(p) \/ (LOCK_ordering /\ \E q \in Ahead(p) : Conflict(q))

Hopeless(r) == \E D \in SUBSET PendingRequests : r \in D /\ Stuck(D)

(* A request is part of a deadlock if it is in a smallest stuck set; one   *)
(* that merely waits behind a deadlock is hopeless but not part of it.     *)
Deadlocked(r) ==
  \E D \in SUBSET PendingRequests :
    /\ r \in D
    /\ Stuck(D)
    /\ \A E \in SUBSET D : Stuck(E) => E \in {{}, D}

(* A process that deadlock_scan() marks OWN_scanned never looks again, so  *)
(* the mark is only right for a request that is not in a deadlock.         *)
ScannedIsNotDeadlocked ==
  [][\A o \in Owners : "scanned" \in own_flags'[o] \ own_flags[o]
                           => ~Deadlocked(wreq[o])]_vars

(* deadlock_walk() never sacrifices a request that could still be granted: *)
(* a request rejected although its caller waits without limit was stuck.   *)
VictimIsDeadlocked ==
  [][\A r \in Requests :
       /\ "rejected" \in lrq_flags'[r] \ lrq_flags[r]
       /\ "timeout" \notin own_flags[lrq_owner[r]]
       => Hopeless(r)]_vars

(* Fairness between waiters: with LOCK_ordering a new request never gets a *)
(* level ahead of one that was already waiting in front of it.             *)
NoOvertaking ==
  [][LOCK_ordering =>
       \A r \in Requests, v \in Levels \ {LCK_null} :
         /\ lrq_state[r] = LCK_none
         /\ lrq_state'[r] = v
         => \A p \in RequestsOf(lrq_lock'[r]) \ {r} :
              Pending(p) => ~Pending(p)' \/ Before(r, p)']_vars

-----------------------------------------------------------------------------
(* Liveness                                                                *)

(* What the scheduling gives: a process runs the section it has entered to *)
(* its end, is not passed over for ever at the mutex, wakes up after the   *)
(* scan interval, and runs the blocking routines it is signaled for (a     *)
(* signal is sent again every scan interval, and is not dropped every      *)
(* time).                                                                  *)
SchedulerFairness ==
  \A o \in Owners :
    /\ WF_vars(Loops(o) \/ scan_deadlock(o) \/ scan_repost(o) \/ scan_granted(o))
    /\ WF_vars(wait_exit(o))
    /\ SF_vars(deny_enq(o) \/ deny_convert(o))
    /\ SF_vars(wait_probe(o) \/ wait_timeout(o) \/ wait_woken(o))
    /\ SF_vars(blocking_action(o) \/ blocking_action_end(o))
    /\ WF_vars(ast_note(o))

(* What the callers give: every process attaches and detaches in the end.  *)
CallerFairness ==
  \A o \in Owners : SF_vars(LOCK_init_purge(o) \/ LOCK_init(o)) /\ SF_vars(LOCK_fini(o))

SchedulerSpec == Spec /\ SchedulerFairness
FairSpec == SchedulerSpec /\ CallerFairness

(* Nobody waits for ever: every call of wait_for_request() ends, by a      *)
(* grant, a time out or as the victim of a deadlock, whatever the other    *)
(* processes do and even if they die.                                      *)
EveryWaitEnds == \A o \in Owners : InWait(o) ~> ~InWait(o)

(* A process that waits makes itself heard: a holder that conflicts with   *)
(* it and has a blocking routine gets the notice and runs the routine, or  *)
(* gives way before.  It holds although signals are dropped, wakeups are   *)
(* missed and the holder never calls the lock manager by itself.           *)
UnseenBy(o, r) ==
  /\ pc[o] \in {"wait", "scan"}
  /\ Pending(wreq[o])
  /\ r \in RequestsOf(lrq_lock[wreq[o]]) \ {wreq[o]}
  /\ ~COMPATIBLE(lrq_requested[wreq[o]], lrq_state[r])
  /\ lrq_ast[r]
  /\ "blocking_seen" \notin lrq_flags[r]
EveryBlockageIsSeen ==
  \A o \in Owners, r \in Requests : UnseenBy(o, r) ~> ~UnseenBy(o, r)
=============================================================================
