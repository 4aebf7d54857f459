---------------------------- MODULE Transactions ----------------------------
(***************************************************************************)
(* Transactions of the Classic server (src/jrd/tra.cpp) and the process's  *)
(* cache of transaction states (src/jrd/tpc.cpp).                          *)
(*                                                                         *)
(* The header page counts transactions and records the oldest interesting, *)
(* oldest active and oldest snapshot transaction.  The inventory pages     *)
(* (TIP) hold two bits per transaction.  A transaction holds a lock on its *)
(* own number whose data word is the oldest transaction its snapshot takes *)
(* for active; the youngest record version that others may remove is       *)
(* computed from these words.  All of this is read at different moments.   *)
(*                                                                         *)
(* A process runs one transaction at a time.  Records are abstracted to    *)
(* "transaction n has left record versions": data[n] says where they are.  *)
(***************************************************************************)
EXTENDS Integers, FiniteSets, FiniteSetsExt, Functions

CONSTANTS
  Processes,          \* server processes, one attachment each
  NULL,
  MAX_TRA_NUMBER,     \* the largest transaction number
  transPerTIP,        \* transactions on an inventory page
  TRA_ACTIVE_CLEANUP, \* every so many starts dead transactions are looked for
  sweep_interval,     \* distance that forces a sweep
  Modes,              \* kinds of transactions that are started
  MaxPlain,           \* bound: transactions up to this number cost nothing
  MaxRare,            \* bound: deaths, prepares, retainings, transactions that are
                      \* not snapshots, and numbers beyond MaxPlain
  RetainFreely        \* also retain in limbo or while others are in TRA_start()

ASSUME NumbersAssumption ==
  /\ MAX_TRA_NUMBER \in Nat /\ transPerTIP \in Nat \ {0}
  /\ TRA_ACTIVE_CLEANUP \in Nat \ {0} /\ sweep_interval \in Nat
  /\ Modes \subseteq {"snapshot", "read_committed", "read_only"}
  /\ {"none", "disk", NULL} \cap Processes = {}

VARIABLES
  hdr,      \* header page: next, oit, oat, ost
  tip,      \* inventory pages: number -> state
  data,     \* record versions of n: "none", "disk", or the process that has them cached
  backed,   \* p -> transactions whose versions p has backed out in its cache only
  lock,     \* data word of the lock on a transaction, 0 without a lock
  sweeper,  \* holder of the sweep lock
  dbb,      \* p -> oldest_transaction, oldest_active, oldest_snapshot of its Database
  tpc,      \* p -> cached states, a function on the numbers of the cached pages
  tra,      \* p -> its transaction
  pc,       \* p -> where it is
  loc,      \* p -> its local variables
  rare

vars == <<hdr, tip, data, backed, lock, sweeper, dbb, tpc, tra, pc, loc, rare>>

Page(n) == n \div transPerTIP
PageStart(s) == s * transPerTIP
Numbers == 0 .. PageStart(Page(MAX_TRA_NUMBER) + 1) - 1
Started == 1 .. MAX_TRA_NUMBER
NoCache == [n \in {} |-> "active"]

NoTransaction ==
  [number |-> 0, top |-> 0, oldest |-> 0, oldest_active |-> 0, mode |-> "none",
   states |-> NoCache, write |-> FALSE, prepared |-> FALSE, sub |-> {}]
NoLocals ==
  [n |-> 0, active |-> 0, oldest_active |-> 0, ost |-> 0, s |-> 0, last |-> 0,
   held |-> -1, oldest |-> 0, state |-> "active", commit |-> FALSE,
   then |-> "idle", caller |-> "idle"]

(* PAG_format_header() and the first attachments, before any transaction.  *)
Init ==
  /\ hdr = [next |-> 0, oit |-> 1, oat |-> 0, ost |-> 0]
  /\ tip = [n \in Numbers |-> "active"]
  /\ data = [n \in Started |-> "none"]
  /\ backed = [p \in Processes |-> {}]
  /\ lock = [n \in Started |-> 0]
  /\ sweeper = NULL
  /\ dbb = [p \in Processes |-> [oit |-> 1, oat |-> 0, ost |-> 0]]
  /\ tpc = [p \in Processes |-> NoCache]
  /\ tra = [p \in Processes |-> NoTransaction]
  /\ pc = [p \in Processes |-> "idle"]
  /\ loc = [p \in Processes |-> NoLocals]
  /\ rare = 0

At(p, label) == pc[p] = label
Goto(p, label) == pc' = [pc EXCEPT ![p] = label]
Done(p, label) == Goto(p, label) /\ loc' = [loc EXCEPT ![p] = NoLocals]

(* Steps that count against the bound.                                     *)
Rare(special, number) ==
  /\ rare' = rare + (IF special THEN 1 ELSE 0) + (IF number > MaxPlain THEN 1 ELSE 0)
  /\ rare' <= MaxRare

-----------------------------------------------------------------------------
(* The cache of states.  Blocks of one inventory page each are kept in     *)
(* order; a block is found as the first one that ends behind the number.   *)

Blocks(c) == {Page(n) : n \in DOMAIN c}
CacheEnd(c) == PageStart(Max(Blocks(c)) + 1)
CacheBase(c) == PageStart(Min(Blocks(c)))

(* A page has been read: leading blocks below oit are dropped and the      *)
(* page's block is overwritten.                                            *)
TPC_update_cache(c, oit, s) ==
  [n \in {m \in DOMAIN c : oit < PageStart(Page(m) + 1)} |->
     IF Page(n) = s THEN tip[n] ELSE c[n]]

TPC_set_state(c, n, state) ==
  LET found == {b \in Blocks(c) : n < PageStart(b + 1)}
  IN IF found = {} THEN c
     ELSE [c EXCEPT ![PageStart(Min(found)) + (n % transPerTIP)] = state]

TPC_cache_state(c, n) ==
  IF n = 0 \/ n < CacheBase(c) THEN "committed"
  ELSE IF n < CacheEnd(c) THEN c[n]
  ELSE "active"

(* State of transaction n for the transaction of p, without the further    *)
(* look at a cached state that is not final.                               *)
TRA_snapshot_state(p, n) ==
  LET t == tra[p]
  IN IF n = t.number THEN "us"
     ELSE IF n < t.oldest \/ n = 0 THEN "committed"
     ELSE IF t.mode # "snapshot" THEN TPC_cache_state(tpc[p], n)
     ELSE IF n \in t.sub THEN "committed"
     ELSE IF n > t.top THEN "active"
     ELSE t.states[n]

(* The states TRA_start() goes through: the cache or the new snapshot.     *)
StartState(p, n) ==
  IF tra[p].mode = "snapshot" THEN tra[p].states[n] ELSE TPC_cache_state(tpc[p], n)

(* An inventory page is held for reading until the next one is fetched.    *)
Writable(p, s) == \A q \in Processes \ {p} : loc[q].held # s

TRA_set_state(p, n, state) ==
  /\ Writable(p, Page(n))
  /\ tip' = [tip EXCEPT ![n] = state]
  /\ tpc' = [tpc EXCEPT ![p] =
       TPC_set_state(TPC_update_cache(@, dbb[p].oit, Page(n)), n, state)]

(* CCH_flush(): record versions and removals of p go to disk.              *)
CCH_flush(p) ==
  /\ data' = [n \in Started |->
       IF n \in backed[p] THEN "none" ELSE IF data[n] = p THEN "disk" ELSE data[n]]
  /\ backed' = [backed EXCEPT ![p] = {}]

-----------------------------------------------------------------------------
(* TRA_start().  The header page is held from bump_transaction_id() until  *)
(* the lock on the new number has been taken.                              *)

bump_transaction_id(p) ==
  /\ hdr.next < MAX_TRA_NUMBER
  /\ hdr' = [next |-> hdr.next + 1,
             oit |-> Max({hdr.oit, dbb[p].oit}),
             oat |-> Max({hdr.oat, dbb[p].oat}),
             ost |-> Max({hdr.ost, dbb[p].ost})]

(* Mutant: the lock is taken with the own number for its word.             *)
StartWord_number(mode, active, number) == number

(* The word the lock is taken with, before anything has been computed.     *)
StartWord(mode, active, number) == IF mode = "snapshot" THEN active ELSE number

(* Cached up to number?  Otherwise where the next block starts.            *)
TPC_initialize_tpc(c, number) ==
  IF c = NoCache THEN [extend |-> TRUE, from |-> 0]
  ELSE [extend |-> number >= CacheEnd(c), from |-> CacheEnd(c)]

TRA_start(p, mode) ==
  /\ At(p, "idle")
  /\ bump_transaction_id(p)
  /\ LET number == hdr'.next
         active == Max({hdr'.oat, hdr'.oit})
         cache == TPC_initialize_tpc(tpc[p], number)
         locals == [NoLocals EXCEPT !.active = active, !.ost = hdr'.ost]
     IN /\ tra' = [tra EXCEPT ![p] =
             [NoTransaction EXCEPT !.number = number, !.top = number, !.oldest = hdr'.oit,
                                   !.oldest_active = number, !.mode = mode]]
        /\ Rare(mode # "snapshot", number)
        /\ lock' = [lock EXCEPT ![number] = StartWord(mode, active, number)]
        /\ IF mode = "snapshot"
             THEN /\ Goto(p, "inventory")
                  /\ loc' = [loc EXCEPT ![p] = [locals EXCEPT
                       !.s = Page(hdr'.oit), !.last = Page(number), !.then = "scan"]]
             ELSE /\ Goto(p, IF cache.extend THEN "cache" ELSE "scan")
                  /\ loc' = [loc EXCEPT ![p] = IF cache.extend
                       THEN [locals EXCEPT !.s = cache.from, !.then = "scan"] ELSE locals]
  /\ UNCHANGED <<tip, data, backed, sweeper, dbb, tpc>>

(* No number is left, in the code's range or within the bounds: the start  *)
(* is refused.                                                             *)
TRA_start_refused(p) ==
  /\ At(p, "idle")
  /\ hdr.next >= IF rare < MaxRare THEN MAX_TRA_NUMBER ELSE MaxPlain
  /\ UNCHANGED vars

(* cache_transactions(), first part: new blocks, all zero, up to the       *)
(* newest transaction on the header page.                                  *)
cache_transactions(p) ==
  /\ At(p, "cache")
  /\ LET oldest == Max({loc[p].s, hdr.oit})
         new == {n \in Numbers : Page(n) \in Page(oldest) .. Page(hdr.next)}
     IN /\ tpc' = [tpc EXCEPT ![p] = [n \in DOMAIN @ \cup new |->
             IF n \in DOMAIN tpc[p] THEN tpc[p][n] ELSE "active"]]
        /\ loc' = [loc EXCEPT ![p].s = Page(oldest), ![p].last = Page(hdr.next),
                              ![p].oldest = hdr.oit]
  /\ Goto(p, "inventory")
  /\ UNCHANGED <<hdr, tip, data, backed, lock, sweeper, dbb, tra, rare>>

(* Blocks that end below the oldest interesting transaction of the header. *)
Trimmed(c, oldest) == [n \in {m \in DOMAIN c : oldest <= PageStart(Page(m) + 1)} |-> c[n]]

(* TRA_get_inventory(): one page, handed over to the next.                 *)
TRA_get_inventory(p) ==
  /\ At(p, "inventory")
  /\ LET s == loc[p].s
         last == s = loc[p].last
         c == TPC_update_cache(tpc[p], dbb[p].oit, s)
         snapshot == tra[p].mode = "snapshot" /\ loc[p].then = "scan"
     IN /\ tpc' = [tpc EXCEPT ![p] = IF last /\ ~snapshot THEN Trimmed(c, loc[p].oldest) ELSE c]
        /\ tra' = IF snapshot
                    THEN [tra EXCEPT ![p].states =
                            [n \in DOMAIN @ \cup {m \in tra[p].oldest .. tra[p].number :
                                                     Page(m) = s} |->
                               IF Page(n) = s THEN tip[n] ELSE @[n]]]
                    ELSE tra
        /\ loc' = [loc EXCEPT ![p].s = IF last THEN 0 ELSE s + 1,
                              ![p].last = IF last THEN 0 ELSE @,
                              ![p].oldest = IF last THEN 0 ELSE @,
                              ![p].held = IF last THEN -1 ELSE s,
                              ![p].then = IF last THEN "idle" ELSE @]
        /\ Goto(p, IF last THEN loc[p].then ELSE "inventory")
  /\ UNCHANGED <<hdr, tip, data, backed, lock, sweeper, dbb, rare>>

(* The oldest active transaction: the first one that is active in the      *)
(* snapshot or in the cache, and the word of its lock.  Without a lock it  *)
(* is dead, which every TRA_ACTIVE_CLEANUP-th start verifies and records.  *)
start_scan(p) ==
  /\ At(p, "scan")
  /\ LET t == tra[p]
         active == {n \in loc[p].active .. t.number - 1 : StartState(p, n) = "active"}
         first == Min(active)
         word == IF lock[first] = 0 THEN first ELSE lock[first]
         oldest_active == Min({t.number, word})
     IN \/ /\ active = {}
           /\ loc' = [loc EXCEPT ![p].oldest_active = t.number]
           /\ Goto(p, "finish")
           /\ UNCHANGED tra
        \/ /\ active # {}
           /\ lock[first] = 0 /\ t.number % TRA_ACTIVE_CLEANUP = 0 /\ loc[p].state = "active"
           /\ loc' = [loc EXCEPT ![p].n = first, ![p].active = first + 1, ![p].caller = "scan"]
           /\ Goto(p, "look")
           /\ UNCHANGED tra
        \/ /\ active # {}
           /\ ~(lock[first] = 0 /\ t.number % TRA_ACTIVE_CLEANUP = 0 /\ loc[p].state = "active")
           /\ tra' = [tra EXCEPT ![p].oldest_active = oldest_active]
           /\ loc' = [loc EXCEPT ![p].oldest_active = first]
           /\ Goto(p, IF oldest_active = loc[p].ost THEN "finish" ELSE "query")
  /\ UNCHANGED <<hdr, tip, data, backed, lock, sweeper, dbb, tpc, rare>>

(* LCK_query_data(): the smallest word of all transaction locks.           *)
start_query(p) ==
  /\ At(p, "query")
  /\ tra' = [tra EXCEPT ![p].oldest_active =
       Min({@} \cup {lock[n] : n \in {m \in Started : lock[m] # 0}})]
  /\ Goto(p, "finish")
  /\ UNCHANGED <<hdr, tip, data, backed, lock, sweeper, dbb, tpc, loc, rare>>

(* What follows the computations of TRA_start().                           *)
Ready(p) == IF tra[p].mode = "read_only" THEN "precommit" ELSE "active"

(* The word of the own lock, the marks of the Database block, which the    *)
(* next start writes to the header page, and the decision to sweep.        *)
start_finish(p) ==
  /\ At(p, "finish")
  /\ LET t == tra[p]
         open == {n \in t.oldest .. t.number - 1 : StartState(p, n) # "committed"}
         oldest == IF open = {} THEN t.number ELSE Min(open)
         limbo == open # {} /\ StartState(p, oldest) = "limbo"
     IN /\ lock' = [lock EXCEPT ![t.number] =
             IF t.mode = "snapshot" THEN loc[p].oldest_active ELSE t.number]
        /\ dbb' = [dbb EXCEPT ![p] = [oit |-> oldest - 1, oat |-> loc[p].oldest_active,
                                      ost |-> Max({@.ost, t.oldest_active})]]
        /\ Done(p, IF /\ sweep_interval > 0
                      /\ t.oldest_active - t.oldest > sweep_interval /\ ~limbo
                     THEN "sweep" ELSE Ready(p))
  /\ UNCHANGED <<hdr, tip, data, backed, sweeper, tpc, tra, rare>>

(* A read only, read committed transaction is committed when it starts.    *)
start_precommit(p) ==
  /\ At(p, "precommit")
  /\ TRA_set_state(p, tra[p].number, "committed")
  /\ Goto(p, "unlock")
  /\ UNCHANGED <<hdr, data, backed, lock, sweeper, dbb, tra, loc, rare>>

start_unlock(p) ==
  /\ At(p, "unlock")
  /\ lock' = [lock EXCEPT ![tra[p].number] = 0]
  /\ Goto(p, "active")
  /\ UNCHANGED <<hdr, tip, data, backed, sweeper, dbb, tpc, tra, loc, rare>>

-----------------------------------------------------------------------------
(* Reading the state of other transactions.                                *)

Final(state) == state \in {"committed", "dead"}
HasVersions(n) == data[n] # "none"
Others(p) == {n \in Started : HasVersions(n) /\ n # tra[p].number}

(* A state that is not final in the cache is read from the page once the   *)
(* lock on the transaction is free; a number behind the cache extends it.  *)
TPC_snapshot_state(p, n) ==
  /\ pc[p] \in {"active", "sweeping"}
  /\ tra[p].mode \in {"read_committed", "read_only"} /\ ~tra[p].prepared
  /\ n >= tra[p].oldest
  /\ LET c == tpc[p]
         known == c # NoCache /\ n < CacheEnd(c)
     IN \/ /\ ~known
           /\ loc' = [loc EXCEPT ![p] = [NoLocals EXCEPT
                !.s = TPC_initialize_tpc(c, n).from, !.then = pc[p]]]
           /\ Goto(p, "cache")
        \/ /\ known /\ ~Final(TPC_cache_state(c, n)) /\ lock[n] = 0
           /\ loc' = [loc EXCEPT ![p] = [NoLocals EXCEPT !.n = n, !.then = pc[p]]]
           /\ Goto(p, "fetch")
  /\ UNCHANGED <<hdr, tip, data, backed, lock, sweeper, dbb, tpc, tra, rare>>

(* Record versions p meets that make it wait: an update waits for an       *)
(* active transaction, every read, and so the sweep, for one in limbo.     *)
MustWait(p, n) ==
  /\ ~tra[p].prepared /\ tra[p].mode # "reconnected"
  /\ \/ At(p, "active") /\ TRA_snapshot_state(p, n) \in {"active", "limbo"}
     \/ At(p, "sweeping") /\ TRA_snapshot_state(p, n) = "limbo"

(* Mutant: does not wait for the lock.                                     *)
TRA_wait_unlocked(p, n) ==
  /\ MustWait(p, n)
  /\ loc' = [loc EXCEPT ![p].n = n, ![p].caller = pc[p]]
  /\ Goto(p, "look")
  /\ UNCHANGED <<hdr, tip, data, backed, lock, sweeper, dbb, tpc, tra, rare>>

(* TRA_wait(): the lock of n is free, so n is not active any more.         *)
TRA_wait(p, n) ==
  /\ MustWait(p, n)
  /\ lock[n] = 0
  /\ loc' = [loc EXCEPT ![p].n = n, ![p].caller = pc[p]]
  /\ Goto(p, "look")
  /\ UNCHANGED <<hdr, tip, data, backed, lock, sweeper, dbb, tpc, tra, rare>>

(* Back to the caller of TRA_wait(), with the state noted in the snapshot  *)
(* or in the cache c; a transaction that waited for a commit notes nothing.*)
WaitReturns(p, n, state, c) ==
  LET noted == n <= tra[p].top /\ (loc[p].caller = "scan" \/ state # "committed")
      snapshot == tra[p].mode = "snapshot"
  IN /\ tpc' = [tpc EXCEPT ![p] =
          IF noted /\ ~snapshot THEN TPC_set_state(c, n, state) ELSE c]
     /\ tra' = IF noted /\ snapshot THEN [tra EXCEPT ![p].states[n] = state] ELSE tra
     /\ IF loc[p].caller = "scan"
          THEN /\ loc' = [loc EXCEPT ![p].n = 0, ![p].caller = "idle",
                                     ![p].state = IF state = "committed" THEN state ELSE @]
               /\ Goto(p, "scan")
          ELSE Done(p, loc[p].caller)

(* TRA_get_state() on behalf of TRA_wait(): a final state of the cache is  *)
(* the answer, a transaction whose lock is taken counts as active.         *)
TRA_get_state(p) ==
  /\ At(p, "look")
  /\ LET n == loc[p].n
         c == tpc[p]
         cached == c # NoCache
     IN \/ /\ cached /\ n >= CacheEnd(c)
           /\ loc' = [loc EXCEPT ![p].s = CacheEnd(c), ![p].then = "look"]
           /\ Goto(p, "cache")
           /\ UNCHANGED <<tpc, tra>>
        \/ /\ cached /\ n < CacheEnd(c) /\ Final(TPC_cache_state(c, n))
           /\ WaitReturns(p, n, TPC_cache_state(c, n), c)
        \/ /\ cached => n < CacheEnd(c) /\ ~Final(TPC_cache_state(c, n))
           /\ Goto(p, IF cached /\ lock[n] # 0 THEN "kill" ELSE "fetch")
           /\ UNCHANGED <<tpc, tra, loc>>
  /\ UNCHANGED <<hdr, tip, data, backed, lock, sweeper, dbb, rare>>

(* TRA_fetch_state(): the state on the page, which also renews the cache,  *)
(* for TPC_snapshot_state() or for TRA_wait().                             *)
TRA_fetch_state(p) ==
  /\ At(p, "fetch")
  /\ LET n == loc[p].n
         c == TPC_update_cache(tpc[p], dbb[p].oit, Page(n))
     IN \/ /\ loc[p].caller = "idle"
           /\ tpc' = [tpc EXCEPT ![p] = c]
           /\ Done(p, loc[p].then)
           /\ UNCHANGED tra
        \/ /\ loc[p].caller # "idle" /\ tip[n] = "active"
           /\ tpc' = [tpc EXCEPT ![p] = c]
           /\ Goto(p, "kill")
           /\ UNCHANGED <<tra, loc>>
        \/ /\ loc[p].caller # "idle" /\ tip[n] # "active"
           /\ WaitReturns(p, n, tip[n], c)
  /\ UNCHANGED <<hdr, tip, data, backed, lock, sweeper, dbb, rare>>

(* "If it were active, he'd be alive now.  Mark him dead."                 *)
wait_kill(p) ==
  LET n == loc[p].n
      c == TPC_set_state(TPC_update_cache(tpc[p], dbb[p].oit, Page(n)), n, "dead")
  IN /\ At(p, "kill")
     /\ Writable(p, Page(n))
     /\ tip' = [tip EXCEPT ![n] = "dead"]
     /\ WaitReturns(p, n, "dead", c)
     /\ UNCHANGED <<hdr, data, backed, lock, sweeper, dbb, rare>>

-----------------------------------------------------------------------------
(* What a transaction does to records.                                     *)

VIO_store(p) ==
  /\ At(p, "active") /\ tra[p].mode \in {"snapshot", "read_committed"} /\ ~tra[p].prepared
  /\ ~HasVersions(tra[p].number)
  /\ data' = [data EXCEPT ![tra[p].number] = p]
  /\ tra' = [tra EXCEPT ![p].write = TRUE]
  /\ UNCHANGED <<hdr, tip, backed, lock, sweeper, dbb, tpc, pc, loc, rare>>

Dead(p) == {n \in Others(p) : TRA_snapshot_state(p, n) = "dead"}

-----------------------------------------------------------------------------
(* The end of a transaction.                                               *)

(* A precommitted transaction changes no state when it ends.               *)
EndState(p, state) ==
  IF tra[p].mode = "read_only" THEN UNCHANGED <<tip, tpc>>
  ELSE TRA_set_state(p, tra[p].number, state)

(* Mutant: the inventory page goes first.                                  *)
TRA_commit_unflushed(p) ==
  /\ At(p, "active")
  /\ EndState(p, "committed")
  /\ Goto(p, "release")
  /\ UNCHANGED <<hdr, data, backed, lock, sweeper, dbb, tra, loc, rare>>

(* The pages first, then the inventory page.  A death between the two is   *)
(* one before, with all pages written.                                     *)
TRA_commit(p) ==
  /\ At(p, "active")
  /\ CCH_flush(p)
  /\ EndState(p, "committed")
  /\ Goto(p, "release")
  /\ UNCHANGED <<hdr, lock, sweeper, dbb, tra, loc, rare>>

(* What was written is undone with the savepoint of the transaction, after *)
(* a flush if there was anything.                                          *)
Undo(p) ==
  /\ data' = [n \in Started |->
       IF n = tra[p].number THEN "none"
       ELSE IF tra[p].write /\ data[n] = p THEN "disk" ELSE data[n]]
  /\ UNCHANGED backed

(* The undone transaction may count as committed.  Without writes this is  *)
(* TRA_commit().                                                           *)
TRA_rollback_undo(p) ==
  /\ At(p, "active") /\ tra[p].write /\ tra[p].mode # "reconnected"
  /\ Undo(p)
  /\ EndState(p, "committed")
  /\ Goto(p, "release")
  /\ UNCHANGED <<hdr, lock, sweeper, dbb, tra, loc, rare>>

(* Too large to undo, without savepoint, or the undo failed.               *)
TRA_rollback_dead(p) ==
  /\ At(p, "active") /\ tra[p].write
  /\ EndState(p, "dead")
  /\ Goto(p, "release")
  /\ UNCHANGED <<hdr, data, backed, lock, sweeper, dbb, tra, loc, rare>>

TRA_prepare(p) ==
  /\ At(p, "active") /\ tra[p].mode \in {"snapshot", "read_committed"} /\ ~tra[p].prepared
  /\ CCH_flush(p)
  /\ EndState(p, "limbo")
  /\ tra' = [tra EXCEPT ![p].prepared = TRUE]
  /\ Rare(TRUE, 0)
  /\ UNCHANGED <<hdr, lock, sweeper, dbb, pc, loc>>

TRA_release_transaction(p) ==
  /\ At(p, "release")
  /\ lock' = [lock EXCEPT ![tra[p].number] = 0]
  /\ tra' = [tra EXCEPT ![p] = NoTransaction]
  /\ Done(p, "idle")
  /\ UNCHANGED <<hdr, tip, data, backed, sweeper, dbb, tpc, rare>>

(* TRA_reconnect(): somebody else decides a transaction in limbo.  It is   *)
(* the coordinator of the two phases who sees to it that there is only one.*)
TRA_reconnect(p, n) ==
  /\ At(p, "idle")
  /\ tip[n] = "limbo" /\ \A q \in Processes : tra[q].number # n
  /\ Writable(p, Page(n))
  /\ tpc' = [tpc EXCEPT ![p] = TPC_update_cache(@, dbb[p].oit, Page(n))]
  /\ tra' = [tra EXCEPT ![p] = [NoTransaction EXCEPT
       !.number = n, !.mode = "reconnected", !.write = TRUE, !.prepared = TRUE]]
  /\ Goto(p, "active")
  /\ UNCHANGED <<hdr, tip, data, backed, lock, sweeper, dbb, loc, rare>>

-----------------------------------------------------------------------------
(* Commit and rollback retaining: the transaction goes on with its         *)
(* snapshot under a new number, locked before the old one is given up.     *)

Starting(q) ==
  pc[q] \in {"cache", "inventory", "scan", "query", "finish", "look", "fetch", "kill"}

(* A commit, a rollback by undoing, or one that leaves its versions to     *)
(* others.  Without writes a commit only forgets that it was prepared, and *)
(* a rollback counts as committed.  A death before the new number is one   *)
(* before the flush or the undo, with all pages written.                   *)
retain_context(p, end) ==
  /\ At(p, "active") /\ tra[p].mode \in {"snapshot", "read_committed"}
  /\ end \in {"commit", "dead"} => tra[p].write
  /\ ~RetainFreely => ~tra[p].prepared /\ \A q \in Processes : ~Starting(q)
  /\ bump_transaction_id(p)
  /\ lock' = [lock EXCEPT ![hdr'.next] = lock[tra[p].number]]
  /\ CASE end = "commit" -> CCH_flush(p)
       [] end = "undo" -> Undo(p)
       [] end = "dead" -> UNCHANGED <<data, backed>>
  /\ Goto(p, "retain")
  /\ loc' = [loc EXCEPT ![p].state = IF end = "dead" THEN "dead" ELSE "committed",
                        ![p].commit = (end = "commit"), ![p].n = hdr'.next]
  /\ Rare(TRUE, hdr'.next)
  /\ UNCHANGED <<tip, sweeper, dbb, tpc, tra>>

retain_set_state(p) ==
  /\ At(p, "retain")
  /\ TRA_set_state(p, tra[p].number, loc[p].state)
  /\ Goto(p, "retain_release")
  /\ UNCHANGED <<hdr, data, backed, lock, sweeper, dbb, tra, loc, rare>>

retain_release(p) ==
  /\ At(p, "retain_release")
  /\ lock' = [lock EXCEPT ![tra[p].number] = 0]
  /\ tra' = [tra EXCEPT ![p].number = loc[p].n, ![p].write = FALSE, ![p].prepared = FALSE,
       ![p].sub = IF loc[p].commit THEN @ \cup {tra[p].number} ELSE @]
  /\ Done(p, "active")
  /\ UNCHANGED <<hdr, tip, data, backed, sweeper, dbb, tpc, rare>>

-----------------------------------------------------------------------------
(* TRA_sweep() of the transaction that starts: its own pass over all       *)
(* records, a flush, and only then the new oldest interesting transaction. *)

sweep_begin(p) ==
  /\ At(p, "sweep")
  /\ sweeper' = IF sweeper = NULL THEN p ELSE sweeper
  /\ Goto(p, IF sweeper = NULL THEN "sweeping" ELSE Ready(p))
  /\ UNCHANGED <<hdr, tip, data, backed, lock, dbb, tpc, tra, loc, rare>>

(* All states the pass meets have been looked up.                          *)
Settled(p) ==
  tra[p].mode # "snapshot" => \A n \in Others(p) : n >= tra[p].oldest =>
    /\ n < CacheEnd(tpc[p])
    /\ \/ Final(TPC_cache_state(tpc[p], n)) \/ lock[n] # 0
       \/ tip[n] = TPC_cache_state(tpc[p], n)

(* The pass fetches every page, so what others have cached is written.  A  *)
(* record in limbo has been waited for: its transaction has died, which    *)
(* TRA_wait() notes, or committed, which it only returns.                  *)
sweep_records(p) ==
  /\ At(p, "sweeping") /\ Settled(p)
  /\ \A n \in Others(p) :
       TRA_snapshot_state(p, n) = "limbo" => lock[n] = 0 /\ tip[n] = "committed"
  /\ data' = [n \in Started |-> IF data[n] = "none" THEN "none" ELSE "disk"]
  /\ backed' = [backed EXCEPT ![p] = Dead(p)]
  /\ Goto(p, "sweep_flush")
  /\ UNCHANGED <<hdr, tip, lock, sweeper, dbb, tpc, tra, loc, rare>>

(* A record in limbo that is still not decided when the wait for the lock  *)
(* is over or has timed out is an error that ends the sweep.               *)
sweep_fails(p) ==
  /\ At(p, "sweeping") /\ Settled(p)
  /\ \E n \in Others(p) :
       TRA_snapshot_state(p, n) = "limbo" /\ (lock[n] # 0 \/ tip[n] = "limbo")
  /\ sweeper' = NULL
  /\ Goto(p, Ready(p))
  /\ UNCHANGED <<hdr, tip, data, backed, lock, dbb, tpc, tra, loc, rare>>

(* Mutant: the header page is changed while removals are cached.           *)
sweep_flush_skipped(p) ==
  /\ At(p, "sweep_flush")
  /\ Goto(p, "sweep_header")
  /\ UNCHANGED <<hdr, tip, data, backed, lock, sweeper, dbb, tpc, tra, loc, rare>>

(* CCH_flush(): the removals are on disk before the header page changes.   *)
sweep_flush(p) ==
  /\ At(p, "sweep_flush")
  /\ CCH_flush(p)
  /\ Goto(p, "sweep_header")
  /\ UNCHANGED <<hdr, tip, lock, sweeper, dbb, tpc, tra, loc, rare>>

sweep_header(p) ==
  /\ At(p, "sweep_header")
  /\ LET t == tra[p]
         limbo == {n \in t.oldest .. t.top - 1 : StartState(p, n) = "limbo"}
         active == Min(limbo \cup {t.top})
     IN hdr' = IF hdr.oit < t.oldest_active - 1
                 THEN [hdr EXCEPT !.oit = Min({active, t.oldest_active - 1})]
                 ELSE hdr
  /\ sweeper' = NULL
  /\ Goto(p, Ready(p))
  /\ UNCHANGED <<tip, data, backed, lock, dbb, tpc, tra, loc, rare>>

-----------------------------------------------------------------------------
(* A process dies: its locks are released, its cached changes are lost or  *)
(* had already been written.                                               *)
crash(p) ==
  /\ pc[p] # "detached"
  /\ Rare(TRUE, 0)
  /\ \/ CCH_flush(p)
     \/ /\ data' = [n \in Started |-> IF data[n] = p THEN "none" ELSE data[n]]
        /\ backed' = [backed EXCEPT ![p] = {}]
  /\ lock' = [n \in Started |->
       IF n \in {tra[p].number} \cup (IF pc[p] \in {"retain", "retain_release"}
                                        THEN {loc[p].n} ELSE {})
         THEN 0 ELSE lock[n]]
  /\ sweeper' = IF sweeper = p THEN NULL ELSE sweeper
  /\ tpc' = [tpc EXCEPT ![p] = NoCache]
  /\ tra' = [tra EXCEPT ![p] = NoTransaction]
  /\ Done(p, "detached")
  /\ UNCHANGED <<hdr, tip, dbb>>

(* The next attachment.  If it is alone, TRA_cleanup() declares every      *)
(* transaction dead that is still marked active.                           *)
attach(p) ==
  /\ At(p, "detached")
  /\ dbb' = [dbb EXCEPT ![p] = [oit |-> hdr.oit, oat |-> hdr.oat, ost |-> hdr.ost]]
  /\ tip' = IF \A q \in Processes : At(q, "detached")
              THEN [n \in Numbers |-> IF n \in hdr.oat .. hdr.next /\ tip[n] = "active"
                                        THEN IF n = 0 THEN "committed" ELSE "dead"
                                        ELSE tip[n]]
              ELSE tip
  /\ Goto(p, "idle")
  /\ UNCHANGED <<hdr, data, backed, lock, sweeper, tpc, tra, loc, rare>>

StartAction(p) ==
  \/ \E mode \in Modes : TRA_start(p, mode)
  \/ TRA_start_refused(p) \/ cache_transactions(p) \/ TRA_get_inventory(p)
  \/ start_scan(p) \/ start_query(p) \/ start_finish(p)
  \/ start_precommit(p) \/ start_unlock(p)
  \/ sweep_begin(p) \/ sweep_records(p) \/ sweep_fails(p)
  \/ sweep_flush(p) \/ sweep_header(p)

RunAction(p) ==
  \/ \E n \in Others(p) : \/ TPC_snapshot_state(p, n) \/ TRA_wait(p, n)
  \/ TRA_get_state(p) \/ TRA_fetch_state(p) \/ wait_kill(p) \/ VIO_store(p)

EndAction(p) ==
  \/ TRA_commit(p) \/ TRA_rollback_undo(p) \/ TRA_rollback_dead(p) \/ TRA_prepare(p)
  \/ TRA_release_transaction(p)
  \/ \E n \in Started : TRA_reconnect(p, n)
  \/ \E end \in {"commit", "undo", "dead"} : retain_context(p, end)
  \/ retain_set_state(p) \/ retain_release(p)

Next == \E p \in Processes :
  StartAction(p) \/ RunAction(p) \/ EndAction(p) \/ crash(p) \/ attach(p)

Spec == Init /\ [][Next]_vars

-----------------------------------------------------------------------------
(* Transactions that read and may collect garbage.  A prepared one only    *)
(* waits for its end.                                                      *)
Reads(p) == /\ pc[p] \in {"active", "sweeping", "sweep_flush", "sweep_header"}
            /\ tra[p].mode # "reconnected" /\ ~tra[p].prepared

(* Garbage collection spares what a snapshot needs: when a transaction     *)
(* takes the versions behind those of n for garbage, because n is          *)
(* committed and older than its tra_oldest_active, no snapshot of any      *)
(* process takes n for active.                                             *)
SnapshotIsPreserved ==
  \A p, q \in Processes : Reads(p) /\ Reads(q) /\ tra[q].mode = "snapshot" =>
    \A n \in Started :
      n < tra[p].oldest_active /\ TRA_snapshot_state(p, n) = "committed" =>
        TRA_snapshot_state(q, n) # "active"

(* A state that a transaction takes for final, from its snapshot, from the *)
(* process's cache or because the number is below the oldest interesting   *)
(* one, is the state on the inventory page, for every transaction that has *)
(* left record versions.  Otherwise uncommitted records become visible or  *)
(* committed ones are backed out.                                          *)
FinalViewIsTrue ==
  \A p \in Processes : Reads(p) =>
    \A n \in Others(p) :
      Final(TRA_snapshot_state(p, n)) => tip[n] = TRA_snapshot_state(p, n)

(* "Committed or dead transactions always stay that way": nobody who waits *)
(* declares a transaction dead that commits, and nobody commits one that   *)
(* was declared dead.                                                      *)
FinalStates ==
  [][\A n \in Started : Final(tip[n]) => tip'[n] = tip[n]]_vars

(* A transaction counts as committed only when its records are on disk.    *)
CommittedIsDurable ==
  \A n \in Started : tip[n] = "committed" => data[n] \notin Processes

=============================================================================
