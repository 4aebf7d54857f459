# TLA+ models of the Firebird 2.1 engine

These modules model parts of the Firebird 2.1 server (the repository's `src/`),
check them with TLC and prove the central invariants with TLAPS. Source paths
below are relative to the repository.

## 1. Inventory of the system

Firebird Classic runs one server process per connection. The processes share a
database file and two regions of shared memory (the lock table and the event
table), and everything they agree on goes through these three.

| Part | Source | State | Operations | What is hard, and what must hold |
|---|---|---|---|---|
| Lock manager | `src/lock/lock.cpp` | lock blocks with counts and queues, requests, owners, in shared memory under one mutex | `LOCK_enq`, `LOCK_convert`, `LOCK_downgrade`, `LOCK_deq`, `LOCK_init`, `LOCK_fini`, blocking ASTs, waits, deadlock scan, purge of dead owners | reads without the mutex, signals that are dropped, processes that die. Granted levels are compatible; no grant or wakeup is lost; deadlocks are found and only deadlocks are broken |
| Shared queues | `src/lock/lock.cpp` (`insert_tail`, `remove_que`, `acquire`) | self-relative doubly linked queues, recovery words | insert, remove, recovery by the next process | a process dies between two words; the queue must be whole again |
| Engine lock layer | `src/jrd/lck.cpp` | logical and physical level per lock, hash of locks within a process | `LCK_lock`, `LCK_convert`, `LCK_release`, `LCK_downgrade` | one physical lock stands for several logical ones; compatible inside and outside |
| Global read/write lock | `src/jrd/GlobalRWLock.cpp` | cached physical lock, readers, writer, blocking flags | `lock`, `unlock`, `blockingAstHandler`, `changeLockOwner`, `tryReleaseLock` | waits outside its own mutex; ASTs during use; data fetched under the lock is current |
| Physical backup | `src/jrd/nbak.cpp` | backup state and SCN in the header, delta file with allocation pages | `begin_backup`, `end_backup`, `allocate_difference_page`, `actualize_alloc`, `actualize_state` | processes that missed a state change; a crash in the middle of the merge; the boundary between allocation pages |
| Transactions | `src/jrd/tra.cpp`, `src/jrd/tpc.cpp` | header counters, inventory pages, a lock per transaction, cached states, snapshots | `TRA_start`, `TRA_commit`, `TRA_rollback`, `TRA_prepare`, `TRA_wait`, `TPC_snapshot_state`, `TRA_sweep` | counters computed from states of different moments; dead processes; a snapshot never changes its mind |
| Record versions | `src/jrd/vio.cpp` | version chains, savepoints | `VIO_chase_record_version`, `VIO_modify`, `VIO_erase`, `VIO_backout`, garbage collection | no version in use is removed; no lost update |
| Page cache | `src/jrd/cch.cpp` | buffers, page locks, precedence graph | fetch, mark, release, flush, page-lock ASTs | pages reach the disk in the order of the precedence graph; a page changed elsewhere is read again |
| Shutdown | `src/jrd/shut.cpp` | flags of the database, data of the database lock | `SHUT_database`, `SHUT_online`, `SHUT_blocking_ast` | one word of lock data carries a series of notifications |
| Events | `src/jrd/event.cpp` | shared table of events, interests and processes | `EVENT_post`, `EVENT_deliver`, `EVENT_que`, `EVENT_cancel`, delivery | an event posted while a request is queued or delivered is not lost and is not delivered twice |
| Record compression | `src/jrd/sqz.cpp` | none | compress, expand, differences | expansion undoes compression |
| Temporary space | `src/jrd/TempSpace.cpp` | free segments | allocate, release | segments stay disjoint and merge |
| Compilers, executor, API, remote protocol, utilities, character sets | `src/dsql`, `src/jrd/{cmp,exe,opt,par,evl}.cpp`, `src/jrd/{jrd,why,svc}.cpp`, `src/remote`, `src/burp`, `src/isql`, `src/intl` | per request or per connection | translation, interpretation, marshalling | sequential code over large data types; not modelled |

How they interact: the engine lock layer maps every logical lock (database,
page, transaction, relation, backup state) to requests of the lock manager. The
page cache keeps a lock on every buffered page and gives it up in a blocking
AST. A transaction is a number in an inventory page and a lock that its process
holds for as long as the transaction is active; who wants to know whether it is
still alive asks for the lock. The backup state and the delta's allocation table
are protected by global read/write locks. Shutdown and events are notifications
between processes, through the data of a lock and through the event table.

## 2. Order of the work

The order follows dependence: everything relies on the lock manager.

1. **Lock manager** (`LockLevels`, `LockManager`): done, with proofs (sections 3, 9).
2. **Shared queues** (`SharedQueue`): done (section 4).
3. **Global read/write lock** (`GlobalRWLock`) over an abstract lock manager, shown
   to implement `RWLock`: done, with proofs (sections 5, 9).
4. **Physical backup** (`NBackup` over `RWLock`, shown to implement `PageStore`;
   `DifferenceFile` over `RWLock`, shown to implement `DeltaTable`): done, with
   proofs (sections 6, 7, 9).
5. **Transactions and TIP cache** (`Transactions`): done, with proofs
   (sections 8, 9).
6. Open: **record versions** on top of 5, the **page cache** with its precedence
   graph and page-lock ASTs, **shutdown**, **events**, the **engine lock layer**.

Runs are kept to one per question and a few minutes each. The specifications are
stacked: `GlobalRWLock` implements `RWLock`, which is the lock that `NBackup` and
`DifferenceFile` instantiate twice (for `LCK_backup_database` and for
`LCK_backup_alloc`), and each of these implements what the layer above it expects.

## 3. The lock manager

### Modules

* `LockLevels` — the seven levels and the compatibility table.
* `LockManager` — the lock table and its processes; all properties.
* `MCLockManager` — symmetry sets for TLC.
* `LockManagerInvariant`, `LockManagerProofs` — the proofs (section 9).

`LockManager` models the POSIX Classic build: owners are processes, the mutex is
`lhb_active_owner`, a waiter sleeps on its event, blocking ASTs arrive by signal
and there is no manager process.

State. `lrq_*`, `lbl_*`, `own_*` are the fields of the request, lock and owner
blocks. `own_requests` is the set of requests with that `lrq_owner`, and
`own_blocks` the set of those with `LRQ_blocking`; only the queue of a lock is a
sequence, because its order decides. `lrq_owner = NULL` is a free request block
and a lock without requests is one that does not exist. `pc` says what a process
does: `idle` between calls, `wait` in the loop of `wait_for_request()`, `scan`
with the mutex after `probe_owners()`, `exit` on the way out, `denied` before a
rejected request is taken back, `init`, `fini` in those calls, `dead`. `wreq` is
the request it waits for and `ast` the request whose blocking routine it runs.

Steps. What runs between `acquire()` and `release()` is one step, except that the
two loops that can end a section, `post_pending()` and `purge_owner()`, take a
step per request (`posting`, `cursor`, `purging` are their local state). In
between only code without the mutex can run: a waiter that reads its own request
(`wait_exit`), a signal handler that finds the lock manager busy
(`signal_dropped`), or the death of a process (`Crash`, `CrashHolder`).

| Actions | Code |
|---|---|
| `LOCK_enq_grant`, `_wait`, `_deny` | `LOCK_enq`, `grant_or_que` |
| `LOCK_convert_grant`, `_wait`, `_deny` | `LOCK_convert`, `convert` |
| `LOCK_deq`, `LOCK_downgrade` | the same, with `dequeue`, `release_request` |
| `post_pending_grant`, `_block`, `_end` | the loop of `post_pending` and the marking of requests just granted |
| `purge_request`, `purge_owner` | `purge_owner` |
| `wait_exit`, `wait_resolved`, `wait_timeout`, `wait_woken`, `wait_probe` | the loop of `wait_for_request` |
| `deny_enq`, `deny_convert` | the ends of `grant_or_que` and `convert` after a rejection |
| `scan_deadlock` with `reject_victim`, `scan_repost`, `scan_granted` | `deadlock_scan`, `deadlock_walk` and what follows them |
| `blocking_action`, `blocking_action_end`, `signal_dropped` | `blocking_action`, `blocking_action2` |
| `ast_release`, `ast_downgrade`, `ast_note` | what the callers' blocking routines do with the lock manager |
| `LOCK_init_purge`, `LOCK_init`, `LOCK_fini` | the same, `create_owner`, `exit_handler` |
| `Crash`, `CrashHolder`, `Restart` | death and rebirth of processes, as the code finds them |

The order of the loop of `wait_for_request()` matters: the flag `OWN_wakeup` is
read before the mutex is taken and cleared after it, so `wait_probe` may run
although a wakeup has arrived, and clears it. What it missed is made up for by the
repost after a scan that finds nothing (`scan_repost`): without it
`EveryBlockageIsSeen` fails.

Left out: lock data, `LOCK_re_post`, `LOCK_set_owner_handle`, the nesting count
`own_count`, `prior_request` of `LOCK_enq`, a new blocking routine installed
after a waited conversion, `OWN_hung`, growth and exhaustion of the table, the
death of a process in the middle of a straight-line section (section 4 has it for
the queues), and a process number reused by a stranger.

### Properties

* `TypeOK` — types; counts never negative.
* `GrantedCompatible` — two granted requests of a lock are compatible.
* `SummaryOfQueue` — counts, state and pending count are those of the queue.
* `Links` — queues, owners, waiters and routines refer to what is theirs; nobody
  alive is purged.
* `NoForgottenGrant` — when nobody has the mutex, a pending request at the head
  really conflicts with a holder.
* `DecidedIsWoken` — a process that waits and whose request has been granted by
  somebody else, or rejected by somebody else's deadlock scan, has a wakeup. (Who
  rejects its own request, after a time out or a scan, leaves the loop by itself.)
* `NoOvertaking` — with lock ordering, a new request never passes a waiter.
* `ScannedIsNotDeadlocked`, `VictimIsDeadlocked` — soundness of the mark
  `OWN_scanned` and of the choice of victims, against a definition of deadlock
  (`Stuck`) that is stated from what `post_pending()` can grant and does not use
  the walk.
* `EveryWaitEnds`, `EveryBlockageIsSeen` — liveness.

### Runs

| Run | Instance | Checked | Result |
|---|---|---|---|
| `queue` | 3 owners, 1 lock, 3 requests, SR, PR and SW, no wait and waits with a time out | types, compatibility, exact summaries, no forgotten grant, no overtaking | passes |
| `deadlock` | 2 owners, 2 locks, 4 requests, PR and EX, all three kinds of wait | both deadlock properties, no forgotten grant, `DecidedIsWoken` for victims | passes |
| `ast` | 2 owners, 1 lock, 2 requests, blocking routines, signals dropped | no forgotten grant, `VictimIsDeadlocked` beside owners that give way, `EveryBlockageIsSeen` | passes |
| `crash` | 2 owners that may die, also with the mutex, and come back; blocking routines | compatibility, exact summaries, `Links`, `DecidedIsWoken` for grants | passes |
| `live_crash` | an owner may die while the other waits | `EveryWaitEnds` | passes |

Bounds. Three owners are needed for a queue in which somebody waits behind a
waiter; two locks and two requests per owner for a cycle; three requests on one
lock for a conversion beside a waiter. PR and SW are incompatible with each other
and compatible with themselves, PR and EX give readers and a writer, SR adds a
level that is compatible with both PR and SW. Owners, requests and locks are
symmetric where no liveness is checked.

Fairness. `SchedulerFairness`: a section that has been entered is finished, a
process is not passed over for ever at the mutex, the event wait of
`wait_for_request()` is limited by the scan interval, and a signal that is sent
again every interval is not dropped every time. `CallerFairness`: processes
attach, and detach in the end (otherwise a wait may last as long as the holder
likes). `EveryBlockageIsSeen` needs only the first.

Two instances that no run keeps violate the deadlock properties, and the runs stay
below them:

1. With SR, PR and SW, `ScannedIsNotDeadlocked` fails for three owners on one lock: A holds PR; B holds SR and
   waits to convert; C's request waits in order behind a request it is compatible
   with. The walk skips that request and C is marked `OWN_scanned`.
2. With blocking routines and three requests of two owners, `VictimIsDeadlocked`
   fails: `OWN_wakeup` is tested in `own_ast_flags` and lives in
   `own_flags`; an owner that has not yet told the holder of its blockage is
   walked through and a request is rejected that would have been granted.

`NoForgottenGrant` is not claimed for `crash`: the recovery in `acquire()` repairs
links and does not go on with the `post_pending()` of a process that died in it,
so that what it had still to grant waits for the next release on that lock.

## 4. The shared queues

`SharedQueue` models the self-relative queues below the lock table: the words of
shared memory (`word`), the mutex as the operating system (`held`) and as the
header (`lhb_active_owner`) see it, and the stores that the current call has
still to make (`todo`). `insert_tail` and `remove_que` are the sequences of stores
of these functions in source order, `recovery` the part of `acquire()` that runs
when the header still names an owner. `Store` performs one store and `Die` may
come before any of them, so recoveries are themselves cut short. `queue` is the
specification: what the finished calls promise. It changes in the step from which
the recovery would complete a removal, or would no longer undo an insertion.
`again` holds the nodes that a dying process had in hand and that `purge_owner()`
later removes.

| Run | Instance | Checked | Result |
|---|---|---|---|
| `srq` | 2 queues, 3 nodes, 3 deaths | types (no link to offset 0), `Whole` | passes |

Two queues and three nodes give empty, singleton and longer rings and the move of a
node from one to the other; the third death can hit the recovery of a recovery.

`srq` holds under two restrictions, each a constant, and each hides a defect:

* `StaleRemoval = FALSE`: nodes whose own links are stale are not removed again.
  With `TRUE` one death is enough to violate `Whole`. The recovery of an insertion leaves the links of the node
  itself as they were, and `purge_owner()` of the dead process removes it through
  them.
* `LateDeath = FALSE`: nobody dies between the last two stores of `insert_tail()`.
  With `TRUE` and two deaths `Whole` is violated as well: `shb_insert_prior` stays
  set, and a later insertion that dies right after setting `shb_insert_que` is
  undone with the old neighbour.

## 5. The global read/write lock

`GlobalRWLock` models the class of that name: several processes, each with a
cached lock of the lock manager, and logical owners (`Home` gives their process)
that call `lock()` and `unlock()`.

State. `cached_lock`, `readers`, `writer`, `entry_count`, `internal_blocking` and
`external_blocking` are the members; `newLock` is the local of a call that is
between its two scopes, `object` what the process has fetched (`none` after
`invalidate()`, `stale` once another process has written). The lock manager is
abstract and external to this module: a queue of `waiting` owners served in order
(`lm_grant`), and per holder a `notice` that is posted by a waiter (`lm_post`),
delivered once (`lm_ast`) and forgotten when the holder converts, as
`LRQ_blocking_seen` is.

Steps follow the mutex `lockMutex`: `lock_recursion`, `lock_cached` and
`lock_first` are the three ways through the first scope of `lock()`, `LCK_lock`
waits outside of it, `lock_second` and `fetch_fails` are the second scope.
`unlock_read`, `unlock_write`, `blockingAstHandler`, `changeLockOwner_read`,
`changeLockOwner_write` and `tryReleaseLock` are one section each. `Write` is the
user's change of the protected resource.

| Run | Instance | Checked | Result |
|---|---|---|---|
| `rwlock` | 2 processes, 3 owners (two together), recursion to 2, one failure of the lock manager or of `fetch()` | types, `Exclusion`, `LockCoversUsers`, `ObjectIsCurrent`, `ImplementsRWLock` | passes |
| `rwlock_live` | 3 processes with one owner each | `EveryLockReturns` | passes |

Two owners in one process are needed for calls that overlap between the two
scopes, a second process for notices, three processes for a waiter behind a
waiter. A failure is counted because `lock()` then leaves `internal_blocking` one
too high; `TypeOK` bounds the counter by the owners and the failures.

Fairness: calls proceed, the lock manager grants and repeats the notice of a
waiter (its scan interval), routines run, and a user unlocks as often as it locks
(the strong part, for the last unlock, since a reader may recurse in between).

`ImplementsRWLock` is the refinement: `RWLock` is a reader/writer lock over the
logical owners of all processes, taken in one step, with a copy of the protected
object per process that is fresh while somebody there uses the lock. An owner uses
the abstract lock from the step in which its `lock()` returns; a copy is fresh when
`object` is `current`.

`EveryLockReturns` does not hold for two processes of which one has two owners: the
AST for a new lock that is granted and not yet noted sets
`external_blocking`; another owner's `unlock()` resets it together with the old
cached lock; the new lock becomes the cached one, falls idle and is kept, and the
lock manager does not repeat a notice that has been seen. It takes calls of two
owners of one process that overlap, and a second process. A process of the Classic
server runs one call at a time (`rwlock_live`) and the SuperServer is one process, so
neither shipped build meets it.

Left out: `lock_caching = false`, recursion of a writer (`unlock()` asserts that
there is none), lock data, a failing `LCK_set_owner_handle()`, the destructor.

## 6. The physical backup

`NBackup` models `BackupManager` in several processes of the Classic server together
with the four places of the page cache that ask it: `CCH_fetch_page`, `CCH_mark` with
`set_diff_page`, `CCH_release` and `write_page`.

State. `main` and `delta` are the two files: a page is a version, an SCN and, for the
header, the backup state; the delta is a sequence of pages with their contents.
`use` and `fresh` are `LCK_backup_database`, an instance of `RWLock` whose owners are
an attachment and the cache of each process, as dirty pages move from one to the
other in `CCH_release`. `backup_state`, `current_scn`, `alloc_table` are the members
that a process keeps as long as it has the lock cached. `buffer` and `dirty` are the
page cache; `half` is the page of a `write_page` that has written the delta and not
yet the main file. Page locks are external: one process has a page for write, or
several for read.

| Actions | Code |
|---|---|
| `actualize_state` | the same, as `fetch()` of the state lock |
| `CCH_fetch_page`, `CCH_fetch_page_aborts` | the same; the second is the assertion on the state |
| `CCH_mark`, `CCH_mark_unmapped`, `allocate_difference_page` | `CCH_mark`, `set_diff_page`, `CCH_release` |
| `write_page`, `write_page_main`, `Evict` | `write_page` with its two writes, `clear_page_dirty_flag`; replacement |
| `begin_backup`, `_create`, `_header`, `_returns`, `_fails` | `begin_backup` |
| `end_backup`, `lock_clean_database`, `end_backup_merge`, `_merge_main` | step 1 of `end_backup` |
| `end_backup_pages`, `_page`, `_merged` | step 2 |
| `end_backup_normal`, `_unlink` | step 3 |
| `attach`, `crash` | recovery at attachment; death of one process or of all |

`NBackupInvariant`, `NBackupSteps` and `NBackupProofs` are the proofs (section 9).

Two simplifications of the lock are argued in the module: a lock stays cached until a
writer takes it, and the state is fetched in a step of its own. `begin_backup_fails`
comes before the difference file exists or after it (the write of its first pointer
page, `nbak.cpp:324`). `missed_cycle` of `actualize_state` is an unsigned difference: an
SCN below the one that the process remembers counts as a missed cycle, too.

Run `nbackup`: two processes, the header and one data page, two changes, three
changes of SCN (a whole cycle and the begin of the next), one crash.

* `ImplementsPageStore` — refinement of `PageStore`: a page is read as it was last
  written, and a crash loses the caches only. The mapping `Stable` says what the two
  files together hold.
* `MainIsFrozen` — the main file does not change in stalled state.
* `IncrementIsComplete` — a page that an incremental backup leaves out, going by its
  SCN, is as it was at the backup before; no page carries the SCN of the backup yet.
* `TableIsCurrent` — a trusted copy of the table is that of the present delta.
* `SecondCheckHolds` — the second check of `end_backup` never fails.
* `TypeOK` — among others, nobody reads an unused page of the delta.

Bounds. The data page is needed beside the header because only the header is written
with the state; the second change gives a version that a wrong read can return; the
cycle and the next begin are what a process can miss.

Three observations, without runs of their own:

* `HalfWrites = FALSE` keeps a single process from dying between the two writes of a
  page in merge state. With `TRUE`, `ImplementsPageStore` is violated: the merging
  process finds the page with the current SCN in the delta, takes it for merged
  (`nbak.cpp:507`) and the version is lost with the delta. When all processes die the
  recovery has a higher SCN and nothing is lost.
* After a failed `begin_backup` the state is unknown while the lock stays cached, so
  that it is not fetched again and the next fetch of a page meets the assertion of
  `cch.cpp:970` (`CCH_fetch_page_aborts`).
* `nbak.h:134-136` says that reads in merge state compare both versions; the code
  reads a mapped page from the delta and writes both files.

## 7. The difference file

`DifferenceFile` is the layout below `delta`: `file` is a sequence of pages, of which
every `PageItems`-th is a pointer page with the database pages that the pages behind
it stand for. `alloc_table`, `last_allocated_page` and `alloc_buffer` are the members
of `BackupManager`; `use` and `fresh` are `LCK_backup_alloc`, again `RWLock`. A process
takes it for read to look a page up and for write to allocate one. It never has the
lock cached for write, so `LockAlloc` for write always runs `fetch()`, and the pointer
pages are read again before every allocation.
`actualize_alloc` is one turn of its loop per step. `allocate_difference_page`,
`allocate_pointer_page`, `allocate_item` are the three writes of
`allocate_difference_page`, `allocate_register` what follows them;
`allocate_fails` is any of these writes failing, `crash` a death between any two steps.
`PlaceOf` and `IndexOf` count places with and without the pointer pages between them:
`Items`, the table that the file holds, lists the items of the places in order.
`DifferenceFileProofs` has the proofs (section 9).

Run `difference`: two processes, four pages, pointer pages of three items (so the
fourth page needs the second pointer page), two failed writes and one death.

* `ImplementsDeltaTable` — refinement of `DeltaTable`: one growing sequence without
  repetition, in which what a process knows is right. This is the form in which
  `NBackup` uses the table.
* `PointerPageIsThere` — the next pointer page can be read once one is full.
* `BufferIsCurrent` — the assertion at `nbak.cpp:661`.
* `OwnPlace` — a page is written to a place that is nobody else's.

A failed write of the pointer page leaves the new item in `alloc_buffer` and not in the
table. `BufferIsCurrent` holds all the same, because the next allocation takes the lock
for write and reads the page again; an allocation that trusted a fresh copy would
violate it.

Left out: the error paths of `actualize_alloc` (a failed read and a duplicated item
both end in a bugcheck; `ImplementsDeltaTable` excludes the second), and the lack of
memory for the new item (`nbak.cpp:699-706`), which drops `alloc_table` and leaves the
process unable to use it again, as a death does.

## 8. Transactions

`Transactions` models `tra.cpp` and `tpc.cpp` for processes with one attachment and
one transaction each. `MCTransactions` gives TLC the symmetry of processes;
`TransactionsProofs` has the proofs (section 9).

State. `hdr` is the header page with the next, oldest interesting (`oit`), oldest
active (`oat`) and oldest snapshot (`ost`) number, `tip` the inventory pages, `lock`
the data word of the lock on each number. Per process, `dbb` holds the numbers of the
`Database` block, `tpc` the cached states (by page, like its blocks), `tra` the
transaction, `loc` the local variables of the call it is in. Records are abstracted
to "transaction n has left versions": `data` says whether they are on disk or in
whose cache, `backed` whose removal a sweep has done in its cache only.

| Actions | Code |
|---|---|
| `TRA_start`, `TRA_start_refused` | `TRA_start` up to the release of the header page, `bump_transaction_id` |
| `cache_transactions`, `TRA_get_inventory` | the same, a page per step, handed over |
| `start_scan`, `start_query`, `start_finish` | oldest active, `LCK_query_data`, lock word, oldest interesting, decision to sweep |
| `start_precommit`, `start_unlock` | read only, read committed transactions |
| `TPC_snapshot_state`, `TRA_fetch_state` | a state that is not final in the cache: the lock is looked at in one step and the page read in the next |
| `TRA_wait`, `TRA_get_state`, `WaitReturns`, `wait_kill` | the same; `MustWait` says for whom (`vio.cpp:610`), a sweep that meets a version in limbo included; `TRA_wait` also on behalf of `start_scan` |
| `VIO_store` | a first version of the transaction |
| `TRA_commit`, `TRA_rollback_undo`, `TRA_rollback_dead`, `TRA_prepare`, `TRA_reconnect`, `TRA_release_transaction` | the same |
| `retain_context`, `retain_set_state`, `retain_release` | `retain_context`, called to commit, or to roll back after an undo (or without writes) or as dead; only a commit adds the old number to those the snapshot sees |
| `sweep_begin`, `sweep_records`, `sweep_fails`, `sweep_flush`, `sweep_header` | `TRA_sweep`, `VIO_sweep` |
| `crash`, `attach` | death; `TRA_cleanup` at the first attachment |

Run `transactions`: two processes, four transactions on two inventory pages, all
three kinds of transaction, a sweep at a distance of two. Deaths, prepares, retainings,
transactions that are not snapshots and the fourth transaction count as rare, and two
rare things happen in a behaviour (`MaxRare`): any two of them meet, and the number of
states stays at 1.2 million.

* `SnapshotIsPreserved` — when a transaction takes what is behind the versions of n
  for garbage, no snapshot takes n for active.
* `FinalViewIsTrue` — a state taken for final, from a snapshot, from the cache or
  because the number is below the oldest interesting one, is the one on the page.
* `FinalStates` — committed and dead transactions stay that way.
* `CommittedIsDurable` — a committed transaction has nothing left in a cache.

Run `retaining` lifts the restriction `RetainFreely = FALSE` (nobody retains in limbo
or while another process is in `TRA_start`) and `SnapshotIsPreserved` is violated. w
has its number and has not read the inventory yet; t, a snapshot, commits retaining:
its new number is above w's and its old one is committed. w finds no active
transaction below its own number and so never asks for the smallest lock word; its
`tra_oldest_active` is its own number, and it collects versions that t's snapshot
needs. The scan for this case, `compute_oldest_retaining`, is compiled for VMS only.

The two bugchecks of `bump_transaction_id` (`tra.cpp:2241-2247`: the next number is
below the oldest active or the oldest interesting one) are not reached: TLC has
confirmed that on the instance of this run, with `hdr.oat` and `hdr.oit` never above
`hdr.next`.

`TRA_commit` is one step, although its flush and the change of the state are two. What
other processes look at, the lock and the state, is the same before and after the
flush, and a death between the two is the case of `crash` in which the pages of the
process have been written.

Left out or assumed: savepoints and version chains; the removal of dead versions by
readers (only the sweep removes); read-only databases; `TRA_precommited()`, the vector
of precommitted numbers of the process; the retaining of precommitted transactions,
which have no records (the new number of a rollback retaining is active without a lock
until it is set committed, so another start may declare it dead in between); a commit
retaining without writes, which only clears `TRA_prepared`; one coordinator reconnects
to a transaction in limbo (the code does not check that nobody else does); what
`TRA_cleanup` writes is on disk at once, and its loop bound for a full inventory page
is taken as the page (`tra.cpp:327` takes one entry more when the ceiling is the first
number of the next page); the limit on numbers is the constant itself, where the code
stops one earlier. Inventory pages are allocated beforehand. Flushing writes all pages
of the process, where `FLUSH_TRAN` selects those of the transaction modulo 32.

## 9. Proofs

### The lock manager

These theorems are about `Spec` for any finite set of requests, any sets of owners
and locks, either value of `LOCK_ordering`, and with deaths wherever `LockManager`
has them (`NullAssumption`, `RequestsAssumption`, `CallersAssumption`).

The inductive invariant is `IInv == Queues /\ Processes`:

* `Queues`: types of requests and locks, `HolderCounts`, `HighestLevel`,
  `PendingCount`, `GrantedCompatible`, `FreeRequests`, `QueueOfLock`;
* `Processes`: types of the rest, `OwnersInTable`, `WaitersOwn`,
  `PendingIsWaited`, `PurgedAreGone`.

Why each part is needed. Compatibility follows from the counts: the highest level
held decides against all others (`HighestDecides`, by the shape of the table), so
a decision taken from `lbl_state` or from the counts without the converter is
right only if the counts are exact. The counts stay exact when a request leaves
only if the queue holds just the requests of the lock (`QueueOfLock`, because the
last request frees the lock), and the pending count only if a request that is
counted is pending once and its owner waits for it (`PendingIsWaited`), which in
turn needs that purging releases nobody's request but those of the dead
(`PurgedAreGone`, `OwnersInTable`, `WaitersOwn`).

* `LockManagerInvariant` — the compatibility table, `lock_state()`, cardinalities of
  the counted sets, and the effect of `grant`, `release_request`, `insert_tail`
  and `remove_que` on the table; then the invariant, what a step must keep of it,
  and the calls that start from `idle`.
* `LockManagerProofs` — the loops, waiting, the scan, blocking routines, process
  life, and the theorems `Invariance`, `TypeCorrect`, `MutualExclusion`,
  `SummaryIsExact`, `LinksHold`.

### The global read/write lock

For any processes, owners, assignment of owners to processes and bounds
(`ConstantsAssumption`). The invariant `IInv` of `GlobalRWLockProofs` has the types
and

* `Granted`: what the lock manager has granted, cached or still on its way in a call,
  is compatible across processes and calls;
* `Calls`, `Queue`: an owner inside `lock()` uses nothing yet and waits once;
* `Counted`: the counters say who uses the lock, and the cached lock covers them;
* `OneWriter`: a writer is alone in its process and counted once;
* `Copies`: a process has a copy of the object exactly while it has a cached lock.

`Counted` is what a release in the wrong moment would break, and it needs `Granted`
because a call replaces the cached lock by one that was granted while the old one was
still there. The theorems are `Invariance`, `Covered` (`LockCoversUsers`),
`CopiesAreCurrent` (`ObjectIsCurrent`), `MutualExclusion` (`Exclusion`) and
`Refinement` (`ImplementsRWLock`): each step of the code is a step of `RWLock` or
leaves it alone, in states of the invariant.

### The physical backup

For any processes, pages and bounds (`PagesAssumption`), with `HalfWrites = FALSE`
(section 6): every theorem has `~HalfWrites` as its hypothesis, and only
`crash_Step` uses it. The inductive invariant `IInv` of `NBackupInvariant` says

* `Locked`: which locks a process has, by the line it is at, and that the lock for
  write leaves no other process with a lock, a dirty page or a cached state;
* `Phase`, `StateKnown`: where a process can be by the state in the header of the main
  file, and how far its `backup_state` and `current_scn` can be behind that header;
* `Headers`, `MergeHeader`: the copies of the header in caches and in the delta;
* `Delta`, `TableKnown`, `Mapped`: the delta has a page once, what a process knows of
  the table is a prefix of it (all of it when its copy is fresh), and a dirty page has
  a place there when it will need one;
* `Cached`: a page in a cache is what a read would return, unless somebody has it
  dirty, and then it is in one cache only;
* `Merges`: what the delta has newer than the main file is dirty at the merging
  process or still on its list;
* `Level0`, `Scns`: a page is as the level 0 backup has it or has an SCN from after it.

`ImplementsPageStore` needs most of this. A read returns the last write only if the
process knows the state (`StateKnown`) and the table (`TableKnown`); a write lands
where later reads look only if the page has its place (`Mapped`); and `end_backup` may
drop the delta only if nothing in it is newer (`Merges`). `Merges` in turn rests on the
SCNs: `end_backup_page` passes a page over when it carries the SCN of the merge
(`nbak.cpp:507`), which is right because nobody has that SCN before the header of the
merge is written. The part `TableKnown` about processes without a lock is what
`missed_cycle` is for: a table that is one backup old is a prefix of nothing, and an
SCN two behind shows it.

`NBackupInvariant` has the invariant, the locks, the table and the steps of the page
cache; `NBackupSteps` the steps of `actualize_state`, `begin_backup` and `end_backup`;
`NBackupProofs` deaths and the theorems `Invariance`, `TypeOKHolds`,
`IncrementIsCompleteHolds`, `TableIsCurrentHolds`, `SecondCheckHoldsAlways`,
`MainIsFrozenHolds` and `Refinement` (`ImplementsPageStore`), the last with one lemma
for each action that names the step of `PageStore` that it is.

### The difference file

For any processes, pages and bounds and any `PageItems` above one
(`PageItemsAssumption`). The inductive invariant `IInv` of `DifferenceFileProofs` says that there is a last place n for which

* `Layout`: the pointer pages list the places up to n, without repetition; the last of
  them is not full; at most two empty pages follow, the second only where it will be
  the next pointer page; a data page holds its own page or nothing yet;
* `Tree`: a process knows the places up to its `last_allocated_page`, at most n;
* `Copy`: a process with a fresh copy knows all of them, except between `allocate_item`
  and `allocate_register`, where it is one behind, or two with a new pointer page; and
  between the fetch for an allocation and its last write, `alloc_buffer` is the last
  pointer page of the file;
* `Locked`: the lock of the table by the line a process is at.

The pages beyond n are what a death or a failed write in the middle of
`allocate_difference_page` leaves behind; the next allocation writes them again.
`PointerPageIsThereHolds`, `BufferIsCurrentHolds` and `OwnPlaceHolds` follow from
`IInv`; `Refinement` (`ImplementsDeltaTable`) also needs that `PlaceOf` and `IndexOf`
are inverse to each other (`IndexOfPlaceOf`, `PlaceOfIndexOf`), so that `Items` is the
sequence of the items up to n (`TableItems`) and grows by one when n moves.

### Transactions

For any processes, page size, modes, limits and bounds (`NumbersAssumption`), and for
`RetainFreely` true or false. The invariant `IInv` of `TransactionsProofs`:

* `Own`: from `TRA_start()` on, a process that may still write the state of its
  transaction holds the lock on the number, or has reconnected to it in limbo, and the
  state on the page is the one this point of the code expects;
* `Successor`: while `retain_context()` moves to a new number, it holds both locks;
* `Awaited`: the transaction that `TRA_wait()` is about to declare dead has no lock,
  and its state is active, or dead already because another process was faster;
* `Disjoint`: no two processes hold or decide the same transaction;
* `Unstarted`, `Cached`: numbers not yet given out are active and have no records, and
  the records that only a process has cached belong to its active transaction before
  the flush, or to a dead one;
* `TypeOK`, `Marks`: types, as far as they are needed.

`FinalStates` is not inductive because `TRA_wait()` looks at the lock, then at the
state, and writes "dead" in a third step. `Awaited` survives in between because locks are
only ever taken on new numbers, and because a number without a lock is written by nobody
else than a waiter, or, in limbo, by who has reconnected to it. Every action is shown
to be a `Step` (what a process may do to the state, the locks and the records), and one
lemma shows that a `Step` keeps the invariant. The theorems are `Invariance`,
`StatesAreFinal` (`FinalStates`) and `CommitIsDurable` (`CommittedIsDurable`). TLC has confirmed `IInv`
on the instance of run `transactions` as well, also with `RetainFreely = TRUE`.

### Only model-checked

`NoForgottenGrant`, `DecidedIsWoken`, `NoOvertaking`, the deadlock properties (what the
recursive walk computes is out of the prover's reach), all liveness (fairness and
`ENABLED` are outside the prover), `TypeOK` of `GlobalRWLock` with its bound on
`internal_blocking`, all of `SharedQueue`, and `SnapshotIsPreserved` and `FinalViewIsTrue` of `Transactions`.

## 10. Not modelled

`PROJECT.json` lists every part of the inventory with its status and the reason.
Record versions, the page cache proper (latches, precedence graph, page-lock ASTs),
shutdown, events and the engine lock layer are protocols and open work. Compilers, the
executor, page layouts, record compression, marshalling, utilities and character sets
are sequential code over large data and are left to tests; they are most of the lines
of the repository.
