------------------------------ MODULE NBackup -------------------------------
(* The physical backup of src/jrd/nbak.cpp as the processes of Classic     *)
(* Server run it: begin_backup diverts page writes to a difference file    *)
(* (the delta), end_backup merges the delta back, and the page cache       *)
(* (cch.cpp) finds out at each read, mark and write where a page is.       *)
EXTENDS Integers, Sequences, FiniteSets, Functions, LockLevels

CONSTANTS
  Processes,
  Pages,           \* pages of the database
  HEADER_PAGE,     \* the header page, with the backup state and the SCN
  NULL,
  MaxChanges,      \* bound: changes of pages, all processes together
  MaxScn,          \* bound: no backup begins at a higher SCN
  MaxCrashes,      \* bound: crashes
  HalfWrites       \* may one process die between the two writes of a merge?

nbak_state_unknown == "unknown"
nbak_state_normal == "normal"
nbak_state_stalled == "stalled"
nbak_state_merge == "merge"

(* The state of a database, in its header, and a page as the model has it. *)
States == {nbak_state_normal, nbak_state_stalled, nbak_state_merge}
Page == [ver : Nat, scn : Nat, state : States]

ASSUME PagesAssumption ==
  HEADER_PAGE \in Pages /\ NULL \notin Processes \cup Pages \cup Page \cup Nat

VARIABLES
  main,            \* pages in the main database file
  delta,           \* the difference file: page and content, in order, or NULL
  use, fresh,      \* LCK_backup_database (RWLock)
  alloc_fresh,     \* processes that have LCK_backup_alloc cached
  end_lock,        \* process that holds LCK_backup_end, or NULL
  backup_state,    \* per process: what it takes the backup state for
  current_scn,     \* per process: SCN to put on the pages it changes
  alloc_table,     \* per process: what it knows of the pages in the delta
  buffer,          \* per process: page buffers, NULL if not in the cache
  dirty,           \* per process: buffers with BDB_dirty
  half,            \* per process: page written to the delta, not yet to main
  pc,              \* per process: where it is
  recover,         \* per process: parameter of end_backup
  todo,            \* per process: pages to allocate or to merge
  level0,          \* history: main as the first backup finds it, or NULL
  changes, crashes

locks == <<use, fresh>>
files == <<main, delta>>
table == <<alloc_fresh, alloc_table>>
cache == <<buffer, dirty, half>>
bounds == <<changes, crashes>>
vars == <<files, locks, table, end_lock, backup_state, current_scn, cache,
          pc, recover, todo, level0, bounds>>

Undefined == [ver |-> -1, scn |-> 0, state |-> nbak_state_normal]  \* pag_undefined

(* An attachment uses the lock for its calls; the cache for dirty pages. *)
Attachment(p) == <<p, "attachment">>
Cache(p) == <<p, "database">>
Owners == Processes \X {"attachment", "database"}
Database == INSTANCE RWLock WITH Home <- [o \in Owners |-> o[1]]

Init ==
  /\ main = [g \in Pages |-> [ver |-> 0, scn |-> 0, state |-> nbak_state_normal]]
  /\ delta = NULL
  /\ Database!Init
  /\ alloc_fresh = {}
  /\ end_lock = NULL
  /\ backup_state = [p \in Processes |-> nbak_state_unknown]
  /\ current_scn = [p \in Processes |-> 0]
  /\ alloc_table = [p \in Processes |-> <<>>]
  /\ buffer = [p \in Processes |-> [g \in Pages |-> NULL]]
  /\ dirty = [p \in Processes |-> {}]
  /\ half = [p \in Processes |-> NULL]
  /\ pc = [p \in Processes |-> "idle"]
  /\ recover = [p \in Processes |-> FALSE]
  /\ todo = [p \in Processes |-> {}]
  /\ level0 = NULL
  /\ changes = 0 /\ crashes = 0

(* --------------------- state and allocation table ---------------------- *)
(* NBackupState::invalidate in the processes that lose the lock. *)
Invalidated ==
  backup_state' = [q \in Processes |->
                     IF q \in fresh' THEN backup_state[q] ELSE nbak_state_unknown]

(* RWLock's Unlock that keeps the lock cached until a writer takes it: to  *)
(* give it up earlier only makes the process read the same state again.    *)
Unlock(o) == use' = [use EXCEPT ![o] = LCK_none] /\ UNCHANGED fresh

(* Mutant: a cycle that was missed goes unnoticed. *)
actualize_state_cycle(p) ==
  LET header == main[HEADER_PAGE]
      drop == header.state = nbak_state_normal
  IN  /\ pc[p] # "out"
      /\ p \notin fresh \/ backup_state[p] = nbak_state_unknown
      /\ \A o \in Owners : use[o] # Database!LCK_write
      /\ fresh' = fresh \cup {p}
      /\ backup_state' = [backup_state EXCEPT ![p] = header.state]
      /\ current_scn' = [current_scn EXCEPT ![p] = header.scn]
      /\ alloc_table' = [alloc_table EXCEPT ![p] = IF drop THEN <<>> ELSE @]
      /\ alloc_fresh' = IF drop THEN alloc_fresh \ {p} ELSE alloc_fresh
      /\ UNCHANGED <<use, files, end_lock, cache, pc, recover, todo, level0, bounds>>

(* database_lock->lock(LCK_read), as far as it has to fetch the state. *)
actualize_state(p) ==
  LET header == main[HEADER_PAGE]
      missed_cycle == header.scn - current_scn[p] \notin 0 .. 1  \* unsigned > 1
      drop == header.state = nbak_state_normal \/ missed_cycle
  IN  /\ pc[p] # "out"
      /\ p \notin fresh \/ backup_state[p] = nbak_state_unknown
      /\ \A o \in Owners : use[o] # Database!LCK_write
      /\ fresh' = fresh \cup {p}
      /\ backup_state' = [backup_state EXCEPT ![p] = header.state]
      /\ current_scn' = [current_scn EXCEPT ![p] = header.scn]
      /\ alloc_table' = [alloc_table EXCEPT ![p] = IF drop THEN <<>> ELSE @]
      /\ alloc_fresh' = IF drop THEN alloc_fresh \ {p} ELSE alloc_fresh
      /\ UNCHANGED <<use, files, end_lock, cache, pc, recover, todo, level0, bounds>>

(* Reads the items of the table that the process has not seen yet. *)
actualize_alloc(p) ==
  alloc_table[p] \o
    [i \in 1 .. Len(delta) - Len(alloc_table[p]) |->
       delta[Len(alloc_table[p]) + i].page]

(* The table after lock_alloc. *)
lock_alloc(p) == IF p \in alloc_fresh THEN alloc_table[p] ELSE actualize_alloc(p)

get_page_index(t, g) == IF g \in Range(t) THEN CHOOSE i \in DOMAIN t : t[i] = g ELSE 0

(* --------------------------- the page cache ---------------------------- *)
(* Mutant: no look at the page type. *)
ReadPage_undefined(p, g) ==
  LET i == get_page_index(lock_alloc(p), g)
  IN  IF \/ backup_state[p] = nbak_state_normal
         \/ i = 0
      THEN main[g]
      ELSE delta[i].content

(* Where CCH_fetch_page finds a page. *)
ReadPage(p, g) ==
  LET i == get_page_index(lock_alloc(p), g)
  IN  IF \/ backup_state[p] = nbak_state_normal
         \/ i = 0
         \/ delta[i].content = Undefined
      THEN main[g]
      ELSE delta[i].content

LockAllocIfBackup(p) ==
  IF backup_state[p] = nbak_state_normal
  THEN UNCHANGED table
  ELSE /\ alloc_table' = [alloc_table EXCEPT ![p] = lock_alloc(p)]
       /\ alloc_fresh' = alloc_fresh \cup {p}

(* Page locks: one process has a page for write, or several for read. *)
Readable(p, g) ==
  \A q \in Processes \ {p} :
    g \notin dirty[q] /\ g # half[q] /\ ~(pc[q] = "mark" /\ g \in todo[q])
TakePage(p, g, new) ==
  buffer' = [q \in Processes |->
               [buffer[q] EXCEPT ![g] = IF q = p THEN new ELSE NULL]]

(* The process runs at l, and is not inside write_page. *)
At(p, l) == pc[p] = l /\ half[p] = NULL
Goto(p, l) == pc' = [pc EXCEPT ![p] = l]
Known(p) == p \in fresh /\ backup_state[p] # nbak_state_unknown

CCH_fetch_page(p, g) ==
  /\ At(p, "idle") /\ buffer[p][g] = NULL
  /\ Known(p) /\ Readable(p, g)
  /\ LockAllocIfBackup(p)
  /\ buffer' = [buffer EXCEPT ![p][g] = ReadPage(p, g)]
  /\ UNCHANGED <<files, locks, end_lock, backup_state, current_scn, dirty, half,
                 pc, recover, todo, level0, bounds>>

(* With an unknown state the assertion fails, or the table has no file. *)
CCH_fetch_page_aborts(p, g) ==
  /\ At(p, "idle") /\ buffer[p][g] = NULL
  /\ p \in fresh /\ backup_state[p] = nbak_state_unknown /\ Readable(p, g)
  /\ Goto(p, "aborted")
  /\ UNCHANGED <<files, locks, table, end_lock, backup_state, current_scn, cache,
                 recover, todo, level0, bounds>>

(* Mutant: the SCN of the page stays. *)
Dirtied_scn(p, g, page) ==
  /\ TakePage(p, g, page)
  /\ dirty' = [dirty EXCEPT ![p] = @ \cup {g}]

(* The page is changed, dirty, and released: the cache has a read lock on  *)
(* the backup state until it is written.                                   *)
Dirtied(p, g, page) ==
  /\ TakePage(p, g, [page EXCEPT !.scn = IF g = HEADER_PAGE THEN @ ELSE current_scn[p]])
  /\ dirty' = [dirty EXCEPT ![p] = @ \cup {g}]

(* CCH_MARK and CCH_RELEASE of a page that needs no room in the delta. *)
CCH_mark(p, g) ==
  /\ At(p, "idle") /\ buffer[p][g] # NULL
  /\ p \in fresh /\ Readable(p, g) /\ changes < MaxChanges
  /\ backup_state[p] = nbak_state_stalled => g \in Range(lock_alloc(p))
  /\ IF dirty[p] = {} THEN Database!Lock(Cache(p), Database!LCK_read) ELSE UNCHANGED locks
  /\ IF backup_state[p] = nbak_state_unknown THEN UNCHANGED table ELSE LockAllocIfBackup(p)
  /\ Dirtied(p, g, [buffer[p][g] EXCEPT !.ver = changes + 1])
  /\ changes' = changes + 1
  /\ UNCHANGED <<files, end_lock, backup_state, current_scn, half, pc, recover,
                 todo, level0, crashes>>

(* set_diff_page finds no room for the page yet ... *)
CCH_mark_unmapped(p, g) ==
  /\ At(p, "idle") /\ buffer[p][g] # NULL
  /\ p \in fresh /\ Readable(p, g) /\ changes < MaxChanges
  /\ backup_state[p] = nbak_state_stalled /\ g \notin Range(lock_alloc(p))
  /\ Database!Lock(Attachment(p), Database!LCK_read)
  /\ LockAllocIfBackup(p)
  /\ todo' = [todo EXCEPT ![p] = {g}]
  /\ Goto(p, "mark")
  /\ UNCHANGED <<files, end_lock, backup_state, current_scn, cache, recover,
                 level0, bounds>>

(* ... and, once it has locked the table for write, makes some. *)
allocate_difference_page(p) ==
  /\ At(p, "mark")
  /\ \E g \in todo[p] :
       LET t == actualize_alloc(p)
           found == g \in Range(t)
       IN  /\ alloc_table' = [alloc_table EXCEPT ![p] = IF found THEN t ELSE Append(t, g)]
           /\ delta' = IF found THEN delta
                       ELSE Append(delta, [page |-> g, content |-> Undefined])
           /\ Dirtied(p, g, [buffer[p][g] EXCEPT !.ver = changes + 1])
  /\ alloc_fresh' = {p}
  /\ IF dirty[p] = {} THEN Database!HandOver(Attachment(p), Cache(p))
                      ELSE Unlock(Attachment(p))
  /\ todo' = [todo EXCEPT ![p] = {}]
  /\ changes' = changes + 1
  /\ Goto(p, "idle")
  /\ UNCHANGED <<main, end_lock, backup_state, current_scn, half, recover, level0,
                 crashes>>

(* clear_page_dirty_flag: with the last dirty page goes the lock. *)
Cleaned(p, g) ==
  /\ dirty' = [dirty EXCEPT ![p] = @ \ {g}]
  /\ IF dirty[p] = {g} THEN Unlock(Cache(p)) ELSE UNCHANGED locks

WritesDelta(p, g) ==
  \/ backup_state[p] = nbak_state_stalled
  \/ backup_state[p] = nbak_state_merge /\ g \in Range(alloc_table[p])
(* Mutant: the main file is written in stalled state, too. *)
WritesMain_always(p) == TRUE

WritesMain(p) == backup_state[p] # nbak_state_stalled

ToDelta(p, g, page) ==
  delta' = IF WritesDelta(p, g)
           THEN [delta EXCEPT ![get_page_index(alloc_table[p], g)].content = page]
           ELSE delta

(* write_page, from CCH_flush, from an AST or for the room in the cache. *)
write_page(p, g) ==
  /\ g \in dirty[p] /\ half[p] = NULL
  /\ ToDelta(p, g, buffer[p][g])
  /\ IF WritesDelta(p, g) /\ WritesMain(p)
     THEN /\ half' = [half EXCEPT ![p] = g]
          /\ UNCHANGED <<main, dirty, locks>>
     ELSE /\ main' = IF WritesMain(p) THEN [main EXCEPT ![g] = buffer[p][g]] ELSE main
          /\ Cleaned(p, g)
          /\ UNCHANGED half
  /\ UNCHANGED <<table, end_lock, backup_state, current_scn, buffer, pc, recover,
                 todo, level0, bounds>>

(* The second write of a page in merge state. *)
write_page_main(p) ==
  LET g == half[p]
  IN  /\ g # NULL
      /\ main' = [main EXCEPT ![g] = buffer[p][g]]
      /\ half' = [half EXCEPT ![p] = NULL]
      /\ Cleaned(p, g)
      /\ UNCHANGED <<delta, table, end_lock, backup_state, current_scn, buffer, pc,
                     recover, todo, level0, bounds>>

Evict(p, g) ==
  /\ At(p, "idle") /\ buffer[p][g] # NULL /\ g \notin dirty[p]
  /\ buffer' = [buffer EXCEPT ![p][g] = NULL]
  /\ UNCHANGED <<files, locks, table, end_lock, backup_state, current_scn, dirty,
                 half, pc, recover, todo, level0, bounds>>

(* ------------------------------- backup -------------------------------- *)
(* Flushes the cache and takes the state lock for write, which fetches a   *)
(* state that is not known (actualize_state).                              *)
lock_clean_database(p, from, to) ==
  /\ At(p, from) /\ dirty[p] = {}
  /\ p \in fresh /\ backup_state[p] # nbak_state_unknown
  /\ Database!Lock(Attachment(p), Database!LCK_write)
  /\ Invalidated
  /\ Goto(p, to)
  /\ UNCHANGED <<files, table, end_lock, current_scn, cache, recover, todo, level0,
                 bounds>>

(* The header page, fetched for write. *)
Header(p) ==
  IF buffer[p][HEADER_PAGE] # NULL THEN buffer[p][HEADER_PAGE] ELSE ReadPage(p, HEADER_PAGE)

begin_backup(p) ==
  /\ main[HEADER_PAGE].scn <= MaxScn
  /\ lock_clean_database(p, "idle", "begin")

begin_backup_create(p) ==
  /\ At(p, "begin") /\ backup_state[p] = nbak_state_normal
  /\ delta' = <<>>
  /\ Goto(p, "created")
  /\ UNCHANGED <<main, locks, table, end_lock, backup_state, current_scn, cache,
                 recover, todo, level0, bounds>>

begin_backup_returns(p) ==
  /\ At(p, "begin") /\ backup_state[p] # nbak_state_normal
  /\ Unlock(Attachment(p))
  /\ Goto(p, "idle")
  /\ UNCHANGED <<files, table, end_lock, backup_state, current_scn, cache,
                 recover, todo, level0, bounds>>

(* The difference file cannot be created, or its first page not be written. *)
begin_backup_fails(p) ==
  /\ At(p, "begin") \/ At(p, "created")
  /\ backup_state[p] = nbak_state_normal
  /\ Unlock(Attachment(p))
  /\ backup_state' = [backup_state EXCEPT ![p] = nbak_state_unknown]
  /\ Goto(p, "idle")
  /\ UNCHANGED <<files, table, end_lock, current_scn, cache, recover, todo, level0,
                 bounds>>

(* The header goes to the main file: the state of the process is normal yet. *)
begin_backup_header(p) ==
  LET header == [Header(p) EXCEPT !.scn = @ + 1, !.state = nbak_state_stalled]
  IN  /\ At(p, "created")
      /\ main' = [main EXCEPT ![HEADER_PAGE] = header]
      /\ TakePage(p, HEADER_PAGE, header)
      /\ Unlock(Attachment(p))
      /\ backup_state' = [backup_state EXCEPT ![p] = nbak_state_stalled]
      /\ current_scn' = [current_scn EXCEPT ![p] = header.scn]
      /\ level0' = IF level0 = NULL THEN main' ELSE level0
      /\ Goto(p, "idle")
      /\ UNCHANGED <<delta, table, end_lock, dirty, half, recover, todo, bounds>>

(* There is something to merge, for a recovery only if it was begun. *)
Mergeable(p) ==
  \/ ~recover[p] /\ backup_state[p] = nbak_state_stalled
  \/ backup_state[p] = nbak_state_merge

(* Mutant: LCK_backup_end is not asked for. *)
end_backup_nolock(p) ==
  /\ At(p, IF recover[p] THEN "attach" ELSE "idle") /\ Known(p)
  /\ IF Mergeable(p)
     THEN /\ end_lock' = p
          /\ Goto(p, "clean1")
          /\ UNCHANGED recover
     ELSE /\ Goto(p, "idle")
          /\ recover' = [recover EXCEPT ![p] = FALSE]
          /\ UNCHANGED end_lock
  /\ UNCHANGED <<files, locks, table, backup_state, current_scn, cache, todo, level0,
                 bounds>>

(* Takes LCK_backup_end, without waiting, and looks at the state under a   *)
(* read lock; nobody can tell the order of these from the outside.         *)
end_backup(p) ==
  /\ At(p, IF recover[p] THEN "attach" ELSE "idle") /\ Known(p)
  /\ IF end_lock = NULL /\ Mergeable(p)
     THEN /\ end_lock' = p
          /\ Goto(p, "clean1")
          /\ UNCHANGED recover
     ELSE /\ Goto(p, "idle")
          /\ recover' = [recover EXCEPT ![p] = FALSE]
          /\ UNCHANGED end_lock
  /\ UNCHANGED <<files, locks, table, backup_state, current_scn, cache, todo, level0,
                 bounds>>

(* An attachment to the database first finishes a merge that was cut off. *)
attach(p) ==
  /\ At(p, "out")
  /\ Goto(p, "attach")
  /\ recover' = [recover EXCEPT ![p] = TRUE]
  /\ UNCHANGED <<files, locks, table, end_lock, backup_state, current_scn, cache, todo,
                 level0, bounds>>

(* Mutant: a recovery continues with the SCN of the merge. *)
end_backup_merge_scn(p) ==
  LET scn == IF recover[p] THEN current_scn[p] ELSE current_scn[p] + 1
      header == [Header(p) EXCEPT !.scn = scn, !.state = nbak_state_merge]
      t == lock_alloc(p)
      i == get_page_index(t, HEADER_PAGE)
  IN  /\ At(p, "state1")
      /\ backup_state' = [backup_state EXCEPT ![p] = nbak_state_merge]
      /\ current_scn' = [current_scn EXCEPT ![p] = scn]
      /\ alloc_table' = [alloc_table EXCEPT ![p] = t]
      /\ alloc_fresh' = alloc_fresh \cup {p}
      /\ TakePage(p, HEADER_PAGE, header)
      /\ delta' = IF i = 0 THEN delta ELSE [delta EXCEPT ![i].content = header]
      /\ Goto(p, "main1")
      /\ UNCHANGED <<main, locks, end_lock, dirty, half, recover, todo, level0, bounds>>

(* Step 1: the header says merge, in the delta if it is there, then in main. *)
end_backup_merge(p) ==
  LET header == [Header(p) EXCEPT !.scn = current_scn[p] + 1, !.state = nbak_state_merge]
      t == lock_alloc(p)
      i == get_page_index(t, HEADER_PAGE)
  IN  /\ At(p, "state1")
      /\ backup_state' = [backup_state EXCEPT ![p] = nbak_state_merge]
      /\ current_scn' = [current_scn EXCEPT ![p] = @ + 1]
      /\ alloc_table' = [alloc_table EXCEPT ![p] = t]
      /\ alloc_fresh' = alloc_fresh \cup {p}
      /\ TakePage(p, HEADER_PAGE, header)
      /\ delta' = IF i = 0 THEN delta ELSE [delta EXCEPT ![i].content = header]
      /\ Goto(p, "main1")
      /\ UNCHANGED <<main, locks, end_lock, dirty, half, recover, todo, level0, bounds>>

end_backup_merge_main(p) ==
  /\ At(p, "main1")
  /\ main' = [main EXCEPT ![HEADER_PAGE] = buffer[p][HEADER_PAGE]]
  /\ Unlock(Attachment(p))
  /\ Goto(p, "shared")
  /\ UNCHANGED <<delta, table, end_lock, backup_state, current_scn, cache,
                 recover, todo, level0, bounds>>

(* Step 2: marks each page of the delta that the merge has not seen. *)
end_backup_pages(p) ==
  /\ At(p, "shared") /\ Known(p)
  /\ Database!Lock(Attachment(p), Database!LCK_read)
  /\ alloc_table' = [alloc_table EXCEPT ![p] = actualize_alloc(p)]
  /\ todo' = [todo EXCEPT ![p] = Range(actualize_alloc(p))]
  /\ Goto(p, "merge")
  /\ UNCHANGED <<files, alloc_fresh, end_lock, backup_state, current_scn, cache,
                 recover, level0, bounds>>

Merged(p, page) == page.scn = current_scn[p]

end_backup_page(p, g) ==
  LET page == IF buffer[p][g] # NULL THEN buffer[p][g] ELSE ReadPage(p, g)
  IN  /\ At(p, "merge") /\ g \in todo[p] /\ Readable(p, g)
      /\ LockAllocIfBackup(p)
      /\ IF Merged(p, page)
         THEN TakePage(p, g, page) /\ UNCHANGED <<dirty, locks>>
         ELSE /\ Dirtied(p, g, page)
              /\ IF dirty[p] = {}
                 THEN Database!Lock(Cache(p), Database!LCK_read)
                 ELSE UNCHANGED locks
      /\ todo' = [todo EXCEPT ![p] = @ \ {g}]
      /\ UNCHANGED <<files, end_lock, backup_state, current_scn, half, pc, recover,
                     level0, bounds>>

end_backup_merged(p) ==
  /\ At(p, "merge") /\ todo[p] = {}
  /\ Unlock(Attachment(p))
  /\ Goto(p, "clean3")
  /\ UNCHANGED <<files, table, end_lock, backup_state, current_scn, cache,
                 recover, todo, level0, bounds>>

(* Step 3: the header says normal, in main alone ... *)
end_backup_normal(p) ==
  LET header == [Header(p) EXCEPT !.scn = current_scn[p] + 1, !.state = nbak_state_normal]
  IN  /\ At(p, "state3")
      /\ backup_state' = [backup_state EXCEPT ![p] = nbak_state_normal]
      /\ current_scn' = [current_scn EXCEPT ![p] = @ + 1]
      /\ TakePage(p, HEADER_PAGE, header)
      /\ main' = [main EXCEPT ![HEADER_PAGE] = header]
      /\ Goto(p, "unlink")
      /\ UNCHANGED <<delta, locks, table, end_lock, dirty, half, recover, todo, level0,
                     bounds>>

(* ... and the difference file is removed. *)
end_backup_unlink(p) ==
  /\ At(p, "unlink")
  /\ alloc_table' = [alloc_table EXCEPT ![p] = <<>>]
  /\ alloc_fresh' = alloc_fresh \ {p}
  /\ delta' = NULL
  /\ Unlock(Attachment(p))
  /\ end_lock' = NULL /\ recover' = [recover EXCEPT ![p] = FALSE]
  /\ Goto(p, "idle")
  /\ UNCHANGED <<main, backup_state, current_scn, cache, todo, level0, bounds>>

(* ------------------------------- crashes ------------------------------- *)
Attached == {p \in Processes : pc[p] # "out"}

(* One process dies, or all of them; the lock manager frees their locks. *)
crash(S) ==
  /\ S # {}
  /\ crashes < MaxCrashes \/ \A p \in S : pc[p] = "aborted"
  /\ S = Attached \/ Cardinality(S) = 1
  /\ S = Attached \/ HalfWrites \/ \A p \in S : half[p] = NULL
  /\ use' = [o \in Owners |-> IF o[1] \in S THEN LCK_none ELSE use[o]]
  /\ fresh' = fresh \ S
  /\ Invalidated
  /\ alloc_fresh' = alloc_fresh \ S
  /\ end_lock' = IF end_lock \in S THEN NULL ELSE end_lock
  /\ current_scn' = [p \in Processes |-> IF p \in S THEN 0 ELSE current_scn[p]]
  /\ alloc_table' = [p \in Processes |-> IF p \in S THEN <<>> ELSE alloc_table[p]]
  /\ buffer' = [p \in Processes |-> IF p \in S THEN [g \in Pages |-> NULL] ELSE buffer[p]]
  /\ dirty' = [p \in Processes |-> IF p \in S THEN {} ELSE dirty[p]]
  /\ half' = [p \in Processes |-> IF p \in S THEN NULL ELSE half[p]]
  /\ pc' = [p \in Processes |-> IF p \in S THEN "out" ELSE pc[p]]
  /\ recover' = [p \in Processes |-> p \notin S /\ recover[p]]
  /\ todo' = [p \in Processes |-> IF p \in S THEN {} ELSE todo[p]]
  /\ crashes' = IF \A p \in S : pc[p] = "aborted" THEN crashes ELSE crashes + 1
  /\ UNCHANGED <<files, level0, changes>>

PageAction(p) ==
  \/ \E g \in Pages : \/ CCH_fetch_page(p, g) \/ CCH_fetch_page_aborts(p, g)
                      \/ CCH_mark(p, g) \/ CCH_mark_unmapped(p, g)
                      \/ write_page(p, g) \/ Evict(p, g)
  \/ allocate_difference_page(p)
  \/ write_page_main(p)

BeginAction(p) ==
  \/ begin_backup(p) \/ begin_backup_create(p) \/ begin_backup_returns(p)
  \/ begin_backup_fails(p) \/ begin_backup_header(p)

EndAction(p) ==
  \/ attach(p) \/ end_backup(p)
  \/ lock_clean_database(p, "clean1", "state1")
  \/ end_backup_merge(p) \/ end_backup_merge_main(p)
  \/ end_backup_pages(p) \/ end_backup_merged(p)
  \/ \E g \in Pages : end_backup_page(p, g)
  \/ lock_clean_database(p, "clean3", "state3")
  \/ end_backup_normal(p) \/ end_backup_unlink(p)

Next ==
  \/ \E p \in Processes :
       actualize_state(p) \/ PageAction(p) \/ BeginAction(p) \/ EndAction(p)
  \/ \E S \in SUBSET Attached : crash(S)

Spec == Init /\ [][Next]_vars

(* ------------------------------ properties ----------------------------- *)
(* Types of the variables. *)
TypeOK ==
  /\ DOMAIN main = Pages
  /\ \A g \in Pages : main[g] \in Page
  /\ delta = NULL \/ \A i \in DOMAIN delta : delta[i].page \in Pages
  /\ end_lock \in Processes \cup {NULL}
  /\ fresh \subseteq Processes /\ alloc_fresh \subseteq Processes
  /\ \A p \in Processes :
       /\ backup_state[p] \in {nbak_state_unknown, nbak_state_normal,
                               nbak_state_stalled, nbak_state_merge}
       /\ dirty[p] \cup todo[p] \cup Range(alloc_table[p]) \subseteq Pages
       /\ half[p] \in Pages \cup {NULL}
       /\ \A g \in Pages : buffer[p][g] = NULL \/ buffer[p][g] \in Page

DeltaPages == [i \in DOMAIN delta |-> delta[i].page]

(* What the two files together say of a page: what a read must return. *)
Stable(g) ==
  IF \/ main[HEADER_PAGE].state = nbak_state_normal
     \/ g \notin Range(DeltaPages)
     \/ delta[get_page_index(DeltaPages, g)].content = Undefined
  THEN main[g].ver
  ELSE delta[get_page_index(DeltaPages, g)].content.ver

Store == INSTANCE PageStore
           WITH stable <- [g \in Pages |-> Stable(g)],
                cache <- [p \in Processes |-> [g \in Pages |->
                            IF buffer[p][g] = NULL THEN NULL ELSE buffer[p][g].ver]]

(* A backup is invisible to the page cache: through begin_backup, the      *)
(* merge, its interruption and its recovery, a page is read as it was last *)
(* written, by whichever process (cch.cpp, CCH_fetch_page and write_page). *)
ImplementsPageStore == Store!Spec

(* The main file does not change while nbackup copies it, whatever the     *)
(* processes write in the meantime (nbak.h: in stalled state "the main     *)
(* files are read-only").                                                  *)
MainIsFrozen ==
  [][ main[HEADER_PAGE].state = nbak_state_stalled /\ main'[HEADER_PAGE].state = nbak_state_stalled
        => main' = main ]_vars

(* An incremental backup copies the pages with an SCN above that of the    *)
(* backup before it (nbackup.cpp): any page that it leaves out is as it    *)
(* was then, and none looks as if it had changed since begin_backup.       *)
IncrementIsComplete ==
  main[HEADER_PAGE].state = nbak_state_stalled =>
    /\ \A g \in Pages \ {HEADER_PAGE} : main[g].scn < main[HEADER_PAGE].scn
    /\ level0 # NULL =>
         \A g \in Pages : main[g].scn < level0[HEADER_PAGE].scn => main[g].ver = level0[g].ver

(* The copy of the allocation table that a process trusts is the table of  *)
(* the difference file, not one left from an earlier backup                *)
(* (actualize_state, missed_cycle), and has no page twice.                 *)
TableIsCurrent ==
  \A p \in fresh \cap alloc_fresh :
    backup_state[p] \in {nbak_state_stalled, nbak_state_merge} =>
      alloc_table[p] = DeltaPages /\ IsInjective(alloc_table[p])

(* end_backup checks the state, unlocks the database and locks it again:   *)
(* thanks to LCK_backup_end the second check cannot fail, which would      *)
(* return with the header page still fetched.                              *)
SecondCheckHolds == \A p \in Processes : pc[p] = "state1" => Mergeable(p)
=============================================================================
