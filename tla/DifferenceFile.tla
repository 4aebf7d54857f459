--------------------------- MODULE DifferenceFile ---------------------------
(* The layout of the difference file of nbak.cpp: pointer pages list the   *)
(* database pages that the pages behind them stand for.  Processes read    *)
(* the table and add to it, a write may fail and a process may die between *)
(* any two writes.                                                         *)
EXTENDS Integers, Sequences, Functions, LockLevels

CONSTANTS
  Processes,
  Pages,           \* pages of the database
  NULL,
  PageItems,       \* page_size / sizeof(ULONG): numbers on a page
  MaxErrors,       \* bound: failed writes
  MaxCrashes       \* bound: deaths

ASSUME PageItemsAssumption == PageItems \in Nat /\ PageItems > 1

VARIABLES
  file,            \* the difference file, from page 0 on
  use, fresh,      \* LCK_backup_alloc (RWLock)
  alloc_table,     \* per process: place of each page in the file
  last_allocated_page,
  alloc_buffer,    \* per process: items of the current pointer page
  page,            \* per process: page that it is marking, or NULL
  diff_page,       \* per process: places of the pages in its cache
  pc,
  errors, crashes

lock == <<use, fresh>>
table == <<alloc_table, last_allocated_page, alloc_buffer>>
bounds == <<errors, crashes>>
vars == <<file, lock, table, page, diff_page, pc, bounds>>

Alloc == INSTANCE RWLock WITH Owners <- Processes, Home <- [p \in Processes |-> p]

(* A page is a sequence: the items of a pointer page, the page that a data *)
(* page was written for, or nothing (empty_buffer, pag_undefined).         *)
Empty == <<>>

(* begin_backup has written an empty pointer page. *)
Init ==
  /\ file = <<Empty>>
  /\ Alloc!Init
  /\ alloc_table = [p \in Processes |-> <<>>]
  /\ last_allocated_page = [p \in Processes |-> 0]
  /\ alloc_buffer = [p \in Processes |-> Empty]
  /\ page = [p \in Processes |-> NULL]
  /\ diff_page = [p \in Processes |-> <<>>]
  /\ pc = [p \in Processes |-> "idle"]
  /\ errors = 0 /\ crashes = 0

InFile(n) == n + 1 \in DOMAIN file
FilePage(n) == file[n + 1]

(* PIO_write, which extends the file by at most one page. *)
Written(n, x) == IF InFile(n) THEN [file EXCEPT ![n + 1] = x] ELSE Append(file, x)

PointerPage(n) == (n \div PageItems) * PageItems

Goto(p, l) == pc' = [pc EXCEPT ![p] = l]

(* ------------------------------ the table ------------------------------ *)
(* Mutant: no fetch(). *)
LockAlloc_stale(p, level, next) == Alloc!Lock(p, level) /\ Goto(p, next)

(* Mutant: the copy is good enough for a writer, too. *)
LockAlloc_cached(p, level, next) ==
  /\ Alloc!Lock(p, level)
  /\ Goto(p, IF p \in fresh THEN next ELSE "fetch")

(* lock_alloc, lock_alloc_write: a reader keeps a copy that is known to be *)
(* good; a writer never has the lock cached at its level, and must fetch().*)
LockAlloc(p, level, next) ==
  /\ Alloc!Lock(p, level)
  /\ Goto(p, IF level = Alloc!LCK_read /\ p \in fresh THEN next ELSE "fetch")

(* RWLock's Unlock that keeps the lock cached. *)
Unlock(p) == use' = [use EXCEPT ![p] = LCK_none] /\ UNCHANGED fresh

(* One turn of the loop of actualize_alloc: the items of a pointer page    *)
(* that the process has not seen, and the next pointer page if it is full. *)
actualize_alloc(p) ==
  LET start == PointerPage(last_allocated_page[p])
      items == FilePage(start)
      new == {i \in DOMAIN items : i > last_allocated_page[p] - start}
      full == Len(items) = PageItems - 1
  IN  /\ pc[p] = "fetch" /\ InFile(start)
      /\ alloc_buffer' = [alloc_buffer EXCEPT ![p] = items]
      /\ alloc_table' = [alloc_table EXCEPT ![p] =
           [g \in DOMAIN @ \cup {items[i] : i \in new} |->
              IF \E i \in new : items[i] = g
              THEN start + CHOOSE i \in new : items[i] = g
              ELSE @[g]]]
      /\ last_allocated_page' = [last_allocated_page EXCEPT ![p] =
           start + Len(items) + IF full THEN 1 ELSE 0]
      /\ IF full THEN UNCHANGED pc
         ELSE Goto(p, IF use[p] = Alloc!LCK_read THEN "look" ELSE "allocate")
      /\ UNCHANGED <<file, lock, page, diff_page, bounds>>

(* set_diff_page for a page that the process alone has in its cache. *)
set_diff_page(p, g) ==
  /\ pc[p] = "idle"
  /\ \A q \in Processes : g # page[q] /\ g \notin DOMAIN diff_page[q]
  /\ LockAlloc(p, Alloc!LCK_read, "look")
  /\ page' = [page EXCEPT ![p] = g]
  /\ UNCHANGED <<file, table, diff_page, bounds>>

(* The place d of the page is known. *)
Found(p, d) ==
  /\ diff_page' = [diff_page EXCEPT ![p] =
       [g \in DOMAIN @ \cup {page[p]} |-> IF g = page[p] THEN d ELSE @[g]]]
  /\ page' = [page EXCEPT ![p] = NULL]
  /\ Goto(p, "idle")

get_page_index(p) ==
  /\ pc[p] = "look"
  /\ IF page[p] \in DOMAIN alloc_table[p]
     THEN Found(p, alloc_table[p][page[p]])
     ELSE Goto(p, "lock") /\ UNCHANGED <<page, diff_page>>
  /\ Unlock(p)
  /\ UNCHANGED <<file, table, bounds>>

lock_alloc_write(p) ==
  /\ pc[p] = "lock"
  /\ LockAlloc(p, Alloc!LCK_write, "allocate")
  /\ UNCHANGED <<file, table, page, diff_page, bounds>>

(* --------------------- allocate_difference_page ------------------------ *)
(* With n items on it a pointer page takes only one more. *)
alloc_page_full(n) == n = PageItems - 2

(* Mutant: the next pointer page is not made. *)
allocate_difference_page_only(p) ==
  /\ pc[p] = "allocate"
  /\ IF page[p] \in DOMAIN alloc_table[p]
     THEN /\ Found(p, alloc_table[p][page[p]])
          /\ Unlock(p)
          /\ UNCHANGED file
     ELSE /\ file' = Written(last_allocated_page[p] + 1, Empty)
          /\ Goto(p, "item")
          /\ UNCHANGED <<lock, page, diff_page>>
  /\ UNCHANGED <<table, bounds>>

(* Unless somebody else has added the page, the file grows by a page ... *)
allocate_difference_page(p) ==
  /\ pc[p] = "allocate"
  /\ IF page[p] \in DOMAIN alloc_table[p]
     THEN /\ Found(p, alloc_table[p][page[p]])
          /\ Unlock(p)
          /\ UNCHANGED file
     ELSE /\ file' = Written(last_allocated_page[p] + 1, Empty)
          /\ Goto(p, IF alloc_page_full(Len(alloc_buffer[p])) THEN "pointer" ELSE "item")
          /\ UNCHANGED <<lock, page, diff_page>>
  /\ UNCHANGED <<table, bounds>>

(* ... and by a pointer page, if this one is getting full, ... *)
allocate_pointer_page(p) ==
  /\ pc[p] = "pointer"
  /\ file' = Written(last_allocated_page[p] + 2, Empty)
  /\ Goto(p, "item")
  /\ UNCHANGED <<lock, table, page, diff_page, bounds>>

(* ... before the item is written ... *)
allocate_item(p) ==
  LET items == Append(alloc_buffer[p], page[p])
  IN  /\ pc[p] = "item"
      /\ alloc_buffer' = [alloc_buffer EXCEPT ![p] = items]
      /\ file' = Written(PointerPage(last_allocated_page[p]), items)
      /\ Goto(p, "register")
      /\ UNCHANGED <<lock, alloc_table, last_allocated_page, page, diff_page, bounds>>

(* Mutant: with a new pointer page, its place is returned. *)
allocate_register_last(p) ==
  LET d == last_allocated_page[p] + 1
      full == alloc_page_full(Len(alloc_buffer[p]) - 1)
  IN  /\ pc[p] = "register"
      /\ alloc_table' = [alloc_table EXCEPT ![p] =
           [g \in DOMAIN @ \cup {page[p]} |-> IF g = page[p] THEN d ELSE @[g]]]
      /\ last_allocated_page' = [last_allocated_page EXCEPT ![p] = IF full THEN d + 1 ELSE d]
      /\ alloc_buffer' = [alloc_buffer EXCEPT ![p] = IF full THEN Empty ELSE @]
      /\ Found(p, IF full THEN d + 1 ELSE d)
      /\ Unlock(p)
      /\ UNCHANGED <<file, bounds>>

(* ... and the process takes note of it. *)
allocate_register(p) ==
  LET d == last_allocated_page[p] + 1
      full == alloc_page_full(Len(alloc_buffer[p]) - 1)
  IN  /\ pc[p] = "register"
      /\ alloc_table' = [alloc_table EXCEPT ![p] =
           [g \in DOMAIN @ \cup {page[p]} |-> IF g = page[p] THEN d ELSE @[g]]]
      /\ last_allocated_page' = [last_allocated_page EXCEPT ![p] = IF full THEN d + 1 ELSE d]
      /\ alloc_buffer' = [alloc_buffer EXCEPT ![p] = IF full THEN Empty ELSE @]
      /\ Found(p, d)
      /\ Unlock(p)
      /\ UNCHANGED <<file, bounds>>

(* A write fails: the page is released and the caller gets an error.  The  *)
(* item stays in alloc_buffer, which is one ahead of the file then.        *)
allocate_fails(p) ==
  /\ pc[p] \in {"allocate", "pointer", "item"}
  /\ errors < MaxErrors
  /\ alloc_buffer' = [alloc_buffer EXCEPT ![p] =
                        IF pc[p] = "item" THEN Append(@, page[p]) ELSE @]
  /\ page' = [page EXCEPT ![p] = NULL]
  /\ Goto(p, "idle")
  /\ Unlock(p)
  /\ errors' = errors + 1
  /\ UNCHANGED <<file, alloc_table, last_allocated_page, diff_page, crashes>>

(* -------------------------- pages and processes ------------------------ *)
(* The page is written to its place, and another process may have it. *)
write_difference(p, g) ==
  /\ pc[p] = "idle" /\ g \in DOMAIN diff_page[p]
  /\ file' = Written(diff_page[p][g], <<g>>)
  /\ diff_page' = [diff_page EXCEPT ![p] = Restrict(@, DOMAIN @ \ {g})]
  /\ UNCHANGED <<lock, table, page, pc, bounds>>

crash(p) ==
  /\ crashes < MaxCrashes
  /\ use' = [use EXCEPT ![p] = LCK_none]
  /\ fresh' = fresh \ {p}
  /\ alloc_table' = [alloc_table EXCEPT ![p] = <<>>]
  /\ last_allocated_page' = [last_allocated_page EXCEPT ![p] = 0]
  /\ alloc_buffer' = [alloc_buffer EXCEPT ![p] = Empty]
  /\ page' = [page EXCEPT ![p] = NULL]
  /\ diff_page' = [diff_page EXCEPT ![p] = <<>>]
  /\ Goto(p, "idle")
  /\ crashes' = crashes + 1
  /\ UNCHANGED <<file, errors>>

Next ==
  \E p \in Processes :
    \/ \E g \in Pages : set_diff_page(p, g) \/ write_difference(p, g)
    \/ actualize_alloc(p) \/ get_page_index(p) \/ lock_alloc_write(p)
    \/ allocate_difference_page(p) \/ allocate_pointer_page(p)
    \/ allocate_item(p) \/ allocate_register(p) \/ allocate_fails(p)
    \/ crash(p)

Spec == Init /\ [][Next]_vars

(* ------------------------------ properties ----------------------------- *)
(* The i-th page of the table has its place behind the i-th item, among    *)
(* the places that no pointer page has.                                    *)
PlaceOf(i) == i + (i - 1) \div (PageItems - 1)
IndexOf(d) == d - d \div PageItems

Offset(d) == d % PageItems
Listed(d) == InFile(PointerPage(d)) /\ Offset(d) \in DOMAIN FilePage(PointerPage(d))
Item(d) == FilePage(PointerPage(d))[Offset(d)]

(* All items of the table in the file. *)
Items == [i \in {j \in 1 .. Len(file) : Listed(PlaceOf(j))} |-> Item(PlaceOf(i))]

Table == INSTANCE DeltaTable
           WITH items <- Items,
                known <- [p \in Processes |->
                            [g \in DOMAIN alloc_table[p] |->
                               IndexOf(alloc_table[p][g])]]

(* Whatever fails and whoever dies, the pointer pages are one growing      *)
(* sequence without repetition, and what a process has in its tree is the  *)
(* place of the page in it: allocate_difference_page and actualize_alloc   *)
(* agree about full pointer pages.                                         *)
ImplementsDeltaTable == Table!Spec

(* "We should always be able to read next alloc page when previous one is  *)
(* full": actualize_alloc never reads beyond the end of the file.          *)
PointerPageIsThere ==
  \A p \in Processes :
    pc[p] = "fetch" => InFile(PointerPage(last_allocated_page[p]))

(* The assertion of allocate_difference_page: alloc_buffer is the pointer  *)
(* page that last_allocated_page is on, although a write of it that failed *)
(* has left an item in the buffer that is not in the file.                 *)
BufferIsCurrent ==
  \A p \in Processes :
    pc[p] = "allocate" => Offset(last_allocated_page[p]) = Len(alloc_buffer[p])

(* A page that is to be written has a place in the file that no pointer    *)
(* page and no other page has (write_difference).                          *)
OwnPlace ==
  \A p \in Processes : \A g \in DOMAIN diff_page[p] :
    LET d == diff_page[p][g]
    IN  Offset(d) # 0 /\ InFile(d) /\ FilePage(d) \in {Empty, <<g>>}
=============================================================================
