-------------------------- MODULE NBackupInvariant --------------------------
(* The inductive invariant of NBackup and its proof for the steps of the   *)
(* page cache: locks, fetch, mark, write. The invariant says what a        *)
(* process that holds the database lock may rely on (the header, the state *)
(* and the table that it knows), where each page is, and which pages a     *)
(* merge has still to write.                                               *)
EXTENDS NBackup, TLAPS

(* The header page in the main file. *)
H == main[HEADER_PAGE]
(* A page of the delta. *)
Entry == [page : Pages, content : Page \cup {Undefined}]

(* Where a process has the database lock for write, where for read, where  *)
(* end_backup has shut out others of its kind, and all that is left.       *)
Writing == {"begin", "created", "state1", "main1", "state3", "unlink"}
Reading == {"mark", "merge"}
Merging == {"shared", "merge", "clean3", "state3"}
Ending == {"shared", "merge", "clean3", "state3", "clean1", "state1", "main1", "unlink"}
Outside == {"idle", "mark", "begin", "created", "attach", "out", "aborted"}

(* Types of the variables. *)
Types ==
  /\ main \in [Pages -> Page]
  /\ delta = NULL \/ delta \in Seq(Entry)
  /\ use \in [Owners -> {LCK_none, Database!LCK_read, Database!LCK_write}]
  /\ fresh \subseteq Processes /\ alloc_fresh \subseteq Processes
  /\ end_lock \in Processes \cup {NULL}
  /\ backup_state \in [Processes -> States \cup {nbak_state_unknown}]
  /\ current_scn \in [Processes -> Nat]
  /\ alloc_table \in [Processes -> Seq(Pages)]
  /\ buffer \in [Processes -> [Pages -> Page \cup {NULL}]]
  /\ dirty \in [Processes -> SUBSET Pages]
  /\ half \in [Processes -> Pages \cup {NULL}]
  /\ pc \in [Processes -> Ending \cup Outside]
  /\ recover \in [Processes -> BOOLEAN]
  /\ todo \in [Processes -> SUBSET Pages]
  /\ level0 = NULL \/ level0 \in [Pages -> Page]
  /\ changes \in Nat

(* What locks a process has, by what it is doing. *)
Locked(p) ==
  /\ use[Attachment(p)] = IF pc[p] \in Writing THEN Database!LCK_write
                          ELSE IF pc[p] \in Reading THEN Database!LCK_read ELSE LCK_none
  /\ use[Cache(p)] = IF dirty[p] = {} THEN LCK_none ELSE Database!LCK_read
  /\ pc[p] \in Writing \cup Reading \/ dirty[p] # {} => p \in fresh
  /\ pc[p] \in Writing =>
       /\ fresh = {p} /\ \A q \in Processes : dirty[q] = {}
       /\ \A q \in Processes \ {p} : pc[q] \notin Writing \cup Reading
  /\ end_lock = p <=> pc[p] \in Ending
  /\ half[p] # NULL => half[p] \in dirty[p] /\ H.state = nbak_state_merge
  /\ pc[p] = "out" => p \notin fresh
  /\ todo[p] # {} => pc[p] \in {"mark", "merge"}

(* Where a process may be, by the state in the header. *)
Phase(p) ==
  /\ pc[p] = "created" =>
       H.state = nbak_state_normal /\ delta = <<>> /\ backup_state[p] = nbak_state_normal
  /\ pc[p] = "mark" => H.state = nbak_state_stalled
  /\ pc[p] \in {"clean1", "state1", "main1"} =>
       \/ H.state = nbak_state_stalled /\ ~recover[p]
       \/ H.state = nbak_state_merge
  /\ pc[p] \in Merging => H.state = nbak_state_merge
  /\ pc[p] = "unlink" => H.state = nbak_state_normal

(* What a process knows of the header. *)
StateKnown(p) ==
  /\ p \notin fresh => backup_state[p] = nbak_state_unknown
  /\ p \in fresh /\ backup_state[p] = nbak_state_unknown =>
       H.state = nbak_state_normal /\ pc[p] \in {"idle", "begin", "aborted"}
  /\ p \in fresh /\ backup_state[p] # nbak_state_unknown =>
       backup_state[p] = IF pc[p] = "main1" THEN nbak_state_merge ELSE H.state
  /\ pc[p] # "main1" => current_scn[p] <= H.scn
  /\ p \in fresh /\ H.state # nbak_state_merge /\ pc[p] # "main1" => current_scn[p] = H.scn
  /\ p \in fresh => H.scn <= current_scn[p] + 1
  /\ p \in fresh /\ pc[p] \in Merging \cup {"main1"} => H.scn <= current_scn[p]

(* The delta has a place for page g. *)
InDelta(g) == \E i \in DOMAIN delta : delta[i].page = g

(* A copy of the header page, in the delta or in a cache. *)
HeaderCopy(c) ==
  /\ H.state = nbak_state_normal => c.state = nbak_state_normal /\ c.scn = H.scn
  /\ H.state = nbak_state_merge =>
       /\ c.state = nbak_state_merge /\ H.scn <= c.scn /\ c.scn <= H.scn + 1
       /\ \A p \in fresh : c.scn <= current_scn[p] + 1
       /\ \A p \in Processes : pc[p] \in Merging => c.scn = H.scn

(* Every copy of the header page, in a cache and in the delta, is such a   *)
(* copy.                                                                   *)
Headers ==
  /\ \A p \in Processes : buffer[p][HEADER_PAGE] # NULL => HeaderCopy(buffer[p][HEADER_PAGE])
  /\ H.state # nbak_state_normal =>
       \A i \in DOMAIN delta :
         delta[i].page = HEADER_PAGE /\ delta[i].content # Undefined =>
           HeaderCopy(delta[i].content)

(* Between the two writes of the header of a merge. *)
MergeHeader(p) ==
  pc[p] = "main1" =>
    /\ buffer[p][HEADER_PAGE] # NULL
    /\ buffer[p][HEADER_PAGE].state = nbak_state_merge
    /\ buffer[p][HEADER_PAGE].scn = current_scn[p]
    /\ \A q \in Processes \ {p} : buffer[q][HEADER_PAGE] = NULL
    /\ \A i \in DOMAIN delta :
         delta[i].page = HEADER_PAGE => delta[i].content = buffer[p][HEADER_PAGE]
    /\ ~InDelta(HEADER_PAGE) => buffer[p][HEADER_PAGE].ver = main[HEADER_PAGE].ver

(* The delta is there during a backup, and has one place for a page. *)
Delta ==
  H.state # nbak_state_normal =>
    /\ delta \in Seq(Entry)
    /\ \A i, j \in DOMAIN delta : delta[i].page = delta[j].page => i = j

(* The table of a process is the beginning of the table in the delta. *)
Prefix(p) ==
  /\ Len(alloc_table[p]) <= Len(delta)
  /\ \A i \in 1 .. Len(alloc_table[p]) : alloc_table[p][i] = delta[i].page
  /\ p \in alloc_fresh => Len(alloc_table[p]) = Len(delta)

(* What a process knows of the table: a prefix, or all of it. *)
TableKnown(p) ==
  /\ H.state # nbak_state_normal =>
       (backup_state[p] # nbak_state_unknown \/ H.scn <= current_scn[p] + 1 => Prefix(p))
  /\ H.state = nbak_state_normal /\ current_scn[p] >= H.scn /\ pc[p] # "unlink" =>
       alloc_table[p] = <<>> /\ p \notin alloc_fresh

(* A page that a process has changed has its place, if it needs one. *)
Mapped(p) ==
  H.state # nbak_state_normal =>
    \A g \in dirty[p] :
      InDelta(g) \/ H.state = nbak_state_stalled => g \in Range(alloc_table[p])

(* No process has page g dirty. *)
Clean(g) == \A p \in Processes : g \notin dirty[p]

(* c is what a read of page g returns. *)
Current(g, c) ==
  IF H.state # nbak_state_normal /\ InDelta(g)
  THEN \A i \in DOMAIN delta :
         delta[i].page = g =>
           c = IF delta[i].content = Undefined THEN main[g] ELSE delta[i].content
  ELSE c = main[g]

(* A clean page in a cache is the current one, and a dirty page is in one  *)
(* cache only.                                                             *)
Cached(p, g) ==
  /\ buffer[p][g] # NULL /\ Clean(g) =>
       Current(g, buffer[p][g]) \/ (g = HEADER_PAGE /\ pc[p] = "main1")
  /\ half[p] = g => InDelta(g) /\ Current(g, buffer[p][g])
  /\ g \in dirty[p] =>
       /\ buffer[p][g] # NULL
       /\ \A q \in Processes \ {p} : g \notin dirty[q] /\ buffer[q][g] = NULL
  /\ pc[p] = "mark" /\ g \in todo[p] =>
       /\ todo[p] = {g} /\ buffer[p][g] # NULL
       /\ \A q \in Processes \ {p} : g \notin dirty[q] /\ ~(pc[q] = "mark" /\ g \in todo[q])
  /\ pc[p] = "out" => buffer[p][g] = NULL

(* The delta has a newer page than the main file. *)
Newer(i) ==
  /\ delta[i].content # Undefined /\ main[delta[i].page] # delta[i].content
  /\ \A p \in Processes : half[p] # delta[i].page

(* A page of the delta that is newer than the page of the main file is     *)
(* still to be merged.                                                     *)
Merges(i) ==
  Newer(i) =>
    /\ delta[i].page # HEADER_PAGE =>
         /\ delta[i].content.scn <= H.scn
         /\ \A p \in fresh : delta[i].content.scn <= current_scn[p]
         /\ \A p \in Processes : pc[p] = "main1" => delta[i].content.scn < current_scn[p]
    /\ \A p \in Processes : pc[p] \in Merging /\ delta[i].page \notin dirty[p] =>
         /\ delta[i].page # HEADER_PAGE /\ delta[i].content.scn < H.scn
         /\ pc[p] = "shared" \/ (pc[p] = "merge" /\ delta[i].page \in todo[p])

(* c is a page as it was at level 0, or it has been marked since. *)
Old(g, c) ==
  /\ c.scn <= H.scn
  /\ level0 # NULL => (c.scn < level0[HEADER_PAGE].scn => c.ver = level0[g].ver)

(* The level 0 backup is not newer than what the processes know. *)
Level0 ==
  level0 # NULL =>
    /\ level0[HEADER_PAGE].scn <= H.scn
    /\ \A p \in fresh : level0[HEADER_PAGE].scn <= current_scn[p]

(* A page other than the header is as it was at level 0, or has been       *)
(* marked since.                                                           *)
Scns(g) ==
  g # HEADER_PAGE =>
    /\ Old(g, main[g])
    /\ H.state = nbak_state_stalled => main[g].scn < H.scn
    /\ \A p \in Processes : buffer[p][g] # NULL => Old(g, buffer[p][g])
    /\ H.state # nbak_state_normal =>
         \A i \in DOMAIN delta :
           delta[i].page = g /\ delta[i].content # Undefined => Old(g, delta[i].content)

(* The inductive invariant. *)
IInv ==
  /\ Types /\ Delta /\ Headers /\ Level0
  /\ \A p \in Processes :
       Locked(p) /\ Phase(p) /\ StateKnown(p) /\ MergeHeader(p) /\ TableKnown(p) /\ Mapped(p)
  /\ \A g \in Pages : Scns(g) /\ \A p \in Processes : Cached(p, g)
  /\ H.state # nbak_state_normal => \A i \in DOMAIN delta : Merges(i)

-----------------------------------------------------------------------------
(* The order of the SCNs. *)
LEMMA Order ==
  /\ \A a, b, c \in Nat : a <= b /\ b <= c => a <= c
  /\ \A a, b, c \in Nat : a <= b /\ b <= c + 1 => a <= c + 1
  /\ \A a \in Nat : a <= a /\ a <= a + 1
OBVIOUS

(* Reading the locks. *)
NoWriter == \A q \in Processes : use[Attachment(q)] # Database!LCK_write

(* What a process gets with the database lock of its attachment. *)
LEMMA AttachmentLock ==
  ASSUME Types, NEW p \in Processes, NEW v, Database!Lock(Attachment(p), v),
         v \in {Database!LCK_read, Database!LCK_write}
  PROVE  /\ use[Attachment(p)] = LCK_none
         /\ use' \in [Owners -> {LCK_none, Database!LCK_read, Database!LCK_write}]
         /\ \A q \in Processes :
              /\ use'[Attachment(q)] = IF q = p THEN v ELSE use[Attachment(q)]
              /\ use'[Cache(q)] = use[Cache(q)]
         /\ v = Database!LCK_write =>
              /\ fresh' = {p}
              /\ \A q \in Processes : use[Attachment(q)] = LCK_none /\ use[Cache(q)] = LCK_none
         /\ v = Database!LCK_read => NoWriter /\ fresh' = fresh \cup {p}
<1>1. Attachment(p) \in Owners /\ Attachment(p)[1] = p
  BY Zenon DEF Attachment, Owners
<1>2. \A q \in Processes : Attachment(q) \in Owners /\ Cache(q) \in Owners
  BY Zenon DEF Attachment, Cache, Owners
<1>3. \A q \in Processes : (q # p => Attachment(q) # Attachment(p)) /\ Cache(q) # Attachment(p)
  BY Zenon DEF Attachment, Cache
<1>4. [o \in Owners |-> o[1]][Attachment(p)] = p
  BY <1>1, Zenon
<1> QED
  BY <1>1, <1>2, <1>3, <1>4 DEF Database!Lock, Types, NoWriter, Database!LCK_read,
     Database!LCK_write, LCK_none, Database!LCK_none,
     Database!LCK_PR, Database!LCK_EX

(* What a process gets with the database lock of its cache. *)
LEMMA CacheLock ==
  ASSUME Types, NEW p \in Processes, Database!Lock(Cache(p), Database!LCK_read)
  PROVE  /\ use[Cache(p)] = LCK_none
         /\ use' \in [Owners -> {LCK_none, Database!LCK_read, Database!LCK_write}]
         /\ \A q \in Processes :
              /\ use'[Attachment(q)] = use[Attachment(q)]
              /\ use'[Cache(q)] = IF q = p THEN Database!LCK_read ELSE use[Cache(q)]
         /\ NoWriter /\ fresh' = fresh \cup {p}
<1>1. Cache(p) \in Owners /\ Cache(p)[1] = p
  BY Zenon DEF Cache, Owners
<1>2. \A q \in Processes : Attachment(q) \in Owners /\ Cache(q) \in Owners
  BY Zenon DEF Attachment, Cache, Owners
<1>3. \A q \in Processes : (q # p => Cache(q) # Cache(p)) /\ Attachment(q) # Cache(p)
  BY Zenon DEF Attachment, Cache
<1>4. [o \in Owners |-> o[1]][Cache(p)] = p
  BY <1>1, Zenon
<1> QED
  BY <1>1, <1>2, <1>3, <1>4 DEF Database!Lock, Types, NoWriter, Database!LCK_read,
     Database!LCK_write, LCK_none, Database!LCK_none,
     Database!LCK_PR, Database!LCK_EX

(* The lock of the attachment is given up. *)
LEMMA AttachmentUnlock ==
  ASSUME Types, NEW p \in Processes, Unlock(Attachment(p))
  PROVE  /\ use' \in [Owners -> {LCK_none, Database!LCK_read, Database!LCK_write}]
         /\ \A q \in Processes :
              /\ use'[Attachment(q)] = IF q = p THEN LCK_none ELSE use[Attachment(q)]
              /\ use'[Cache(q)] = use[Cache(q)]
         /\ fresh' = fresh
<1>1. \A q \in Processes : Attachment(q) \in Owners /\ Cache(q) \in Owners
  BY Zenon DEF Attachment, Cache, Owners
<1>2. \A q \in Processes : (q # p => Attachment(q) # Attachment(p)) /\ Cache(q) # Attachment(p)
  BY Zenon DEF Attachment, Cache
<1> QED
  BY <1>1, <1>2, Zenon DEF Unlock, Types

(* The lock of the cache is given up. *)
LEMMA CacheUnlock ==
  ASSUME Types, NEW p \in Processes, Unlock(Cache(p))
  PROVE  /\ use' \in [Owners -> {LCK_none, Database!LCK_read, Database!LCK_write}]
         /\ \A q \in Processes :
              /\ use'[Attachment(q)] = use[Attachment(q)]
              /\ use'[Cache(q)] = IF q = p THEN LCK_none ELSE use[Cache(q)]
         /\ fresh' = fresh
<1>1. \A q \in Processes : Attachment(q) \in Owners /\ Cache(q) \in Owners
  BY Zenon DEF Attachment, Cache, Owners
<1>2. \A q \in Processes : (q # p => Cache(q) # Cache(p)) /\ Attachment(q) # Cache(p)
  BY Zenon DEF Attachment, Cache
<1> QED
  BY <1>1, <1>2, Zenon DEF Unlock, Types

(* The attachment gives its lock to the cache. *)
LEMMA LockHandOver ==
  ASSUME Types, NEW p \in Processes, Database!HandOver(Attachment(p), Cache(p))
  PROVE  /\ use' \in [Owners -> {LCK_none, Database!LCK_read, Database!LCK_write}]
         /\ \A q \in Processes :
              /\ use'[Attachment(q)] = IF q = p THEN LCK_none ELSE use[Attachment(q)]
              /\ use'[Cache(q)] = IF q = p THEN use[Attachment(p)] ELSE use[Cache(q)]
         /\ fresh' = fresh
<1>1. \A q \in Processes : Attachment(q) \in Owners /\ Cache(q) \in Owners
  BY Zenon DEF Attachment, Cache, Owners
<1>2. \A q \in Processes :
        /\ q # p => Attachment(q) # Attachment(p) /\ Cache(q) # Cache(p)
        /\ Attachment(q) # Cache(p) /\ Cache(q) # Attachment(p)
  BY Zenon DEF Attachment, Cache
<1> QED
  BY <1>1, <1>2, Zenon DEF Database!HandOver, Types, Database!LCK_none, LCK_none

(* The locks of the dead are given up. *)
LEMMA CrashUnlock ==
  ASSUME Types, NEW S \in SUBSET Processes,
         use' = [o \in Owners |-> IF o[1] \in S THEN LCK_none ELSE use[o]]
  PROVE  /\ use' \in [Owners -> {LCK_none, Database!LCK_read, Database!LCK_write}]
         /\ \A q \in Processes :
              /\ use'[Attachment(q)] = IF q \in S THEN LCK_none ELSE use[Attachment(q)]
              /\ use'[Cache(q)] = IF q \in S THEN LCK_none ELSE use[Cache(q)]
<1>1. \A q \in Processes :
        /\ Attachment(q) \in Owners /\ Cache(q) \in Owners
        /\ Attachment(q)[1] = q /\ Cache(q)[1] = q
  BY Zenon DEF Attachment, Cache, Owners
<1> QED
  BY <1>1, Zenon DEF Types

-----------------------------------------------------------------------------
(* Reading the table of the delta. *)
LEMMA SameSequence ==
  ASSUME NEW S, NEW s \in Seq(S), NEW t \in Seq(S), Len(s) = Len(t),
         \A i \in 1 .. Len(s) : s[i] = t[i]
  PROVE  s = t
<1> QED
  OBVIOUS

(* get_page_index finds a page of the table, and only those. *)
LEMMA PageIndex ==
  ASSUME NEW t, NEW g
  PROVE  /\ g \in Range(t) =>
              get_page_index(t, g) \in DOMAIN t /\ t[get_page_index(t, g)] = g
         /\ g \notin Range(t) => get_page_index(t, g) = 0
<1>1. g \in Range(t) <=> \E i \in DOMAIN t : t[i] = g
  BY Zenon DEF Range
<1> QED
  BY <1>1, Zenon DEF get_page_index

(* The place that the table of the delta gives a page has that page. *)
LEMMA DeltaIndex ==
  ASSUME delta \in Seq(Entry), NEW g
  PROVE  /\ DeltaPages \in Seq(Pages) /\ DOMAIN DeltaPages = DOMAIN delta
         /\ Len(DeltaPages) = Len(delta)
         /\ \A i \in DOMAIN delta : DeltaPages[i] = delta[i].page
         /\ g \in Range(DeltaPages) <=> InDelta(g)
         /\ InDelta(g) => /\ get_page_index(DeltaPages, g) \in DOMAIN delta
                          /\ delta[get_page_index(DeltaPages, g)].page = g
         /\ ~InDelta(g) => get_page_index(DeltaPages, g) = 0
<1>1. DOMAIN delta = 1 .. Len(delta) /\ Len(delta) \in Nat
  OBVIOUS
<1>2. \A i \in DOMAIN delta : delta[i].page \in Pages
  <2>1. \A i \in DOMAIN delta : delta[i] \in Entry
    OBVIOUS
  <2> QED
    BY <2>1, Zenon DEF Entry
<1>3. DeltaPages \in Seq(Pages) /\ Len(DeltaPages) = Len(delta)
  BY <1>1, <1>2 DEF DeltaPages
<1>4. DOMAIN DeltaPages = DOMAIN delta /\ \A i \in DOMAIN delta : DeltaPages[i] = delta[i].page
  BY Zenon DEF DeltaPages
<1>5. g \in Range(DeltaPages) <=> InDelta(g)
  BY <1>4, Zenon DEF Range, InDelta
<1> QED
  BY <1>3, <1>4, <1>5, PageIndex, Zenon

(* The place that an old table gives a page has that page. *)
LEMMA PrefixRange ==
  ASSUME Types, delta \in Seq(Entry), NEW p \in Processes, Prefix(p), NEW g
  PROVE  /\ g \in Range(alloc_table[p]) => InDelta(g)
         /\ g \in Range(alloc_table[p]) =>
              /\ get_page_index(alloc_table[p], g) \in DOMAIN delta
              /\ delta[get_page_index(alloc_table[p], g)].page = g
<1>1. alloc_table[p] \in Seq(Pages)
  BY Zenon DEF Types
<1>2. \A i \in DOMAIN alloc_table[p] : i \in DOMAIN delta /\ alloc_table[p][i] = delta[i].page
  BY <1>1 DEF Prefix
<1>3. g \in Range(alloc_table[p]) =>
        /\ get_page_index(alloc_table[p], g) \in DOMAIN alloc_table[p]
        /\ alloc_table[p][get_page_index(alloc_table[p], g)] = g
  BY PageIndex, Zenon
<1> QED
  BY <1>2, <1>3, Zenon DEF InDelta

(* actualize_alloc, and with it lock_alloc, ends with the table of the     *)
(* delta.                                                                  *)
LEMMA TableRead ==
  ASSUME Types, delta \in Seq(Entry), NEW p \in Processes, Prefix(p)
  PROVE  actualize_alloc(p) = DeltaPages /\ lock_alloc(p) = DeltaPages
<1> DEFINE t == alloc_table[p]
           rest == [i \in 1 .. Len(delta) - Len(t) |-> delta[Len(t) + i].page]
<1>1. t \in Seq(Pages) /\ Len(t) \in Nat /\ Len(delta) \in Nat
  BY DEF Types
<1>2. Len(t) <= Len(delta) /\ \A i \in 1 .. Len(t) : t[i] = delta[i].page
  BY Zenon DEF Prefix
<1>3. \A i \in 1 .. Len(delta) : delta[i].page \in Pages
  <2>1. \A i \in 1 .. Len(delta) : delta[i] \in Entry
    OBVIOUS
  <2> QED
    BY <2>1, Zenon DEF Entry
<1>4. rest \in Seq(Pages) /\ Len(rest) = Len(delta) - Len(t)
  BY <1>1, <1>2, <1>3
<1>5. \A i \in 1 .. Len(rest) : rest[i] = delta[Len(t) + i].page
  BY <1>4, Zenon
<1>6. DeltaPages \in Seq(Pages) /\ Len(DeltaPages) = Len(delta)
      /\ \A i \in 1 .. Len(delta) : DeltaPages[i] = delta[i].page
  BY DeltaIndex
<1> HIDE DEF t, rest
<1>7. t \o rest \in Seq(Pages) /\ Len(t \o rest) = Len(delta)
  BY <1>1, <1>4, SMTT(30)
<1>8. \A i \in 1 .. Len(delta) : (t \o rest)[i] = DeltaPages[i]
  <2> SUFFICES ASSUME NEW i \in 1 .. Len(delta) PROVE (t \o rest)[i] = delta[i].page
    BY <1>6, Zenon
  <2>1. CASE i <= Len(t)
    BY <1>1, <1>2, <1>4, <2>1, SMTT(30)
  <2>2. CASE i > Len(t)
    <3>1. i - Len(t) \in 1 .. Len(rest) /\ Len(t) + (i - Len(t)) = i
      BY <1>1, <1>2, <1>4, <2>2
    <3>2. (t \o rest)[i] = rest[i - Len(t)]
      BY <1>1, <1>4, <2>2, <3>1
    <3> QED
      BY <1>5, <3>1, <3>2, Zenon
  <2>3. i <= Len(t) \/ i > Len(t)
    BY <1>1
  <2> QED
    BY <2>1, <2>2, <2>3, Zenon
<1>9. t \o rest = DeltaPages
  BY <1>1, <1>6, <1>7, <1>8, SameSequence, Zenon
<1>10. actualize_alloc(p) = DeltaPages
  BY <1>9, Zenon DEF actualize_alloc, t, rest
<1>11. ASSUME p \in alloc_fresh PROVE t = DeltaPages
  BY <1>1, <1>2, <1>6, <1>11, SameSequence, ZenonT(30) DEF Prefix, t
<1> QED
  BY <1>10, <1>11, Zenon DEF lock_alloc, t

(* A page that a process fetches is the current page. *)
LEMMA ReadIsCurrent ==
  ASSUME Types, Delta, NEW p \in Processes, NEW g \in Pages,
         H.state # nbak_state_normal => lock_alloc(p) = DeltaPages,
         backup_state[p] = nbak_state_normal <=> H.state = nbak_state_normal
  PROVE  Current(g, ReadPage(p, g)) /\ ReadPage(p, g) \in Page
<1> DEFINE i == get_page_index(DeltaPages, g)
<1>1. main[g] \in Page
  BY Zenon DEF Types
<1>2. CASE H.state = nbak_state_normal
  BY <1>1, <1>2, Zenon DEF Current, ReadPage
<1>3. CASE H.state # nbak_state_normal
  <2>1. delta \in Seq(Entry) /\ \A k, j \in DOMAIN delta : delta[k].page = delta[j].page => k = j
    BY <1>3, Zenon DEF Delta
  <2>2. /\ InDelta(g) => i \in DOMAIN delta /\ delta[i].page = g
        /\ ~InDelta(g) => i = 0
    BY <2>1, DeltaIndex, Zenon
  <2>3. ReadPage(p, g) = IF i = 0 \/ delta[i].content =
          Undefined THEN main[g] ELSE delta[i].content
    BY <1>3, Zenon DEF ReadPage
  <2> HIDE DEF i
  <2>4. CASE InDelta(g)
    <3>0. i \in DOMAIN delta /\ delta[i].page = g /\ i # 0 /\ delta[i] \in Entry
      BY <2>1, <2>2, <2>4
    <3>1. i \in DOMAIN delta /\ delta[i].page =
            g /\ i # 0 /\ delta[i].content \in Page \cup {Undefined}
      BY <3>0, Zenon DEF Entry
    <3>2. \A j \in DOMAIN delta : delta[j].page = g => j = i
      BY <2>1, <3>1, Zenon
    <3> QED
      BY <1>1, <1>3, <2>3, <2>4, <3>1, <3>2, Zenon DEF Current
  <2>5. CASE ~InDelta(g)
    BY <1>1, <2>2, <2>3, <2>5, Zenon DEF Current
  <2> QED
    BY <2>4, <2>5, Zenon
<1> QED
  BY <1>2, <1>3, Zenon

-----------------------------------------------------------------------------
(* What a step leaves alone. *)
LEMMA KeepLocked ==
  ASSUME \A q \in Processes : Locked(q), H'.state = H.state,
         UNCHANGED <<use, fresh, pc, dirty, half, end_lock, todo>>
  PROVE  \A q \in Processes : Locked(q)'
<1> QED
  BY ZenonT(30) DEF Locked

(* A step that leaves the places of the processes alone. *)
LEMMA KeepPhase ==
  ASSUME \A q \in Processes : Phase(q), H'.state = H.state,
         UNCHANGED <<pc, recover, delta, backup_state>>
  PROVE  \A q \in Processes : Phase(q)'
<1> QED
  BY Zenon DEF Phase

(* A step that leaves the known states alone. *)
LEMMA KeepStateKnown ==
  ASSUME \A q \in Processes : StateKnown(q), H'.state = H.state, H'.scn = H.scn,
         UNCHANGED <<fresh, backup_state, current_scn, pc>>
  PROVE  \A q \in Processes : StateKnown(q)'
<1> QED
  BY Zenon DEF StateKnown

(* A step that leaves the delta alone. *)
LEMMA KeepDelta ==
  ASSUME Delta, H'.state = H.state, UNCHANGED delta
  PROVE  Delta'
<1> QED
  BY Zenon DEF Delta

(* A step that leaves the copies of the header alone. *)
LEMMA KeepHeaders ==
  ASSUME Headers, H'.state = H.state, H'.scn = H.scn,
         UNCHANGED <<delta, buffer, fresh, current_scn, pc>>
  PROVE  Headers'
<1> QED
  BY Zenon DEF Headers, HeaderCopy

(* A step that leaves the header of a merge alone. *)
LEMMA KeepMergeHeader ==
  ASSUME \A q \in Processes : MergeHeader(q), H'.ver = H.ver,
         UNCHANGED <<pc, buffer, current_scn, delta>>
  PROVE  \A q \in Processes : MergeHeader(q)'
<1> QED
  BY Zenon DEF MergeHeader, InDelta, H

(* A step that leaves the tables alone. *)
LEMMA KeepTableKnown ==
  ASSUME \A q \in Processes : TableKnown(q), H'.state = H.state, H'.scn = H.scn,
         UNCHANGED <<delta, alloc_table, alloc_fresh, backup_state, current_scn, pc>>
  PROVE  \A q \in Processes : TableKnown(q)'
<1> QED
  BY Zenon DEF TableKnown, Prefix

(* A step that leaves the places of the dirty pages alone. *)
LEMMA KeepMapped ==
  ASSUME \A q \in Processes : Mapped(q), H'.state = H.state, UNCHANGED <<dirty, delta,
           alloc_table>>
  PROVE  \A q \in Processes : Mapped(q)'
<1> QED
  BY Zenon DEF Mapped, InDelta

(* A step that leaves the level 0 backup alone. *)
LEMMA KeepLevel0 ==
  ASSUME Level0, H'.scn = H.scn, UNCHANGED <<level0, fresh, current_scn>>
  PROVE  Level0'
<1> QED
  BY Zenon DEF Level0

(* A step that leaves all copies of the pages alone. *)
LEMMA KeepScns ==
  ASSUME \A g \in Pages : Scns(g), UNCHANGED <<main, level0, buffer, delta>>
  PROVE  \A g \in Pages : Scns(g)'
<1> QED
  BY Zenon DEF Scns, Old, H

(* A step that leaves the caches and the files alone. *)
LEMMA KeepCached ==
  ASSUME \A g \in Pages, q \in Processes : Cached(q, g),
         UNCHANGED <<main, delta, buffer, dirty, half, pc, todo>>
  PROVE  \A g \in Pages, q \in Processes : Cached(q, g)'
<1> QED
  BY SMT DEF Cached, Clean, Current, InDelta, H

(* A step that leaves the merge alone. *)
LEMMA KeepMerges ==
  ASSUME H.state # nbak_state_normal => \A i \in DOMAIN delta : Merges(i),
         UNCHANGED <<main, delta, half, fresh, current_scn, pc, dirty, todo>>
  PROVE  H'.state # nbak_state_normal => \A i \in DOMAIN delta' : Merges(i)'
<1> QED
  BY ZenonT(30) DEF Merges, Newer, H


-----------------------------------------------------------------------------
(* What a process that knows the state may rely on. *)
LEMMA Knowing ==
  ASSUME IInv, NEW p \in Processes, p \in fresh
  PROVE  /\ \A q \in Processes \ {p} : pc[q] \notin Writing
         /\ H.scn <= current_scn[p] + 1
         /\ pc[p] # "main1" =>
              /\ Known(p) => backup_state[p] = H.state
              /\ ~Known(p) => H.state = nbak_state_normal
              /\ current_scn[p] <= H.scn
         /\ H.state # nbak_state_normal =>
              /\ delta \in Seq(Entry) /\ Prefix(p)
              /\ actualize_alloc(p) = DeltaPages /\ lock_alloc(p) = DeltaPages
<1>1. \A q \in Processes \ {p} : pc[q] \notin Writing
  BY DEF IInv, Locked
<1>2. /\ H.scn <= current_scn[p] + 1
      /\ pc[p] # "main1" =>
           /\ Known(p) => backup_state[p] = H.state
           /\ ~Known(p) => H.state = nbak_state_normal
           /\ current_scn[p] <= H.scn
  BY Zenon DEF IInv, StateKnown, Known
<1>3. ASSUME H.state # nbak_state_normal PROVE delta \in Seq(Entry) /\ Prefix(p)
  BY <1>2, <1>3, Zenon DEF IInv, Delta, TableKnown
<1> QED
  BY <1>1, <1>2, <1>3, TableRead, Zenon DEF IInv

(* A page that a process fetches when it knows the state is the current    *)
(* page.                                                                   *)
LEMMA Fetched ==
  ASSUME IInv, NEW p \in Processes, Known(p), pc[p] # "main1", NEW g \in Pages
  PROVE  ReadPage(p, g) \in Page /\ Current(g, ReadPage(p, g))
<1>1. /\ backup_state[p] = H.state
      /\ H.state # nbak_state_normal => lock_alloc(p) = DeltaPages
  BY Knowing, Zenon DEF Known
<1> QED
  BY <1>1, ReadIsCurrent, Zenon DEF IInv

(* The current header page is a copy of the header. *)
LEMMA CurrentHeader ==
  ASSUME IInv, NEW c, Current(HEADER_PAGE, c)
  PROVE  HeaderCopy(c)
<1>1. CASE c = H
  <2>1. H.scn \in Nat /\ \A p \in fresh : p \in Processes /\ H.scn <= current_scn[p] + 1
    BY PagesAssumption, Zenon DEF IInv, StateKnown, Types, H, Page
  <2> QED
    BY <1>1, <2>1 DEF HeaderCopy
<1>2. CASE c # H
  <2>1. H.state # nbak_state_normal
    BY <1>2, Zenon DEF Current, H
  <2>2. PICK i \in DOMAIN delta :
          delta[i].page = HEADER_PAGE /\ delta[i].content # Undefined /\ c = delta[i].content
    BY <1>2, Zenon DEF Current, InDelta, H
  <2> QED
    BY <2>1, <2>2, Zenon DEF IInv, Headers
<1> QED
  BY <1>1, <1>2, Zenon

(* The current page is as it was at level 0, or has been marked since. *)
LEMMA CurrentOld ==
  ASSUME IInv, NEW g \in Pages, g # HEADER_PAGE, NEW c, Current(g, c)
  PROVE  Old(g, c)
<1>1. CASE c = main[g]
  BY <1>1, Zenon DEF IInv, Scns
<1>2. CASE c # main[g]
  <2>1. H.state # nbak_state_normal
    BY <1>2, Zenon DEF Current
  <2>2. PICK i \in DOMAIN delta :
          delta[i].page = g /\ delta[i].content # Undefined /\ c = delta[i].content
    BY <1>2, Zenon DEF Current, InDelta
  <2> QED
    BY <2>1, <2>2, Zenon DEF IInv, Scns
<1> QED
  BY <1>1, <1>2, Zenon

(* What a process knows of the table when it has the lock of the table. *)
LEMMA TableStep ==
  ASSUME IInv, NEW p \in Processes, Known(p), pc[p] # "main1", LockAllocIfBackup(p),
         UNCHANGED <<main, delta, backup_state, current_scn>>,
         \A q \in Processes : pc'[q] = "unlink" <=> pc[q] = "unlink"
  PROVE  /\ \A q \in Processes : TableKnown(q)'
         /\ alloc_table' \in [Processes -> Seq(Pages)] /\ alloc_fresh' \subseteq Processes
         /\ \A q \in Processes : Range(alloc_table[q]) \subseteq Range(alloc_table'[q])
         /\ H.state # nbak_state_normal => alloc_table'[p] = DeltaPages
         /\ H.state = nbak_state_normal => UNCHANGED table
<1>1. backup_state[p] = H.state /\ p \in fresh
  BY Knowing, Zenon DEF Known
<1>2. H' = H
  BY Zenon DEF H
<1>3. CASE H.state = nbak_state_normal
  <2>1. UNCHANGED table
    BY <1>1, <1>3, Zenon DEF LockAllocIfBackup
  <2> QED
    BY <1>2, <1>3, <2>1, Zenon DEF table, IInv, TableKnown, Types
<1>4. CASE H.state # nbak_state_normal
  <2>1. /\ delta \in Seq(Entry) /\ Prefix(p) /\ lock_alloc(p) = DeltaPages
    BY <1>1, <1>4, Knowing, Zenon
  <2>2. alloc_table' = [alloc_table EXCEPT ![p] = DeltaPages] /\ alloc_fresh' =
          alloc_fresh \cup {p}
    BY <1>1, <1>4, <2>1, Zenon DEF LockAllocIfBackup
  <2>3. /\ DeltaPages \in Seq(Pages) /\ Len(DeltaPages) = Len(delta)
        /\ \A i \in DOMAIN delta : DeltaPages[i] = delta[i].page
    BY <2>1, DeltaIndex, Zenon
  <2>4. alloc_table' \in [Processes -> Seq(Pages)] /\ alloc_fresh' \subseteq Processes
    BY <2>2, <2>3, Zenon DEF IInv, Types
  <2>5. Prefix(p)'
    BY <2>1, <2>2, <2>3 DEF Prefix, IInv, Types
  <2>6. ASSUME NEW q \in Processes, q # p PROVE TableKnown(q)'
    <3>1. alloc_table'[q] = alloc_table[q] /\ (q \in alloc_fresh' <=> q \in alloc_fresh)
      BY <2>2, <2>6, Zenon DEF IInv, Types
    <3> QED
      BY <1>2, <3>1, Zenon DEF IInv, TableKnown, Prefix
  <2>7. TableKnown(p)'
    BY <1>2, <1>4, <2>5, Zenon DEF TableKnown
  <2>8. Range(alloc_table[p]) \subseteq Range(DeltaPages)
    BY <2>1, PrefixRange, DeltaIndex, Zenon DEF IInv
  <2> QED
    BY <1>4, <2>2, <2>4, <2>6, <2>7, <2>8, Zenon DEF IInv, Types
<1> QED
  BY <1>3, <1>4, Zenon

-----------------------------------------------------------------------------
(* One page of a cache is dropped, or read. *)
LEMMA BufferStep ==
  ASSUME IInv, NEW p \in Processes, NEW g \in Pages, pc[p] = "idle", half[p] = NULL,
         g \notin dirty[p], UNCHANGED <<main, delta, dirty, half, pc, todo>>,
         \A r \in Processes, f \in Pages : r # p \/ f # g => buffer'[r][f] = buffer[r][f],
         buffer'[p][g] = NULL \/ (Clean(g) /\ Current(g, buffer[p][g])'),
         NEW q \in Processes, NEW h \in Pages
  PROVE  Cached(q, h)'
<1>1. Cached(q, h) /\ (Clean(h)' <=> Clean(h)) /\ (InDelta(h)' <=> InDelta(h))
  BY Zenon DEF IInv, Clean, InDelta
<1>2. CASE h = g /\ q = p
  BY <1>1, <1>2, PagesAssumption, Zenon DEF Cached, Clean
<1>3. CASE h = g /\ q # p
  <2>1. buffer'[q][g] = buffer[q][g] /\ (g \in dirty[q] => buffer'[p][g] = NULL)
    BY <1>3, Zenon DEF Clean
  <2>2. \A r \in Processes \ {p} : buffer'[r][g] = buffer[r][g]
    BY <1>3, Zenon
  <2>3. Current(g, buffer[q][g])' <=> Current(g, buffer[q][g])
    BY <1>1, <1>3, <2>1, Zenon DEF Current, H
  <2> QED
    BY <1>1, <1>3, <2>1, <2>2, <2>3, Zenon DEF Cached
<1>4. CASE h # g
  <2>1. \A r \in Processes : buffer'[r][h] = buffer[r][h]
    BY <1>4, Zenon
  <2>2. Current(h, buffer[q][h])' <=> Current(h, buffer[q][h])
    BY <1>1, <2>1, Zenon DEF Current, H
  <2> QED
    BY <1>1, <2>1, <2>2, Zenon DEF Cached
<1> QED
  BY <1>2, <1>3, <1>4, Zenon

(* The page cache. *)
LEMMA Evict_Step ==
  ASSUME IInv, NEW p \in Processes, NEW g \in Pages, Evict(p, g)
  PROVE  IInv'
<1>1. /\ buffer' = [buffer EXCEPT ![p][g] = NULL] /\ g \notin dirty[p] /\ pc[p] =
           "idle" /\ half[p] = NULL
      /\ UNCHANGED <<files, locks, table, end_lock, backup_state, current_scn, dirty,
                     half, pc, recover, todo, level0, bounds>>
  BY Zenon DEF Evict, At
<1>2. Types'
  BY <1>1, Zenon DEF IInv, Types, files, locks, table, bounds
<1>3. /\ \A q \in Processes :
           Locked(q)' /\ Phase(q)' /\ StateKnown(q)' /\ TableKnown(q)' /\ Mapped(q)'
      /\ Delta' /\ Level0' /\ (H'.state # nbak_state_normal =>
           \A i \in DOMAIN delta' : Merges(i)')
  <2>1. H'.state = H.state /\ H'.scn = H.scn
    BY <1>1, ZenonT(30) DEF H, files
  <2> QED
    BY <1>1, <2>1, KeepLocked, KeepPhase, KeepStateKnown, KeepTableKnown, KeepMapped, KeepDelta,
       KeepLevel0, KeepMerges, Zenon DEF IInv, files, locks, table, bounds
<1>4. Headers'
  BY <1>1, <1>2, PagesAssumption, SMTT(30) DEF IInv, Headers, HeaderCopy, H, files, locks, Types
<1>5. ASSUME NEW q \in Processes PROVE MergeHeader(q)'
  BY <1>1, <1>2, PagesAssumption, SMTT(30) DEF IInv, MergeHeader, InDelta, H, files, locks, Types
<1>6. ASSUME NEW h \in Pages PROVE Scns(h)'
  BY <1>1, <1>2, PagesAssumption, SMTT(30) DEF IInv, Scns, Old, H, files, locks, Types
<1>7. ASSUME NEW h \in Pages, NEW q \in Processes PROVE Cached(q, h)'
  <2>1. /\ buffer'[p][g] = NULL
        /\ \A r \in Processes, f \in Pages : r # p \/ f # g => buffer'[r][f] = buffer[r][f]
    BY <1>1 DEF IInv, Types
  <2> QED
    BY <1>1, <2>1, BufferStep, Zenon DEF files
<1> QED
  BY <1>2, <1>3, <1>4, <1>5, <1>6, <1>7, Zenon DEF IInv

(* A page is read into a cache. *)
LEMMA CCH_fetch_page_Step ==
  ASSUME IInv, NEW p \in Processes, NEW g \in Pages, CCH_fetch_page(p, g)
  PROVE  IInv'
<1> DEFINE c == ReadPage(p, g)
<1> USE DEF files, locks, table, cache, bounds
<1>1. /\ At(p, "idle") /\ buffer[p][g] = NULL /\ Known(p) /\ Readable(p, g)
      /\ LockAllocIfBackup(p) /\ buffer' = [buffer EXCEPT ![p][g] = c]
      /\ UNCHANGED <<files, locks, end_lock, backup_state, current_scn, dirty, half,
                     pc, recover, todo, level0, bounds>>
  BY Zenon DEF CCH_fetch_page
<1>2. pc[p] = "idle" /\ half[p] = NULL /\ p \in fresh
  BY <1>1, Zenon DEF At, Known
<1>3. c \in Page /\ Current(g, c)
  BY <1>1, <1>2, Fetched, Zenon
<1> HIDE DEF c
<1>4. /\ \A q \in Processes : TableKnown(q)'
      /\ alloc_table' \in [Processes -> Seq(Pages)] /\ alloc_fresh' \subseteq Processes
      /\ \A q \in Processes : Range(alloc_table[q]) \subseteq Range(alloc_table'[q])
  BY <1>1, <1>2, TableStep, Zenon
<1>5. Types'
  BY <1>1, <1>3, <1>4, Zenon DEF IInv, Types
<1>6. H' = H
  BY <1>1, Zenon DEF H
<1>7. /\ \A q \in Processes : Locked(q)' /\ Phase(q)' /\ StateKnown(q)'
      /\ Delta' /\ Level0' /\ (H'.state # nbak_state_normal =>
           \A i \in DOMAIN delta' : Merges(i)')
  BY <1>1, <1>6, KeepLocked, KeepPhase, KeepStateKnown, KeepDelta, KeepLevel0, KeepMerges, Zenon
     DEF IInv
<1>8. ASSUME NEW q \in Processes PROVE Mapped(q)'
  BY <1>1, <1>4, <1>6, Zenon DEF IInv, Mapped, InDelta
<1>9. Headers'
  <2>1. g = HEADER_PAGE => HeaderCopy(c)
    BY <1>3, CurrentHeader, Zenon
  <2> QED
    BY <1>1, <1>6, <2>1, PagesAssumption, ZenonT(30) DEF IInv, Headers, HeaderCopy, Types
<1>10. ASSUME NEW q \in Processes PROVE MergeHeader(q)'
  <2>1. pc[q] # "main1"
    BY <1>2, Knowing, Zenon DEF Writing
  <2> QED
    BY <1>1, <2>1, Zenon DEF MergeHeader
<1>11. ASSUME NEW h \in Pages PROVE Scns(h)'
  <2>1. g # HEADER_PAGE => Old(g, c)
    BY <1>3, CurrentOld, Zenon
  <2> QED
    BY <1>1, <1>6, <2>1, Zenon DEF IInv, Scns, Old, Types
<1>12. ASSUME NEW h \in Pages, NEW q \in Processes PROVE Cached(q, h)'
  <2>1. Clean(g)
    BY <1>1, Zenon DEF Readable, Clean, IInv, Cached
  <2>2. /\ buffer'[p][g] = c
        /\ \A r \in Processes, f \in Pages : r # p \/ f # g => buffer'[r][f] = buffer[r][f]
    BY <1>1 DEF IInv, Types
  <2>3. PICK d : d = c
    OBVIOUS
  <2>4. Current(g, d)'
    BY <1>1, <1>3, <1>6, <2>3, Zenon DEF Current, InDelta
  <2>5. Current(g, buffer[p][g])'
    BY <2>2, <2>3, <2>4, Zenon
  <2> QED
    BY <1>1, <1>2, <2>1, <2>5, <2>2, BufferStep, Zenon DEF Clean
<1> QED
  BY <1>4, <1>5, <1>7, <1>8, <1>9, <1>10, <1>11, <1>12, Zenon DEF IInv

-----------------------------------------------------------------------------
(* Steps that change no page and no table: a process moves on, or forgets  *)
(* the state.                                                              *)
LEMMA Moves ==
  ASSUME IInv, NEW p \in Processes, NEW l, pc' = [pc EXCEPT ![p] = l],
         pc[p] \notin {"main1", "unlink"}, l \notin {"main1", "unlink", "mark", "out"},
         l \in Merging => pc[p] = "clean3" \/ (pc[p] = "merge" /\ todo[p] = {}),
         fresh' \subseteq fresh,
         \A q \in Processes : backup_state'[q] \in {backup_state[q], nbak_state_unknown},
         UNCHANGED <<files, table, current_scn, cache, todo, level0, bounds>>,
         Types', \A q \in Processes : Locked(q)' /\ Phase(q)' /\ StateKnown(q)'
  PROVE  IInv'
<1> USE DEF files, locks, table, cache, bounds
<1>1. H' = H
  BY Zenon DEF H
<1>2. Delta' /\ Level0' /\ \A q \in Processes : Mapped(q)'
  <2>1. Level0'
    BY <1>1, Zenon DEF IInv, Level0
  <2> QED
    BY <1>1, <2>1, KeepDelta, KeepMapped, Zenon DEF IInv
<1>3. \A g \in Pages : Scns(g)'
  BY KeepScns, ZenonT(30) DEF IInv
<1>4. ASSUME NEW q \in Processes PROVE MergeHeader(q)' /\ TableKnown(q)'
  BY <1>1, SMTT(30) DEF IInv, MergeHeader, TableKnown, Prefix, InDelta, H, Types
<1>5. Headers'
  <2>1. ASSUME NEW c, HeaderCopy(c) PROVE HeaderCopy(c)'
    BY <1>1, <2>1, ZenonT(30) DEF IInv, HeaderCopy, Types, Merging
  <2> QED
    BY <1>1, <2>1, Zenon DEF IInv, Headers
<1>6. ASSUME NEW h \in Pages, NEW q \in Processes PROVE Cached(q, h)'
  BY <1>1, SMTT(30) DEF IInv, Cached, Clean, Current, InDelta, H, Types
<1>7. ASSUME H'.state # nbak_state_normal, NEW i \in DOMAIN delta' PROVE Merges(i)'
  BY <1>1, <1>7, ZenonT(30) DEF IInv, Merges, Newer, Types, Merging
<1> QED
  BY <1>2, <1>3, <1>4, <1>5, <1>6, <1>7, Zenon DEF IInv

(* A fetch that finds the state out of order aborts the process. *)
LEMMA CCH_fetch_page_aborts_Step ==
  ASSUME IInv, NEW p \in Processes, NEW g \in Pages, CCH_fetch_page_aborts(p, g)
  PROVE  IInv'
<1> USE DEF files, locks, table, cache, bounds
<1>1. /\ pc[p] = "idle" /\ half[p] = NULL /\ pc' = [pc EXCEPT ![p] = "aborted"]
      /\ UNCHANGED <<files, locks, table, end_lock, backup_state, current_scn, cache,
                     recover, todo, level0, bounds>>
  BY Zenon DEF CCH_fetch_page_aborts, At, Goto
<1>2. H' = H
  BY <1>1, Zenon DEF H
<1>3. Types'
  BY <1>1, Zenon DEF IInv, Types, Outside
<1>4. ASSUME NEW q \in Processes PROVE Locked(q)'
  BY <1>1, <1>2, ZenonT(30) DEF IInv, Locked, Types, Writing, Reading, Ending
<1>5. ASSUME NEW q \in Processes PROVE Phase(q)' /\ StateKnown(q)'
  BY <1>1, <1>2, Zenon DEF IInv, Phase, StateKnown, Types, Merging
<1>6. "aborted" \notin Merging
  BY Zenon DEF Merging
<1> QED
  BY <1>1, <1>3, <1>4, <1>5, <1>6, Moves, ZenonT(30)

(* A process opens the database. *)
LEMMA attach_Step ==
  ASSUME IInv, NEW p \in Processes, attach(p)
  PROVE  IInv'
<1> USE DEF files, locks, table, cache, bounds
<1>1. /\ pc[p] = "out" /\ pc' = [pc EXCEPT ![p] = "attach"]
      /\ recover' = [recover EXCEPT ![p] = TRUE]
      /\ UNCHANGED <<files, locks, table, end_lock, backup_state, current_scn, cache, todo,
                     level0, bounds>>
  BY Zenon DEF attach, At, Goto
<1>2. H' = H
  BY <1>1, Zenon DEF H
<1>3. Types'
  BY <1>1, Zenon DEF IInv, Types, Outside
<1>4. ASSUME NEW q \in Processes PROVE Locked(q)'
  BY <1>1, <1>2, ZenonT(30) DEF IInv, Locked, Types, Writing, Reading, Ending
<1>5. ASSUME NEW q \in Processes PROVE Phase(q)' /\ StateKnown(q)'
  BY <1>1, <1>2, SMTT(30) DEF IInv, Phase, StateKnown, Locked, Types, Merging
<1>6. "attach" \notin Merging
  BY Zenon DEF Merging
<1> QED
  BY <1>1, <1>3, <1>4, <1>5, <1>6, Moves, Zenon

(* end_backup starts, alone. *)
LEMMA end_backup_Step ==
  ASSUME IInv, NEW p \in Processes, end_backup(p)
  PROVE  IInv'
<1> USE DEF files, locks, table, cache, bounds
<1>1. /\ pc[p] \in {"idle", "attach"} /\ half[p] = NULL /\ Known(p)
      /\ UNCHANGED <<files, locks, table, backup_state, current_scn, cache, todo, level0, bounds>>
  BY Zenon DEF end_backup, At
<1>2. H' = H
  BY <1>1, Zenon DEF H
<1>3. CASE end_lock = NULL /\ Mergeable(p)
  <2>1. end_lock' = p /\ pc' = [pc EXCEPT ![p] = "clean1"] /\ UNCHANGED recover
    BY <1>3, Zenon DEF end_backup, Goto
  <2>2. \/ H.state = nbak_state_stalled /\ ~recover[p]
        \/ H.state = nbak_state_merge
    BY <1>1, <1>3, Knowing, Zenon DEF Known, Mergeable
  <2>3. Types'
    BY <1>1, <2>1, Zenon DEF IInv, Types, Ending
  <2>4. ASSUME NEW q \in Processes PROVE Locked(q)'
    BY <1>1, <1>2, <1>3, <2>1, PagesAssumption, SMTT(30) DEF IInv, Locked, Types, Writing,
       Reading, Ending
  <2>5. ASSUME NEW q \in Processes PROVE Phase(q)' /\ StateKnown(q)'
    BY <1>1, <1>2, <2>1, <2>2, Zenon DEF IInv, Phase, StateKnown, Known, Types, Merging
  <2>6. "clean1" \notin Merging
    BY Zenon DEF Merging
  <2> QED
    BY <1>1, <2>1, <2>3, <2>4, <2>5, <2>6, Moves, Zenon
<1>4. CASE ~(end_lock = NULL /\ Mergeable(p))
  <2>1. /\ pc' = [pc EXCEPT ![p] = "idle"] /\ recover' = [recover EXCEPT ![p] = FALSE]
        /\ UNCHANGED end_lock
    BY <1>4, Zenon DEF end_backup, Goto
  <2>2. Types'
    BY <1>1, <2>1, Zenon DEF IInv, Types, Outside
  <2>3. ASSUME NEW q \in Processes PROVE Locked(q)'
    BY <1>1, <1>2, <2>1, ZenonT(30) DEF IInv, Locked, Types, Writing, Reading, Ending
  <2>4. ASSUME NEW q \in Processes PROVE Phase(q)' /\ StateKnown(q)'
    BY <1>1, <1>2, <2>1, Zenon DEF IInv, Phase, StateKnown, Known, Types, Merging
  <2>5. "idle" \notin Merging
    BY Zenon DEF Merging
  <2> QED
    BY <1>1, <2>1, <2>2, <2>3, <2>4, <2>5, Moves, Zenon
<1> QED
  BY <1>3, <1>4, Zenon

(* begin_backup, and the two locks for write of end_backup. *)
LEMMA lock_clean_database_Step ==
  ASSUME IInv, NEW p \in Processes, NEW from, NEW to, lock_clean_database(p, from, to),
         <<from, to>> \in {<<"idle", "begin">>, <<"clean1", "state1">>, <<"clean3", "state3">>}
  PROVE  IInv'
<1> USE DEF files, locks, table, cache, bounds
<1>1. /\ pc[p] = from /\ half[p] = NULL /\ dirty[p] = {} /\ p \in fresh
      /\ Database!Lock(Attachment(p), Database!LCK_write) /\ Invalidated
      /\ pc' = [pc EXCEPT ![p] = to]
      /\ UNCHANGED <<files, table, end_lock, current_scn, cache, recover, todo, level0, bounds>>
  BY Zenon DEF lock_clean_database, At, Goto
<1>2. H' = H
  BY <1>1, Zenon DEF H
<1>3. /\ use' \in [Owners -> {LCK_none, Database!LCK_read, Database!LCK_write}]
      /\ \A q \in Processes :
           /\ use'[Attachment(q)] = IF q = p THEN Database!LCK_write ELSE use[Attachment(q)]
           /\ use'[Cache(q)] = use[Cache(q)]
      /\ fresh' = {p}
      /\ \A q \in Processes : use[Attachment(q)] = LCK_none /\ use[Cache(q)] = LCK_none
  BY <1>1, AttachmentLock, Zenon DEF IInv
<1>4. backup_state' = [q \in Processes |-> IF q = p THEN backup_state[q] ELSE nbak_state_unknown]
  BY <1>1, <1>3, Zenon DEF Invalidated
<1>5. Types'
  BY <1>1, <1>3, <1>4, Zenon DEF IInv, Types, Outside, Ending
<1>6. \A q \in Processes : dirty[q] = {} /\ pc[q] \notin Writing \cup Reading
  BY <1>3, SMTT(30) DEF IInv, Locked, LCK_none, Database!LCK_read, Database!LCK_write,
     Database!LCK_PR, Database!LCK_EX
<1>7. ASSUME NEW q \in Processes PROVE Locked(q)'
  BY <1>1, <1>2, <1>3, <1>6, SMTT(30) DEF IInv, Locked, Types, Writing, Reading, Ending
<1>8. ASSUME NEW q \in Processes PROVE Phase(q)' /\ StateKnown(q)'
  BY <1>1, <1>2, <1>3, <1>4, <1>6, Zenon DEF IInv, Phase, StateKnown, Types, Merging, Writing
<1>9. /\ fresh' \subseteq fresh
      /\ \A q \in Processes : backup_state'[q] \in {backup_state[q], nbak_state_unknown}
  BY <1>1, <1>3, <1>4, Zenon
<1>10. /\ pc[p] \notin {"main1", "unlink"} /\ to \notin {"main1", "unlink", "mark", "out"}
       /\ to \in Merging => pc[p] = "clean3"
  BY <1>1, Zenon DEF Merging
<1> QED
  BY <1>1, <1>5, <1>7, <1>8, <1>9, <1>10, Moves, Zenon

(* The lock for write is given up with nothing done. *)
LEMMA begin_backup_gives_up_Step ==
  ASSUME IInv, NEW p \in Processes, begin_backup_returns(p) \/ begin_backup_fails(p)
  PROVE  IInv'
<1> USE DEF files, locks, table, cache, bounds
<1>1. /\ pc[p] \in {"begin", "created"} /\ half[p] = NULL
      /\ Unlock(Attachment(p)) /\ pc' = [pc EXCEPT ![p] = "idle"]
      /\ \/ UNCHANGED backup_state
         \/ /\ backup_state[p] = nbak_state_normal
            /\ backup_state' = [backup_state EXCEPT ![p] = nbak_state_unknown]
      /\ UNCHANGED <<files, table, end_lock, current_scn, cache, recover, todo, level0, bounds>>
  BY Zenon DEF begin_backup_returns, begin_backup_fails, At, Goto
<1>2. H' = H
  BY <1>1, Zenon DEF H
<1>3. /\ use' \in [Owners -> {LCK_none, Database!LCK_read, Database!LCK_write}]
      /\ \A q \in Processes :
           /\ use'[Attachment(q)] = IF q = p THEN LCK_none ELSE use[Attachment(q)]
           /\ use'[Cache(q)] = use[Cache(q)]
      /\ fresh' = fresh
  BY <1>1, AttachmentUnlock, Zenon DEF IInv
<1>4. Types'
  BY <1>1, <1>3, Zenon DEF IInv, Types, Outside
<1>5. ASSUME NEW q \in Processes PROVE Locked(q)'
  BY <1>1, <1>2, <1>3 DEF IInv, Locked, Types, Writing, Reading, Ending
<1>6. ASSUME NEW q \in Processes PROVE Phase(q)'
  BY <1>1, <1>2, Zenon DEF IInv, Phase, Types, Merging
<1>7. ASSUME NEW q \in Processes PROVE StateKnown(q)'
  <2>1. p \in fresh
    BY <1>1, Zenon DEF IInv, Locked, Writing
  <2> QED
    BY <1>1, <1>2, <1>3, <2>1, Zenon DEF IInv, StateKnown, Types, Merging
<1>8. \A q \in Processes : backup_state'[q] \in {backup_state[q], nbak_state_unknown}
  BY <1>1, Zenon DEF IInv, Types
<1>9. "idle" \notin Merging
  BY Zenon DEF Merging
<1> QED
  BY <1>1, <1>3, <1>4, <1>5, <1>6, <1>7, <1>8, <1>9, Moves, Zenon

(* The merge has marked every page of the delta. *)
LEMMA end_backup_merged_Step ==
  ASSUME IInv, NEW p \in Processes, end_backup_merged(p)
  PROVE  IInv'
<1> USE DEF files, locks, table, cache, bounds
<1>1. /\ pc[p] = "merge" /\ half[p] = NULL /\ todo[p] = {} /\ Unlock(Attachment(p))
      /\ pc' = [pc EXCEPT ![p] = "clean3"]
      /\ UNCHANGED <<files, table, end_lock, backup_state, current_scn, cache,
                     recover, todo, level0, bounds>>
  BY Zenon DEF end_backup_merged, At, Goto
<1>2. H' = H
  BY <1>1, Zenon DEF H
<1>3. /\ use' \in [Owners -> {LCK_none, Database!LCK_read, Database!LCK_write}]
      /\ \A q \in Processes :
           /\ use'[Attachment(q)] = IF q = p THEN LCK_none ELSE use[Attachment(q)]
           /\ use'[Cache(q)] = use[Cache(q)]
      /\ fresh' = fresh
  BY <1>1, AttachmentUnlock, Zenon DEF IInv
<1>4. Types'
  BY <1>1, <1>3, Zenon DEF IInv, Types, Ending
<1>5. ASSUME NEW q \in Processes PROVE Locked(q)'
  BY <1>1, <1>2, <1>3, SMTT(30) DEF IInv, Locked, Types, Writing, Reading, Ending
<1>6. ASSUME NEW q \in Processes PROVE Phase(q)' /\ StateKnown(q)'
  BY <1>1, <1>2, <1>3, Zenon DEF IInv, Phase, StateKnown, Types, Merging
<1> QED
  BY <1>1, <1>3, <1>4, <1>5, <1>6, Moves, Zenon

(* The difference file is created empty, in normal state. *)
LEMMA begin_backup_create_Step ==
  ASSUME IInv, NEW p \in Processes, begin_backup_create(p)
  PROVE  IInv'
<1> USE DEF files, locks, table, cache, bounds
<1>1. /\ pc[p] = "begin" /\ half[p] = NULL /\ backup_state[p] = nbak_state_normal
      /\ delta' = <<>> /\ pc' = [pc EXCEPT ![p] = "created"]
      /\ UNCHANGED <<main, locks, table, end_lock, backup_state, current_scn, cache,
                     recover, todo, level0, bounds>>
  BY Zenon DEF begin_backup_create, At, Goto
<1>2. H' = H
  BY <1>1, Zenon DEF H
<1>3. H.state = nbak_state_normal
  <2>1. p \in fresh
    BY <1>1, Zenon DEF IInv, Locked, Writing
  <2> QED
    BY <1>1, <2>1, Zenon DEF IInv, StateKnown, nbak_state_normal, nbak_state_unknown
<1>4. Types' /\ delta' \in Seq(Entry)
  BY <1>1, SMTT(30) DEF IInv, Types, Outside
<1>5. ASSUME NEW q \in Processes PROVE Locked(q)'
  BY <1>1, <1>2, SMTT(30) DEF IInv, Locked, Types, Writing, Reading, Ending
<1>6. ASSUME NEW q \in Processes PROVE Phase(q)' /\ StateKnown(q)'
  BY <1>1, <1>2, <1>3, Zenon DEF IInv, Phase, StateKnown, Types, Merging, nbak_state_normal,
     nbak_state_stalled, nbak_state_merge, nbak_state_unknown
<1>7. ASSUME NEW q \in Processes PROVE MergeHeader(q)' /\ TableKnown(q)' /\ Mapped(q)'
  <2>1. pc'[q] # "main1"
    BY <1>1, <1>3, Zenon DEF IInv, Phase, Types, nbak_state_normal, nbak_state_stalled,
       nbak_state_merge
  <2> QED
    BY <1>1, <1>2, <1>3, <2>1, Zenon DEF IInv, MergeHeader, TableKnown, Mapped, Types
<1>8. Headers' /\ Delta' /\ Level0'
  BY <1>1, <1>2, <1>3, Zenon DEF IInv, Headers, HeaderCopy, Delta, Level0
<1>9. ASSUME NEW h \in Pages PROVE Scns(h)'
  BY <1>1, <1>2, <1>3, Zenon DEF IInv, Scns, Old
<1>10. ASSUME NEW h \in Pages, NEW q \in Processes PROVE Cached(q, h)'
  <2>1. half[q] # h
    BY <1>3, PagesAssumption, Zenon DEF IInv, Locked, nbak_state_normal, nbak_state_merge
  <2> QED
    BY <1>1, <1>2, <1>3, <2>1, SMTT(30) DEF IInv, Cached, Clean, Current, InDelta, Types
<1> QED
  BY <1>2, <1>3, <1>4, <1>5, <1>6, <1>7, <1>8, <1>9, <1>10, Zenon DEF IInv

-----------------------------------------------------------------------------
(* Changes of pages. *)
LEMMA PageNotNull ==
  ASSUME NEW c \in Page
  PROVE  c # NULL
<1> QED
  BY PagesAssumption, Zenon

(* One process has a page in its cache, the others have lost it. *)
LEMMA TakenPage ==
  ASSUME Types, NEW p \in Processes, NEW g \in Pages, NEW new \in Page, TakePage(p, g, new)
  PROVE  /\ buffer' \in [Processes -> [Pages -> Page \cup {NULL}]]
         /\ buffer'[p][g] = new
         /\ \A q \in Processes \ {p} : buffer'[q][g] = NULL
         /\ \A q \in Processes, h \in Pages \ {g} : buffer'[q][h] = buffer[q][h]
<1> QED
  BY Zenon DEF Types, TakePage

(* One process has changed a page in its cache. *)
LEMMA DirtyPage ==
  ASSUME IInv, NEW p \in Processes, p \in fresh, pc[p] # "main1", NEW g \in Pages,
         NEW page \in Page, Dirtied(p, g, page), g = HEADER_PAGE => HeaderCopy(page)
  PROVE  /\ buffer' \in [Processes -> [Pages -> Page \cup {NULL}]]
         /\ buffer'[p][g] # NULL /\ buffer'[p][g].ver = page.ver
         /\ \A q \in Processes \ {p} : buffer'[q][g] = NULL
         /\ \A q \in Processes, h \in Pages \ {g} : buffer'[q][h] = buffer[q][h]
         /\ \A q \in Processes :
              buffer'[q][HEADER_PAGE] # NULL => HeaderCopy(buffer'[q][HEADER_PAGE])
         /\ \A q \in Processes, h \in Pages :
              h # HEADER_PAGE /\ buffer'[q][h] # NULL => Old(h, buffer'[q][h])
         /\ dirty' \in [Processes -> SUBSET Pages]
         /\ dirty'[p] = dirty[p] \cup {g} /\ \A q \in Processes \ {p} : dirty'[q] = dirty[q]
<1> DEFINE new == [page EXCEPT !.scn = IF g = HEADER_PAGE THEN @ ELSE current_scn[p]]
<1>1. /\ new \in Page /\ new.state = page.state /\ new.ver = page.ver
      /\ new.scn = IF g = HEADER_PAGE THEN page.scn ELSE current_scn[p]
  BY Zenon DEF IInv, Types, Page
<1>2. TakePage(p, g, new) /\ dirty' = [dirty EXCEPT ![p] = @ \cup {g}]
  BY Zenon DEF Dirtied
<1> HIDE DEF new
<1>3. /\ buffer' \in [Processes -> [Pages -> Page \cup {NULL}]]
      /\ buffer'[p][g] = new
      /\ \A q \in Processes \ {p} : buffer'[q][g] = NULL
      /\ \A q \in Processes, h \in Pages \ {g} : buffer'[q][h] = buffer[q][h]
  BY <1>1, <1>2, TakenPage, Zenon DEF IInv
<1>4. new # NULL
  BY <1>1, PageNotNull, Zenon
<1>5. \A q \in Processes :
        buffer'[q][HEADER_PAGE] # NULL => HeaderCopy(buffer'[q][HEADER_PAGE])
  <2>1. g = HEADER_PAGE => HeaderCopy(new)
    BY <1>1, Zenon DEF HeaderCopy
  <2> QED
    BY <1>3, <2>1, PagesAssumption, ZenonT(30) DEF IInv, Headers
<1>6. g # HEADER_PAGE => Old(g, new)
  <2>1. /\ current_scn[p] <= H.scn /\ current_scn[p] \in Nat
        /\ level0 # NULL =>
             level0[HEADER_PAGE].scn <= current_scn[p] /\ level0[HEADER_PAGE].scn \in Nat
    BY Knowing, PagesAssumption, Zenon DEF IInv, Level0, Types, Page
  <2> QED
    BY <1>1, <2>1 DEF Old
<1>7. ASSUME NEW q \in Processes, NEW h \in Pages, h # HEADER_PAGE, buffer'[q][h] # NULL
      PROVE  Old(h, buffer'[q][h])
  <2>1. CASE h # g
    BY <1>3, <1>7, <2>1, Zenon DEF IInv, Scns
  <2>2. CASE h = g
    BY <1>3, <1>6, <1>7, <2>2, Zenon
  <2> QED
    BY <2>1, <2>2, Zenon
<1> QED
  BY <1>1, <1>2, <1>3, <1>4, <1>5, <1>7, Zenon DEF IInv, Types

(* With its first dirty page a process gets the lock of the cache. *)
LEMMA DirtyLock ==
  ASSUME IInv, NEW p \in Processes, p \in fresh,
         IF dirty[p] = {} THEN Database!Lock(Cache(p), Database!LCK_read) ELSE UNCHANGED locks
  PROVE  /\ use' \in [Owners -> {LCK_none, Database!LCK_read, Database!LCK_write}]
         /\ \A q \in Processes :
              /\ use'[Attachment(q)] = use[Attachment(q)]
              /\ use'[Cache(q)] = IF q = p THEN Database!LCK_read ELSE use[Cache(q)]
         /\ fresh' = fresh
<1>1. CASE dirty[p] = {}
  BY <1>1, CacheLock, ZenonT(30) DEF IInv
<1>2. CASE dirty[p] # {}
  BY <1>2, Zenon DEF IInv, Types, Locked, locks
<1> QED
  BY <1>1, <1>2, Zenon

(* A page is marked that has its place or needs none. *)
LEMMA CCH_mark_Step ==
  ASSUME IInv, NEW p \in Processes, NEW g \in Pages, CCH_mark(p, g)
  PROVE  IInv'
<1> DEFINE page == [buffer[p][g] EXCEPT !.ver = changes + 1]
<1> USE DEF files, table, cache
<1>1. /\ pc[p] = "idle" /\ half[p] = NULL /\ buffer[p][g] # NULL /\ p \in fresh /\ Readable(p, g)
      /\ backup_state[p] = nbak_state_stalled => g \in Range(lock_alloc(p))
      /\ IF dirty[p] = {} THEN Database!Lock(Cache(p), Database!LCK_read) ELSE UNCHANGED locks
      /\ IF backup_state[p] = nbak_state_unknown THEN UNCHANGED table ELSE LockAllocIfBackup(p)
      /\ Dirtied(p, g, page) /\ changes' = changes + 1
      /\ UNCHANGED <<files, end_lock, backup_state, current_scn, half, pc, recover,
                     todo, level0, crashes>>
  BY Zenon DEF CCH_mark, At
<1>2. page \in Page /\ (g = HEADER_PAGE => HeaderCopy(page))
  <2>1. buffer[p][g] \in Page /\ changes + 1 \in Nat
    BY <1>1, SMTT(30) DEF IInv, Types
  <2>2. page \in Page /\ page.scn = buffer[p][g].scn /\ page.state = buffer[p][g].state
    BY <2>1, Zenon DEF Page
  <2>3. g = HEADER_PAGE => HeaderCopy(buffer[p][g])
    BY <1>1, ZenonT(30) DEF IInv, Headers
  <2> QED
    BY <2>2, <2>3, Zenon DEF HeaderCopy
<1> HIDE DEF page
<1>3. /\ buffer' \in [Processes -> [Pages -> Page \cup {NULL}]]
      /\ buffer'[p][g] # NULL
      /\ \A q \in Processes \ {p} : buffer'[q][g] = NULL
      /\ \A q \in Processes, h \in Pages \ {g} : buffer'[q][h] = buffer[q][h]
      /\ \A q \in Processes :
           buffer'[q][HEADER_PAGE] # NULL => HeaderCopy(buffer'[q][HEADER_PAGE])
      /\ \A q \in Processes, h \in Pages :
           h # HEADER_PAGE /\ buffer'[q][h] # NULL => Old(h, buffer'[q][h])
      /\ dirty' \in [Processes -> SUBSET Pages]
      /\ dirty'[p] = dirty[p] \cup {g} /\ \A q \in Processes \ {p} : dirty'[q] = dirty[q]
  BY <1>1, <1>2, DirtyPage, SMTT(30)
<1>4. /\ use' \in [Owners -> {LCK_none, Database!LCK_read, Database!LCK_write}]
      /\ \A q \in Processes :
           /\ use'[Attachment(q)] = use[Attachment(q)]
           /\ use'[Cache(q)] = IF q = p THEN Database!LCK_read ELSE use[Cache(q)]
      /\ fresh' = fresh
  BY <1>1, DirtyLock, Zenon
<1>5. H' = H
  BY <1>1, Zenon DEF H
<1>6. /\ \A q \in Processes : TableKnown(q)'
      /\ alloc_table' \in [Processes -> Seq(Pages)] /\ alloc_fresh' \subseteq Processes
      /\ \A q \in Processes : Range(alloc_table[q]) \subseteq Range(alloc_table'[q])
      /\ H.state # nbak_state_normal => alloc_table'[p] = DeltaPages
  <2>1. CASE Known(p)
    BY <1>1, <2>1, TableStep, Zenon DEF Known
  <2>2. CASE ~Known(p)
    <3>1. H.state = nbak_state_normal /\ UNCHANGED table
      BY <1>1, <2>2, Knowing, ZenonT(30) DEF Known
    <3> QED
      BY <1>1, <1>5, <3>1, KeepTableKnown, Zenon DEF IInv, Types
  <2> QED
    BY <2>1, <2>2, Zenon
<1>7. Types'
  BY <1>1, <1>3, <1>4, <1>6, SMTT(30) DEF IInv, Types
<1>8. /\ \A q \in Processes : Phase(q)' /\ StateKnown(q)'
      /\ Delta' /\ Level0'
  BY <1>1, <1>4, <1>5, KeepPhase, KeepStateKnown, KeepDelta, KeepLevel0, Zenon DEF IInv
<1>9. \A q \in Processes : pc[q] \notin Writing
  BY <1>1, Knowing, Zenon DEF Writing
<1>10. ASSUME NEW q \in Processes PROVE Locked(q)'
  <2>1. Locked(q) /\ \A r \in Processes : pc'[r] \notin Writing
    BY <1>1, <1>9, Zenon DEF IInv
  <2>2. CASE q = p
    BY <1>1, <1>3, <1>4, <1>5, <2>1, <2>2, Zenon DEF Locked
  <2>3. CASE q # p
    BY <1>1, <1>3, <1>4, <1>5, <2>1, <2>3, ZenonT(30) DEF Locked
  <2> QED
    BY <2>2, <2>3, Zenon
<1>11. ASSUME NEW q \in Processes PROVE Mapped(q)'
  <2>1. ASSUME H.state # nbak_state_normal, InDelta(g) \/ H.state = nbak_state_stalled
        PROVE  g \in Range(DeltaPages)
    <3>1. Known(p) /\ backup_state[p] = H.state /\ lock_alloc(p) =
            DeltaPages /\ delta \in Seq(Entry)
      BY <1>1, <2>1, Knowing, Zenon
    <3> QED
      BY <1>1, <2>1, <3>1, DeltaIndex, Zenon
  <2> QED
    BY <1>1, <1>3, <1>5, <1>6, <2>1, ZenonT(30) DEF IInv, Mapped, InDelta
<1>12. Headers'
  BY <1>1, <1>3, <1>4, <1>5, Zenon DEF IInv, Headers, HeaderCopy
<1>13. ASSUME NEW q \in Processes PROVE MergeHeader(q)'
  BY <1>1, <1>9, Zenon DEF MergeHeader, Writing
<1>14. ASSUME NEW h \in Pages PROVE Scns(h)'
  BY <1>1, <1>3, <1>5, Zenon DEF IInv, Scns, Old
<1>15. ASSUME NEW h \in Pages, NEW q \in Processes PROVE Cached(q, h)'
  <2>1. CASE h = g
    <3>1. /\ ~Clean(g)' /\ half'[q] # g /\ ~(pc'[q] = "mark" /\ g \in todo'[q])
          /\ pc'[q] = "out" => q # p
      BY <1>1, <1>3, <2>1, PagesAssumption, Zenon DEF Clean, Readable
    <3>2. g \in dirty'[q] => q = p
      BY <1>1, <1>3, Zenon DEF Readable
    <3>3. \A r \in Processes \ {p} : g \notin dirty'[r]
      BY <1>1, <1>3, Zenon DEF Readable
    <3> QED
      BY <1>3, <2>1, <3>1, <3>2, <3>3, Zenon DEF Cached
  <2>2. CASE h # g
    <3>1. Cached(q, h) /\ buffer'[q][h] = buffer[q][h]
      BY <1>3, <2>2, Zenon DEF IInv
    <3>2. \A r \in Processes :
            (h \in dirty'[r] <=> h \in dirty[r]) /\ buffer'[r][h] = buffer[r][h]
      BY <1>3, <2>2, Zenon
    <3>3. (Clean(h)' <=> Clean(h)) /\ (InDelta(h)' <=> InDelta(h))
      BY <1>1, <3>2, Zenon DEF Clean, InDelta
    <3>4. Current(h, buffer[q][h])' <=> Current(h, buffer[q][h])
      BY <1>1, <1>5, <3>1, <3>3, Zenon DEF Current
    <3> QED
      BY <1>1, <3>1, <3>2, <3>3, <3>4, Zenon DEF Cached
  <2> QED
    BY <2>1, <2>2, Zenon
<1>16. ASSUME H'.state # nbak_state_normal, NEW i \in DOMAIN delta' PROVE Merges(i)'
  BY <1>1, <1>3, <1>4, <1>5, <1>16, Zenon DEF IInv, Merges, Newer
<1> QED
  BY <1>6, <1>7, <1>8, <1>10, <1>11, <1>12, <1>13, <1>14, <1>15, <1>16, Zenon DEF IInv

(* A page is to be marked that needs a place in the delta. *)
LEMMA CCH_mark_unmapped_Step ==
  ASSUME IInv, NEW p \in Processes, NEW g \in Pages, CCH_mark_unmapped(p, g)
  PROVE  IInv'
<1> USE DEF files, table, cache, bounds
<1>1. /\ pc[p] = "idle" /\ half[p] = NULL /\ buffer[p][g] # NULL /\ p \in fresh /\ Readable(p, g)
      /\ backup_state[p] = nbak_state_stalled
      /\ Database!Lock(Attachment(p), Database!LCK_read)
      /\ LockAllocIfBackup(p)
      /\ todo' = [todo EXCEPT ![p] = {g}] /\ pc' = [pc EXCEPT ![p] = "mark"]
      /\ UNCHANGED <<files, end_lock, backup_state, current_scn, cache, recover, level0, bounds>>
  BY Zenon DEF CCH_mark_unmapped, At, Goto
<1>2. /\ use' \in [Owners -> {LCK_none, Database!LCK_read, Database!LCK_write}]
      /\ \A q \in Processes :
           /\ use'[Attachment(q)] = IF q = p THEN Database!LCK_read ELSE use[Attachment(q)]
           /\ use'[Cache(q)] = use[Cache(q)]
      /\ fresh' = fresh
  <2>1. Types
    BY Zenon DEF IInv
  <2>2. /\ use' \in [Owners -> {LCK_none, Database!LCK_read, Database!LCK_write}]
        /\ \A q \in Processes :
             /\ use'[Attachment(q)] = IF q = p THEN Database!LCK_read ELSE use[Attachment(q)]
             /\ use'[Cache(q)] = use[Cache(q)]
        /\ fresh' = fresh \cup {p}
    BY <1>1, <2>1, AttachmentLock, Zenon
  <2>3. fresh \cup {p} = fresh
    BY <1>1
  <2> QED
    BY <2>2, <2>3, Zenon
<1>3. H' = H
  BY <1>1, Zenon DEF H
<1>4. Known(p) /\ H.state = nbak_state_stalled /\ \A q \in Processes : pc[q] \notin Writing
  BY <1>1, Knowing, Zenon DEF Known, nbak_state_stalled, nbak_state_unknown, Writing
<1>5. /\ \A q \in Processes : TableKnown(q)'
      /\ alloc_table' \in [Processes -> Seq(Pages)] /\ alloc_fresh' \subseteq Processes
      /\ \A q \in Processes : Range(alloc_table[q]) \subseteq Range(alloc_table'[q])
  <2>1. \A q \in Processes : pc'[q] = "unlink" <=> pc[q] = "unlink"
    BY <1>1, Zenon DEF IInv, Types
  <2> QED
    BY <1>1, <1>4, <2>1, TableStep, Zenon
<1>6. Types'
  BY <1>1, <1>2, <1>5, ZenonT(30) DEF IInv, Types, Outside
<1>7. Delta' /\ Level0' /\ \A h \in Pages : Scns(h)'
  BY <1>1, <1>2, <1>3, KeepDelta, KeepLevel0, KeepScns, Zenon DEF IInv
<1>8. ASSUME NEW q \in Processes PROVE Locked(q)'
  BY <1>1, <1>2, <1>3, <1>4, SMTT(30) DEF IInv, Locked, Types, Writing, Reading, Ending
<1>9. ASSUME NEW q \in Processes PROVE Phase(q)' /\ StateKnown(q)'
  BY <1>1, <1>2, <1>3, <1>4, Zenon DEF IInv, Phase, StateKnown, Known, Types, Merging
<1>10. ASSUME NEW q \in Processes PROVE Mapped(q)' /\ MergeHeader(q)'
  <2>1. pc'[q] # "main1"
    BY <1>1, <1>4, Zenon DEF IInv, Types, Writing
  <2> QED
    BY <1>1, <1>3, <1>5, <2>1, Zenon DEF IInv, Mapped, MergeHeader, InDelta
<1>11. Headers'
  <2>1. ASSUME NEW c, HeaderCopy(c) PROVE HeaderCopy(c)'
    BY <1>1, <1>2, <1>3, <2>1, Zenon DEF IInv, HeaderCopy, Types, Merging
  <2> QED
    BY <1>1, <1>3, <2>1, Zenon DEF IInv, Headers
<1>12. ASSUME NEW h \in Pages, NEW q \in Processes PROVE Cached(q, h)'
  <2>1. (Clean(h)' <=> Clean(h)) /\ (InDelta(h)' <=> InDelta(h))
    BY <1>1, Zenon DEF Clean, InDelta
  <2>2. Current(h, buffer[q][h])' <=> Current(h, buffer[q][h])
    BY <1>1, <1>3, <2>1, Zenon DEF Current
  <2>3. Cached(q, h) /\ pc[q] # "main1"
    BY <1>4, Zenon DEF IInv, Writing
  <2>4. pc'[q] = "mark" /\ h \in todo'[q] =>
          /\ todo'[q] = {h} /\ buffer[q][h] # NULL
          /\ \A r \in Processes \ {q} : h \notin dirty[r] /\ ~(pc'[r] = "mark" /\ h \in todo'[r])
    BY <1>1, <2>3 DEF Cached, Readable, IInv, Types
  <2>5. pc'[q] = "out" => pc[q] = "out"
    BY <1>1, Zenon DEF IInv, Types
  <2> QED
    BY <1>1, <2>1, <2>2, <2>3, <2>4, <2>5, Zenon DEF Cached
<1>13. ASSUME H'.state # nbak_state_normal, NEW i \in DOMAIN delta' PROVE Merges(i)'
  BY <1>1, <1>2, <1>3, <1>13, Zenon DEF IInv, Merges, Newer, Types, Merging
<1> QED
  BY <1>5, <1>6, <1>7, <1>8, <1>9, <1>10, <1>11, <1>12, <1>13, Zenon DEF IInv

(* What Append does to the delta and to the table of one process. *)
LEMMA NewPlace ==
  ASSUME Types, delta \in Seq(Entry), NEW g \in Pages, NEW t,
         \A i, j \in DOMAIN delta : delta[i].page = delta[j].page => i = j,
         IF InDelta(g) THEN delta' = delta /\ t = DeltaPages
         ELSE delta' = Append(delta, [page |-> g, content |-> Undefined]) /\ t =
           Append(DeltaPages, g)
  PROVE  /\ delta' \in Seq(Entry) /\ Len(delta) <= Len(delta')
         /\ \A i \in DOMAIN delta : i \in DOMAIN delta' /\ delta'[i] = delta[i]
         /\ \A i \in DOMAIN delta' :
              i \in DOMAIN delta \/ (delta'[i].page = g /\ delta'[i].content = Undefined)
         /\ \A i, j \in DOMAIN delta' : delta'[i].page = delta'[j].page => i = j
         /\ \A h : InDelta(h)' <=> InDelta(h) \/ h = g
         /\ t \in Seq(Pages) /\ Len(t) = Len(delta')
         /\ \A i \in 1 .. Len(t) : t[i] = delta'[i].page
         /\ \A h : InDelta(h) \/ h = g => h \in Range(t)
<1>1. /\ DeltaPages \in Seq(Pages) /\ Len(DeltaPages) = Len(delta)
      /\ \A i \in 1 .. Len(delta) : DeltaPages[i] = delta[i].page
      /\ DOMAIN delta = 1 .. Len(delta) /\ Len(delta) \in Nat
  BY DeltaIndex
<1>2. CASE InDelta(g)
  <2>1. delta' = delta /\ t = DeltaPages
    BY <1>2, Zenon
  <2>2. \A h : (InDelta(h)' <=> InDelta(h)) /\ (InDelta(h) => h \in Range(t))
    BY <2>1, DeltaIndex, Zenon DEF InDelta
  <2> QED
    BY <1>1, <1>2, <2>1, <2>2
<1>3. CASE ~InDelta(g)
  <2> DEFINE e == [page |-> g, content |-> Undefined]
  <2>1. delta' = Append(delta, e) /\ t = Append(DeltaPages, g)
    BY <1>3, Zenon
  <2>2. e \in Entry /\ e.page = g /\ e.content = Undefined
    BY Zenon DEF Entry
  <2> HIDE DEF e
  <2>3. /\ delta' \in Seq(Entry) /\ Len(delta') = Len(delta) + 1 /\ DOMAIN delta' =
             1 .. Len(delta) + 1
        /\ \A i \in 1 .. Len(delta) : delta'[i] = delta[i]
        /\ delta'[Len(delta) + 1] = e
    BY <1>1, <2>1, <2>2
  <2>4. /\ t \in Seq(Pages) /\ Len(t) = Len(delta) + 1 /\ DOMAIN t = 1 .. Len(delta) + 1
        /\ \A i \in 1 .. Len(delta) : t[i] = DeltaPages[i]
        /\ t[Len(delta) + 1] = g
    BY <1>1, <2>1
  <2>5. \A i \in DOMAIN delta' : i \in DOMAIN delta \/ i = Len(delta) + 1
    BY <1>1, <2>3
  <2>6. \A i \in DOMAIN delta : i \in DOMAIN delta' /\ delta'[i] = delta[i] /\ delta[i].page # g
    BY <1>1, <1>3, <2>3 DEF InDelta
  <2>7. \A i, j \in DOMAIN delta' : delta'[i].page = delta'[j].page => i = j
    <3> SUFFICES ASSUME NEW i \in DOMAIN delta', NEW j \in DOMAIN delta',
                        delta'[i].page = delta'[j].page PROVE i = j
      OBVIOUS
    <3> QED
      BY <2>2, <2>3, <2>5, <2>6, Zenon
  <2>8. \A h : InDelta(h)' <=> InDelta(h) \/ h = g
    <3>1. Len(delta) + 1 \in DOMAIN delta'
      BY <1>1, <2>3, SMTT(30)
    <3> QED
      BY <2>2, <2>3, <2>5, <2>6, <3>1, Zenon DEF InDelta
  <2>9. \A h : InDelta(h) \/ h = g => h \in Range(t)
    <3>1. Len(delta) + 1 \in DOMAIN t /\ \A i \in DOMAIN delta :
            i \in DOMAIN t /\ t[i] = delta[i].page
      BY <1>1, <2>4
    <3> QED
      BY <2>4, <3>1, SMTT(30) DEF InDelta, Range
  <2>10. \A i \in 1 .. Len(t) : t[i] = delta'[i].page
    <3> SUFFICES ASSUME NEW i \in 1 .. Len(t) PROVE t[i] = delta'[i].page
      OBVIOUS
    <3>1. i \in 1 .. Len(delta) \/ i = Len(delta) + 1
      BY <1>1, <2>4, SMTT(30)
    <3> QED
      BY <1>1, <2>2, <2>3, <2>4, <3>1, Zenon
  <2> QED
    BY <1>1, <2>2, <2>3, <2>4, <2>5, <2>6, <2>7, <2>8, <2>9, <2>10, SMTT(30)
<1> QED
  BY <1>2, <1>3, Zenon

(* The file grows by a page, unless another process has added the page. *)
LEMMA allocate_difference_page_Step ==
  ASSUME IInv, NEW p \in Processes, allocate_difference_page(p)
  PROVE  IInv'
<1> USE DEF files, table, cache, bounds
<1>1. /\ pc[p] = "mark" /\ half[p] = NULL /\ alloc_fresh' = {p}
      /\ IF dirty[p] = {} THEN Database!HandOver(Attachment(p), Cache(p)) ELSE Unlock(Attachment(p))
      /\ todo' = [todo EXCEPT ![p] = {}] /\ pc' = [pc EXCEPT ![p] = "idle"]
      /\ changes' = changes + 1
      /\ UNCHANGED <<main, end_lock, backup_state, current_scn, half, recover, level0, crashes>>
  BY Zenon DEF allocate_difference_page, At, Goto
<1>2. /\ H' = H /\ H.state = nbak_state_stalled /\ p \in fresh
      /\ use[Attachment(p)] = Database!LCK_read
      /\ \A q \in Processes : half[q] = NULL
  BY <1>1, Zenon DEF H, IInv, Phase, Locked, Writing, Reading, nbak_state_stalled,
     nbak_state_merge
<1>3. \A q \in Processes : pc[q] \notin Writing
  BY <1>1, <1>2, Knowing, Zenon DEF Writing
<1>4. Known(p) /\ delta \in Seq(Entry) /\ actualize_alloc(p) = DeltaPages
  BY <1>1, <1>2, Knowing, Zenon DEF nbak_state_stalled, nbak_state_normal
<1>5. PICK g \in todo[p] :
        /\ alloc_table' = [alloc_table EXCEPT
              ![p] = IF g \in Range(DeltaPages) THEN DeltaPages ELSE Append(DeltaPages, g)]
        /\ delta' = IF g \in Range(DeltaPages) THEN delta
                    ELSE Append(delta, [page |-> g, content |-> Undefined])
        /\ Dirtied(p, g, [buffer[p][g] EXCEPT !.ver = changes + 1])
  BY <1>4, Zenon DEF allocate_difference_page
<1>6. /\ g \in Pages /\ todo[p] = {g} /\ buffer[p][g] # NULL
      /\ \A q \in Processes \ {p} : g \notin dirty[q] /\ ~(pc[q] = "mark" /\ g \in todo[q])
  BY <1>1, <1>5, Zenon DEF IInv, Cached, Types
<1> DEFINE page == [buffer[p][g] EXCEPT !.ver = changes + 1]
           t == alloc_table'[p]
<1>7. page \in Page /\ (g = HEADER_PAGE => HeaderCopy(page))
  <2>1. buffer[p][g] \in Page /\ changes + 1 \in Nat
    BY <1>6 DEF IInv, Types
  <2>2. page \in Page /\ page.scn = buffer[p][g].scn /\ page.state = buffer[p][g].state
    BY <2>1, Zenon DEF Page
  <2>3. g = HEADER_PAGE => HeaderCopy(buffer[p][g])
    BY <1>6, Zenon DEF IInv, Headers
  <2> QED
    BY <2>2, <2>3, Zenon DEF HeaderCopy
<1> HIDE DEF page
<1>8. /\ buffer' \in [Processes -> [Pages -> Page \cup {NULL}]]
      /\ buffer'[p][g] # NULL
      /\ \A q \in Processes \ {p} : buffer'[q][g] = NULL
      /\ \A q \in Processes, h \in Pages \ {g} : buffer'[q][h] = buffer[q][h]
      /\ \A q \in Processes :
           buffer'[q][HEADER_PAGE] # NULL => HeaderCopy(buffer'[q][HEADER_PAGE])
      /\ \A q \in Processes, h \in Pages :
           h # HEADER_PAGE /\ buffer'[q][h] # NULL => Old(h, buffer'[q][h])
      /\ dirty' \in [Processes -> SUBSET Pages]
      /\ dirty'[p] = dirty[p] \cup {g} /\ \A q \in Processes \ {p} : dirty'[q] = dirty[q]
  <2>1. Dirtied(p, g, page)
    BY <1>5, Zenon DEF page
  <2> QED
    BY <1>1, <1>2, <1>6, <1>7, <2>1, DirtyPage, SMTT(30)
<1>9. /\ \A i, j \in DOMAIN delta : delta[i].page = delta[j].page => i = j
      /\ g \in Range(DeltaPages) <=> InDelta(g)
  BY <1>2, <1>4, DeltaIndex, Zenon DEF IInv, Delta, nbak_state_stalled, nbak_state_normal
<1>10. /\ t = IF InDelta(g) THEN DeltaPages ELSE Append(DeltaPages, g)
       /\ \A q \in Processes \ {p} : alloc_table'[q] = alloc_table[q]
       /\ delta' = IF InDelta(g) THEN delta ELSE Append(delta, [page |-> g, content |-> Undefined])
  BY <1>5, <1>9, Zenon DEF IInv, Types
<1> HIDE DEF t
<1>11. /\ delta' \in Seq(Entry) /\ Len(delta) <= Len(delta')
       /\ \A i \in DOMAIN delta : i \in DOMAIN delta' /\ delta'[i] = delta[i]
       /\ \A i \in DOMAIN delta' :
            i \in DOMAIN delta \/ (delta'[i].page = g /\ delta'[i].content = Undefined)
       /\ \A i, j \in DOMAIN delta' : delta'[i].page = delta'[j].page => i = j
       /\ \A h : InDelta(h)' <=> InDelta(h) \/ h = g
       /\ t \in Seq(Pages) /\ Len(t) = Len(delta')
       /\ \A i \in 1 .. Len(t) : t[i] = delta'[i].page
       /\ \A h : InDelta(h) \/ h = g => h \in Range(t)
  <2>1. IF InDelta(g) THEN delta' = delta /\ t = DeltaPages
        ELSE delta' = Append(delta, [page |-> g, content |-> Undefined]) /\ t =
          Append(DeltaPages, g)
    BY <1>10, Zenon
  <2> QED
    BY <1>4, <1>6, <1>9, <2>1, NewPlace, Zenon DEF IInv
<1>12. /\ use' \in [Owners -> {LCK_none, Database!LCK_read, Database!LCK_write}]
       /\ \A q \in Processes :
            /\ use'[Attachment(q)] = IF q = p THEN LCK_none ELSE use[Attachment(q)]
            /\ use'[Cache(q)] = IF q = p THEN Database!LCK_read ELSE use[Cache(q)]
       /\ fresh' = fresh
  <2>1. CASE dirty[p] = {}
    BY <1>1, <1>2, <2>1, LockHandOver, Zenon DEF IInv
  <2>2. CASE dirty[p] # {}
    <3>1. use[Cache(p)] = Database!LCK_read
      BY <2>2, Zenon DEF IInv, Locked
    <3> QED
      BY <1>1, <2>2, <3>1, AttachmentUnlock, Zenon DEF IInv
  <2> QED
    BY <2>1, <2>2, Zenon
<1>13. Types'
  <2>1. alloc_table' \in [Processes -> Seq(Pages)]
    BY <1>5, <1>10, <1>11, Zenon DEF IInv, Types, t
  <2>2. /\ pc' \in [Processes -> Ending \cup Outside] /\ todo' \in [Processes -> SUBSET Pages]
        /\ alloc_fresh' \subseteq Processes /\ changes' \in Nat
    BY <1>1 DEF IInv, Types, Outside
  <2> QED
    BY <1>1, <1>2, <1>8, <1>11, <1>12, <2>1, <2>2, Zenon DEF IInv, Types
<1>14. Delta' /\ Level0' /\ \A q \in Processes : StateKnown(q)'
  BY <1>1, <1>2, <1>11, <1>12, ZenonT(30) DEF IInv, Delta, Level0, StateKnown, Known, Types,
     Merging
<1>15. ASSUME NEW q \in Processes PROVE Locked(q)'
  <2>1. Locked(q) /\ \A r \in Processes : pc'[r] \notin Writing
    BY <1>1, <1>3, Zenon DEF IInv, Types, Writing
  <2>2. CASE q = p
    <3>1. pc'[p] = "idle" /\ todo'[p] = {} /\ half'[p] = NULL /\ dirty'[p] # {}
      BY <1>1, <1>8, Zenon DEF IInv, Types
    <3>2. end_lock' # p
      BY <1>1, <2>1, <2>2, ZenonT(30) DEF Locked, Ending
    <3> QED
      BY <1>2, <1>12, <2>1, <2>2, <3>1, <3>2, Zenon DEF Locked, Writing, Reading, Ending
  <2>3. CASE q # p
    BY <1>1, <1>2, <1>8, <1>12, <2>1, <2>3, SMTT(30) DEF Locked, IInv, Types
  <2> QED
    BY <2>2, <2>3, Zenon
<1>16. ASSUME NEW q \in Processes PROVE Phase(q)' /\ MergeHeader(q)'
  BY <1>1, <1>2, <1>3, ZenonT(30) DEF IInv, Phase, MergeHeader, Types, Writing, Merging
<1>17. ASSUME NEW q \in Processes PROVE TableKnown(q)'
  <2>1. CASE q = p
    <3>1. Len(t) \in Nat
      BY <1>11
    <3>2. Prefix(p)'
      BY <1>11, <3>1, Order, Zenon DEF Prefix, t
    <3> QED
      BY <1>2, <2>1, <3>2, ZenonT(30) DEF TableKnown, nbak_state_stalled, nbak_state_normal
  <2>2. CASE q # p
    <3>1. q \notin alloc_fresh' /\ alloc_table'[q] =
            alloc_table[q] /\ alloc_table[q] \in Seq(Pages)
      BY <1>1, <1>10, <2>2, ZenonT(30) DEF IInv, Types
    <3>2. Prefix(q) => Prefix(q)'
      <4> SUFFICES ASSUME Prefix(q) PROVE Prefix(q)'
        OBVIOUS
      <4>1. Len(alloc_table[q]) <= Len(delta) /\ Len(alloc_table[q]) \in Nat /\ Len(delta) \in Nat
            /\ Len(delta') \in Nat /\ DOMAIN delta = 1 .. Len(delta)
        BY <1>4, <1>11, <3>1, SMTT(30) DEF Prefix
      <4>2. \A i \in 1 .. Len(alloc_table[q]) :
              i \in DOMAIN delta /\ alloc_table[q][i] = delta'[i].page
        BY <1>11, <4>1, SMTT(30) DEF Prefix
      <4> QED
        BY <1>11, <3>1, <4>1, <4>2, SMTT(30) DEF Prefix
    <3> QED
      BY <1>1, <1>2, <3>1, <3>2, Zenon DEF IInv, TableKnown, nbak_state_stalled, nbak_state_normal
  <2> QED
    BY <2>1, <2>2, Zenon
<1>18. ASSUME NEW q \in Processes PROVE Mapped(q)'
  <2>1. CASE q = p
    <3>1. \A h \in dirty[p] : h \in Range(alloc_table[p])
      BY <1>2, Zenon DEF IInv, Mapped, nbak_state_stalled, nbak_state_normal
    <3>2. Prefix(p)
      BY <1>2, Knowing, Zenon DEF nbak_state_stalled, nbak_state_normal
    <3>3. \A h \in dirty[p] : InDelta(h)
      BY <1>4, <3>1, <3>2, PrefixRange, Zenon DEF IInv
    <3> QED
      BY <1>8, <1>11, <2>1, <3>3, Zenon DEF Mapped, t
  <2>2. CASE q # p
    BY <1>2, <1>8, <1>10, <2>2, Zenon DEF IInv, Mapped, nbak_state_stalled, nbak_state_normal
  <2> QED
    BY <2>1, <2>2, Zenon
<1>19. Headers'
  <2>1. ASSUME NEW c, HeaderCopy(c) PROVE HeaderCopy(c)'
    BY <1>2, <2>1, ZenonT(30) DEF HeaderCopy, nbak_state_stalled, nbak_state_normal,
       nbak_state_merge
  <2> QED
    BY <1>2, <1>8, <1>11, <2>1, Zenon DEF IInv, Headers
<1>20. ASSUME NEW h \in Pages PROVE Scns(h)'
  <2>1. Scns(h)
    BY Zenon DEF IInv
  <2>2. \A c : Old(h, c)' <=> Old(h, c)
    BY <1>1, <1>2, Zenon DEF Old
  <2>3. \A i \in DOMAIN delta' : delta'[i].content # Undefined =>
          i \in DOMAIN delta /\ delta'[i] = delta[i]
    BY <1>11, Zenon
  <2> QED
    BY <1>1, <1>2, <1>8, <2>1, <2>2, <2>3, ZenonT(60) DEF Scns
<1>21. ASSUME NEW h \in Pages, NEW q \in Processes PROVE Cached(q, h)'
  <2>1. half'[q] # h
    BY <1>1, <1>2, PagesAssumption, Zenon
  <2>2. pc'[q] = "mark" => q # p
    BY <1>1, Zenon DEF IInv, Types
  <2>3. CASE h = g
    <3>1. ~Clean(g)' /\ ~(pc'[q] = "mark" /\ g \in todo'[q]) /\ (pc'[q] = "out" => q # p)
      BY <1>1, <1>6, <1>8, <2>2, Zenon DEF Clean, IInv, Types
    <3>2. (g \in dirty'[q] => q = p) /\ \A r \in Processes \ {p} : g \notin dirty'[r]
      BY <1>6, <1>8, Zenon
    <3> QED
      BY <1>8, <2>1, <2>3, <3>1, <3>2, Zenon DEF Cached
  <2>4. CASE h # g
    <3>1. Cached(q, h) /\ buffer'[q][h] = buffer[q][h]
      BY <1>8, <2>4, Zenon DEF IInv
    <3>2. \A r \in Processes :
            (h \in dirty'[r] <=> h \in dirty[r]) /\ buffer'[r][h] = buffer[r][h]
      BY <1>8, <2>4, Zenon
    <3>3. (Clean(h)' <=> Clean(h)) /\ (InDelta(h)' <=> InDelta(h))
      BY <1>11, <2>4, <3>2, Zenon DEF Clean
    <3>4. Current(h, buffer[q][h]) => Current(h, buffer[q][h])'
      <4>1. \A i \in DOMAIN delta' : delta'[i].page = h =>
              i \in DOMAIN delta /\ delta'[i] = delta[i]
        BY <1>11, <2>4, Zenon
      <4> QED
        BY <1>1, <1>2, <3>1, <3>3, <4>1, Zenon DEF Current
    <3>5. pc[q] # "main1" /\ pc'[q] \in {"idle", pc[q]} /\ (pc'[q] = "mark" => todo'[q] = todo[q])
      BY <1>1, <1>3, <2>2, Zenon DEF IInv, Types, Writing
    <3>6. \A r \in Processes : pc'[r] = "mark" => pc[r] = "mark" /\ todo'[r] = todo[r]
      BY <1>1, Zenon DEF IInv, Types
    <3> QED
      BY <1>1, <2>1, <3>1, <3>2, <3>3, <3>4, <3>5, <3>6, Zenon DEF Cached
  <2> QED
    BY <2>3, <2>4, Zenon
<1>22. ASSUME H'.state # nbak_state_normal, NEW i \in DOMAIN delta' PROVE Merges(i)'
  <2>1. CASE i \in DOMAIN delta
    <3>1. delta'[i] = delta[i] /\ Merges(i)
      BY <1>2, <1>11, <1>22, <2>1, Zenon DEF IInv
    <3>2. \A q \in Processes : pc'[q] \in Merging => pc[q] \in Merging /\ q # p
      BY <1>1, Zenon DEF IInv, Types, Merging
    <3>3. \A q \in Processes : pc'[q] = "main1" => pc[q] = "main1"
      BY <1>1, Zenon DEF IInv, Types
    <3>4. \A q \in Processes \ {p} : pc'[q] = pc[q] /\ todo'[q] = todo[q] /\ dirty'[q] = dirty[q]
      BY <1>1, <1>8, Zenon DEF IInv, Types
    <3> QED
      BY <1>1, <1>2, <1>12, <3>1, <3>2, <3>3, <3>4, SMTT(30) DEF Merges, Newer
  <2>2. CASE i \notin DOMAIN delta
    BY <1>11, <2>2, Zenon DEF Merges, Newer
  <2> QED
    BY <2>1, <2>2, ZenonT(30)
<1> QED
  BY <1>13, <1>14, <1>15, <1>16, <1>17, <1>18, <1>19, <1>20, <1>21, <1>22, ZenonT(30) DEF IInv

-----------------------------------------------------------------------------
(* Writes of pages. *)
LEMMA CleanPage ==
  ASSUME IInv, NEW p \in Processes, NEW g \in dirty[p], Cleaned(p, g)
  PROVE  /\ use' \in [Owners -> {LCK_none, Database!LCK_read, Database!LCK_write}]
         /\ \A q \in Processes : use'[Attachment(q)] = use[Attachment(q)]
         /\ use'[Cache(p)] = IF dirty'[p] = {} THEN LCK_none ELSE Database!LCK_read
         /\ \A q \in Processes \ {p} : use'[Cache(q)] = use[Cache(q)]
         /\ fresh' = fresh
         /\ dirty' \in [Processes -> SUBSET Pages]
         /\ dirty'[p] = dirty[p] \ {g} /\ \A q \in Processes \ {p} : dirty'[q] = dirty[q]
<1>1. /\ dirty' \in [Processes -> SUBSET Pages]
      /\ dirty'[p] = dirty[p] \ {g} /\ \A q \in Processes \ {p} : dirty'[q] = dirty[q]
  BY Zenon DEF IInv, Types, Cleaned
<1>2. dirty'[p] = {} <=> dirty[p] = {g}
  BY <1>1, Zenon
<1>3. CASE dirty[p] = {g}
  BY <1>1, <1>2, <1>3, CacheUnlock, Zenon DEF Cleaned, IInv
<1>4. CASE dirty[p] # {g}
  <2>1. UNCHANGED locks /\ use[Cache(p)] = Database!LCK_read
    BY <1>4, Zenon DEF Cleaned, IInv, Locked
  <2> QED
    BY <1>1, <1>2, <1>4, <2>1, Zenon DEF locks, IInv, Types
<1> QED
  BY <1>3, <1>4, Zenon

(* Who has a dirty page. *)
LEMMA Dirtying ==
  ASSUME IInv, NEW p \in Processes, NEW g \in dirty[p]
  PROVE  /\ p \in fresh /\ \A q \in Processes : pc[q] \notin Writing
         /\ g \in Pages /\ buffer[p][g] \in Page
         /\ \A q \in Processes \ {p} : g \notin dirty[q] /\ buffer[q][g] = NULL /\ half[q] # g
         /\ g = HEADER_PAGE => HeaderCopy(buffer[p][g])
         /\ g # HEADER_PAGE => Old(g, buffer[p][g])
<1>1. p \in fresh /\ \A q \in Processes : pc[q] \notin Writing
  BY Zenon DEF IInv, Locked
<1>2. g \in Pages /\ buffer[p][g] \in Page
  BY SMTT(30) DEF IInv, Types, Cached
<1>3. \A q \in Processes \ {p} : g \notin dirty[q] /\ buffer[q][g] = NULL /\ half[q] # g
  BY <1>2, PagesAssumption, SMTT(30) DEF IInv, Cached, Locked
<1>4. buffer[p][g] # NULL
  BY <1>2, PageNotNull, Zenon
<1> QED
  BY <1>1, <1>2, <1>3, <1>4, Zenon DEF IInv, Headers, Scns

(* A dirty page goes to the main file: in normal state, or as the only or  *)
(* the second write of a merge.                                            *)
LEMMA MainWritten ==
  ASSUME IInv, NEW p \in Processes, NEW g \in dirty[p], half[p] \in {NULL, g},
         main' = [main EXCEPT ![g] = buffer[p][g]], Cleaned(p, g),
         half' = [half EXCEPT ![p] = NULL],
         \/ H.state = nbak_state_normal
         \/ /\ H.state = nbak_state_merge
            /\ \A i \in DOMAIN delta :
                 delta[i].page = g => delta[i].content \in {Undefined, buffer[p][g]},
         UNCHANGED <<delta, table, end_lock, backup_state, current_scn, buffer, pc,
                     recover, todo, level0, bounds>>
  PROVE  IInv'
<1> DEFINE c == buffer[p][g]
<1> USE DEF table, bounds
<1>1. /\ p \in fresh /\ \A q \in Processes : pc[q] \notin Writing
      /\ g \in Pages /\ c \in Page
      /\ \A q \in Processes \ {p} : g \notin dirty[q] /\ buffer[q][g] = NULL /\ half[q] # g
      /\ g = HEADER_PAGE => HeaderCopy(c)
      /\ g # HEADER_PAGE => Old(g, c)
  BY Dirtying, Zenon
<1>2. /\ use' \in [Owners -> {LCK_none, Database!LCK_read, Database!LCK_write}]
      /\ \A q \in Processes : use'[Attachment(q)] = use[Attachment(q)]
      /\ use'[Cache(p)] = IF dirty'[p] = {} THEN LCK_none ELSE Database!LCK_read
      /\ \A q \in Processes \ {p} : use'[Cache(q)] = use[Cache(q)]
      /\ fresh' = fresh
      /\ dirty' \in [Processes -> SUBSET Pages]
      /\ dirty'[p] = dirty[p] \ {g} /\ \A q \in Processes \ {p} : dirty'[q] = dirty[q]
  BY CleanPage, Zenon
<1>3. /\ main' \in [Pages -> Page] /\ main'[g] = c
      /\ \A h \in Pages \ {g} : main'[h] = main[h]
  BY <1>1, Zenon DEF IInv, Types
<1>4. /\ half' \in [Processes -> Pages \cup {NULL}] /\ half'[p] = NULL
      /\ \A q \in Processes \ {p} : half'[q] = half[q]
  BY Zenon DEF IInv, Types
<1> HIDE DEF c
<1>5. H.scn \in Nat /\ H'.scn \in Nat /\ \A q \in Processes : current_scn[q] \in Nat
  BY <1>3, PagesAssumption, Zenon DEF IInv, Types, H, Page
<1>6. /\ H'.state = H.state /\ H.scn <= H'.scn
      /\ \A q \in fresh : H'.scn <= current_scn[q] + 1
      /\ H.state = nbak_state_normal => H'.scn = H.scn
      /\ \A q \in Processes : pc[q] \in Merging => H'.scn = H.scn
  <2>1. /\ \A q \in fresh : H.scn <= current_scn[q] + 1
        /\ \A q \in Processes : pc[q] \in Merging => H.state = nbak_state_merge
    BY Zenon DEF IInv, StateKnown, Phase, Types
  <2>2. CASE g # HEADER_PAGE
    <3>1. H' = H
      BY <1>3, <2>2, PagesAssumption, ZenonT(30) DEF H
    <3>2. H.scn <= H.scn
      BY <1>5
    <3> QED
      BY <2>1, <3>1, <3>2, Zenon
  <2>3. CASE g = HEADER_PAGE
    <3>1. H' = c
      BY <1>3, <2>3, Zenon DEF H
    <3> QED
      <4>1. CASE H.state = nbak_state_normal
        <5>1. c.state = H.state /\ c.scn = H.scn
          BY <1>1, <2>3, <4>1, Zenon DEF HeaderCopy
        <5>2. H.scn <= H.scn
          BY <1>5
        <5> QED
          BY <2>1, <3>1, <5>1, <5>2, Zenon
      <4>2. CASE H.state = nbak_state_merge
        <5>1. /\ c.state = H.state /\ H.scn <= c.scn
              /\ \A q \in fresh : c.scn <= current_scn[q] + 1
              /\ \A q \in Processes : pc[q] \in Merging => c.scn = H.scn
          BY <1>1, <2>3, <4>2, Zenon DEF HeaderCopy
        <5>2. nbak_state_normal # nbak_state_merge
          BY DEF nbak_state_normal, nbak_state_merge
        <5> QED
          BY <3>1, <4>2, <5>1, <5>2, Zenon
      <4> QED
        BY <4>1, <4>2, Zenon
  <2> QED
    BY <2>2, <2>3, Zenon
<1>7. Types'
  BY <1>2, <1>3, <1>4, Zenon DEF IInv, Types
<1>8. ASSUME NEW q \in Processes PROVE Locked(q)'
  <2>1. Locked(q) /\ pc[q] \notin Writing
    BY <1>1, Zenon DEF IInv
  <2>2. CASE q = p
    BY <1>2, <1>4, <1>6, <2>1, <2>2, Zenon DEF Locked
  <2>3. CASE q # p
    BY <1>1, <1>2, <1>4, <1>6, <2>1, <2>3, ZenonT(30) DEF Locked
  <2> QED
    BY <2>2, <2>3, Zenon
<1>9. \A q \in Processes : Phase(q)'
  BY <1>6, KeepPhase, Zenon DEF IInv
<1>10. ASSUME NEW q \in Processes PROVE StateKnown(q)'
  <2>1. StateKnown(q) /\ pc[q] # "main1"
    BY <1>1, Zenon DEF IInv, Writing
  <2>2. H.state # nbak_state_merge => H.state = nbak_state_normal
    OBVIOUS
  <2>3. current_scn[q] <= H'.scn
    BY <1>5, <1>6, <2>1, Order, Zenon DEF StateKnown
  <2> QED
    BY <1>2, <1>6, <2>1, <2>2, <2>3, ZenonT(30) DEF StateKnown
<1>11. \A q \in Processes : MergeHeader(q)'
  BY <1>1, Zenon DEF MergeHeader, Writing
<1>12. ASSUME NEW q \in Processes PROVE TableKnown(q)'
  <2>1. TableKnown(q) /\ (Prefix(q)' <=> Prefix(q))
    BY Zenon DEF IInv, Prefix
  <2>2. H'.scn <= current_scn[q] + 1 => H.scn <= current_scn[q] + 1
    BY <1>5, <1>6, Order, Zenon
  <2> QED
    BY <1>6, <2>1, <2>2, Zenon DEF TableKnown
<1>13. ASSUME NEW q \in Processes PROVE Mapped(q)'
  BY <1>2, <1>6, Zenon DEF IInv, Mapped, InDelta
<1>14. Delta' /\ Level0'
  <2>1. level0 # NULL => level0[HEADER_PAGE].scn \in Nat
    BY PagesAssumption, Zenon DEF IInv, Types, Page
  <2> QED
    BY <1>2, <1>5, <1>6, <2>1, Order, Zenon DEF IInv, Delta, Level0
<1>15. Headers'
  <2>1. ASSUME NEW d, HeaderCopy(d), g # HEADER_PAGE \/ d = c PROVE HeaderCopy(d)'
    <3>1. CASE g # HEADER_PAGE
      <4>1. H' = H
        BY <1>3, <3>1, PagesAssumption, ZenonT(30) DEF H
      <4> QED
        BY <1>2, <2>1, <4>1, ZenonT(30) DEF HeaderCopy
    <3>2. CASE g = HEADER_PAGE
      <4>1. H' = c /\ c.scn \in Nat
        BY <1>1, <1>3, <3>2, Zenon DEF H, Page
      <4> QED
        BY <1>2, <1>6, <2>1, <3>2, <4>1, SMTT(30) DEF HeaderCopy
    <3> QED
      BY <3>1, <3>2, Zenon
  <2>2. \A q \in Processes : buffer[q][HEADER_PAGE] # NULL =>
          HeaderCopy(buffer[q][HEADER_PAGE]) /\ (g # HEADER_PAGE \/ buffer[q][HEADER_PAGE] = c)
    BY <1>1, Zenon DEF IInv, Headers, c
  <2>3. H.state # nbak_state_normal => \A i \in DOMAIN delta :
          delta[i].page = HEADER_PAGE /\ delta[i].content # Undefined =>
            HeaderCopy(delta[i].content) /\ (g # HEADER_PAGE \/ delta[i].content = c)
    BY Zenon DEF IInv, Headers, c
  <2> QED
    BY <1>6, <2>1, <2>2, <2>3, Zenon DEF Headers
<1>16. ASSUME NEW h \in Pages PROVE Scns(h)'
  <2>1. Scns(h) /\ H.state # nbak_state_stalled
    BY Zenon DEF IInv, nbak_state_stalled, nbak_state_normal, nbak_state_merge
  <2>2. \A d : d.scn \in Nat /\ Old(h, d) => Old(h, d)'
    BY <1>5, <1>6, Order, Zenon DEF Old
  <2>3. /\ main[h].scn \in Nat /\ c.scn \in Nat
        /\ \A q \in Processes : buffer[q][h] # NULL => buffer[q][h].scn \in Nat
    <3>1. main[h] \in Page /\ c \in Page
      BY <1>1, Zenon DEF IInv, Types
    <3>0. \A d \in Page : d.scn \in Nat
      BY Zenon DEF Page
    <3>2. ASSUME NEW q \in Processes, buffer[q][h] # NULL PROVE buffer[q][h].scn \in Nat
      <4>1. buffer[q] \in [Pages -> Page \cup {NULL}]
        BY Zenon DEF IInv, Types
      <4>2. buffer[q][h] \in Page
        BY <3>2, <4>1, Zenon
      <4> QED
        BY <3>0, <4>2, Zenon
    <3> QED
      BY <3>0, <3>1, <3>2, Zenon
  <2>4. H.state # nbak_state_normal => \A i \in DOMAIN delta :
          delta[i].content # Undefined => delta[i].content.scn \in Nat
    <3> SUFFICES ASSUME H.state # nbak_state_normal, NEW i \in DOMAIN delta,
                        delta[i].content # Undefined
                 PROVE  delta[i].content.scn \in Nat
      OBVIOUS
    <3>1. delta[i] \in Entry
      BY DEF IInv, Delta
    <3> QED
      BY <3>1, ZenonT(30) DEF Entry, Page
  <2> QED
    BY <1>1, <1>3, <1>6, <2>1, <2>2, <2>3, <2>4, Zenon DEF Scns
<1>17. ASSUME NEW h \in Pages, NEW q \in Processes PROVE Cached(q, h)'
  <2>1. Cached(q, h) /\ pc[q] # "main1" /\ (InDelta(h)' <=> InDelta(h))
    BY <1>1, Zenon DEF IInv, Writing, InDelta
  <2>2. CASE h = g
    <3>1. Current(g, buffer[p][g])'
      <4>1. CASE H.state = nbak_state_normal
        BY <1>3, <1>6, <4>1, Zenon DEF Current, c
      <4>2. CASE H.state # nbak_state_normal
        BY <1>3, <1>6, <4>2, Zenon DEF Current, c
      <4> QED
        BY <4>1, <4>2, Zenon
    <3>2. half'[q] # h
      BY <1>1, <1>4, <2>2, PagesAssumption, Zenon
    <3>3. h \notin dirty'[q] /\ (buffer[q][h] # NULL => q = p)
      BY <1>1, <1>2, <2>2, Zenon
    <3>4. pc[q] = "mark" /\ h \in todo[q] => h \notin dirty[p] \/ q = p
      BY <1>1, <2>1, <2>2, ZenonT(30) DEF Cached
    <3> QED
      BY <1>1, <1>2, <2>1, <2>2, <3>1, <3>2, <3>3, <3>4, Zenon DEF Cached
  <2>3. CASE h # g
    <3>1. \A r \in Processes : h \in dirty'[r] <=> h \in dirty[r]
      BY <1>2, <2>3, Zenon
    <3>2. Clean(h)' <=> Clean(h)
      BY <3>1, Zenon DEF Clean
    <3>3. Current(h, buffer[q][h])' <=> Current(h, buffer[q][h])
      BY <1>3, <1>6, <2>1, <2>3, Zenon DEF Current
    <3>4. half'[q] = h => half[q] = h
      BY <1>4, PagesAssumption, Zenon
    <3> QED
      BY <2>1, <3>1, <3>2, <3>3, <3>4, Zenon DEF Cached
  <2> QED
    BY <2>2, <2>3, Zenon
<1>18. ASSUME H'.state # nbak_state_normal, NEW i \in DOMAIN delta' PROVE Merges(i)'
  <2>1. Merges(i) /\ \A q \in Processes : pc[q] # "main1"
    BY <1>1, <1>6, <1>18, Zenon DEF IInv, Writing
  <2>2. CASE delta[i].page = g
    BY <1>3, <1>6, <1>18, <2>2, Zenon DEF Merges, Newer, c
  <2>3. CASE delta[i].page # g
    <3>1. delta[i] \in Entry
      BY <1>6, <1>18, SMTT(30) DEF IInv, Delta
    <3>2. delta[i].page \in Pages /\ (delta[i].content # Undefined =>
            delta[i].content.scn \in Nat)
      BY <3>1, ZenonT(30) DEF Entry, Page
    <3>3. Newer(i)' => Newer(i)
      BY <1>1, <1>3, <1>4, <2>3, <3>2, SMTT(30) DEF Newer
    <3>4. \A q \in Processes : delta[i].page \in dirty'[q] <=> delta[i].page \in dirty[q]
      BY <1>2, <2>3, Zenon
    <3>5. delta[i].content # Undefined /\ delta[i].content.scn <= H.scn =>
            delta[i].content.scn <= H'.scn
      BY <1>5, <1>6, <3>2, Order, Zenon
    <3> QED
      BY <1>2, <1>6, <2>1, <3>2, <3>3, <3>4, <3>5, ZenonT(30) DEF Merges, Newer
  <2> QED
    BY <2>2, <2>3, Zenon
<1> QED
  BY <1>7, <1>8, <1>9, <1>10, <1>11, <1>12, <1>13, <1>14, <1>15, <1>16, <1>17, <1>18,
    ZenonT(30) DEF IInv

(* The content of a page of the delta is replaced. *)
LEMMA Replaced ==
  ASSUME delta \in Seq(Entry), NEW i \in DOMAIN delta, NEW c \in Page,
         delta' = [delta EXCEPT ![i].content = c]
  PROVE  /\ delta' \in Seq(Entry) /\ DOMAIN delta' = DOMAIN delta /\ Len(delta') = Len(delta)
         /\ \A j \in DOMAIN delta :
              /\ delta'[j].page = delta[j].page
              /\ delta'[j].content = IF j = i THEN c ELSE delta[j].content
         /\ \A h : InDelta(h)' <=> InDelta(h)
<1> DEFINE e == [delta[i] EXCEPT !.content = c]
<1>1. delta[i] \in Entry
  OBVIOUS
<1>2. e \in Entry /\ e.page = delta[i].page /\ e.content = c
  BY <1>1, Zenon DEF Entry
<1>3. delta' = [delta EXCEPT ![i] = e]
  OBVIOUS
<1> HIDE DEF e
<1>4. /\ delta' \in Seq(Entry) /\ DOMAIN delta' = DOMAIN delta /\ Len(delta') = Len(delta)
      /\ \A j \in DOMAIN delta : delta'[j] = IF j = i THEN e ELSE delta[j]
  BY <1>2, <1>3
<1>5. \A j \in DOMAIN delta :
        /\ delta'[j].page = delta[j].page
        /\ delta'[j].content = IF j = i THEN c ELSE delta[j].content
  BY <1>2, <1>4
<1>6. \A h : InDelta(h)' <=> InDelta(h)
  BY <1>4, <1>5, Zenon DEF InDelta
<1> QED
  BY <1>4, <1>5, <1>6, Zenon

(* A dirty page goes to the delta: in stalled state, or as the first write *)
(* of a merge.                                                             *)
LEMMA DeltaWritten ==
  ASSUME IInv, NEW p \in Processes, NEW g \in dirty[p], half[p] = NULL,
         NEW i \in DOMAIN delta, delta[i].page = g,
         delta' = [delta EXCEPT ![i].content = buffer[p][g]],
         \/ H.state = nbak_state_stalled /\ Cleaned(p, g) /\ UNCHANGED half
         \/ H.state = nbak_state_merge /\ half' = [half EXCEPT ![p] = g] /\ UNCHANGED <<dirty,
              locks>>,
         UNCHANGED <<main, table, end_lock, backup_state, current_scn, buffer, pc, recover,
                     todo, level0, bounds>>
  PROVE  IInv'
<1> DEFINE c == buffer[p][g]
<1> USE DEF table, bounds
<1>1. /\ p \in fresh /\ \A q \in Processes : pc[q] \notin Writing
      /\ g \in Pages /\ c \in Page
      /\ \A q \in Processes \ {p} : g \notin dirty[q] /\ buffer[q][g] = NULL /\ half[q] # g
      /\ g = HEADER_PAGE => HeaderCopy(c)
      /\ g # HEADER_PAGE => Old(g, c)
  BY Dirtying, Zenon
<1>2. H' = H /\ H.state # nbak_state_normal
  BY Zenon DEF H, nbak_state_normal, nbak_state_stalled, nbak_state_merge
<1>3. /\ delta \in Seq(Entry)
      /\ \A j, k \in DOMAIN delta : delta[j].page = delta[k].page => j = k
  BY <1>2, Zenon DEF IInv, Delta
<1>4. /\ delta' \in Seq(Entry) /\ DOMAIN delta' = DOMAIN delta /\ Len(delta') = Len(delta)
      /\ \A j \in DOMAIN delta :
           /\ delta'[j].page = delta[j].page
           /\ delta'[j].content = IF j = i THEN c ELSE delta[j].content
      /\ \A h : InDelta(h)' <=> InDelta(h)
  BY <1>1, <1>3, Replaced, Zenon
<1>5. c # Undefined /\ c # NULL
  BY <1>1, PageNotNull DEF Page, Undefined
<1>6. /\ use' \in [Owners -> {LCK_none, Database!LCK_read, Database!LCK_write}]
      /\ \A q \in Processes : use'[Attachment(q)] = use[Attachment(q)]
      /\ use'[Cache(p)] = IF dirty'[p] = {} THEN LCK_none ELSE Database!LCK_read
      /\ \A q \in Processes \ {p} : use'[Cache(q)] = use[Cache(q)]
      /\ fresh' = fresh
      /\ dirty' \in [Processes -> SUBSET Pages]
      /\ dirty'[p] = IF H.state = nbak_state_stalled THEN dirty[p] \ {g} ELSE dirty[p]
      /\ \A q \in Processes \ {p} : dirty'[q] = dirty[q]
  <2>1. CASE H.state = nbak_state_stalled
    BY <2>1, CleanPage, Zenon DEF nbak_state_stalled, nbak_state_merge
  <2>2. CASE H.state # nbak_state_stalled
    BY <2>2, Zenon DEF IInv, Types, Locked, locks
  <2> QED
    BY <2>1, <2>2, Zenon
<1>7. /\ half' \in [Processes -> Pages \cup {NULL}]
      /\ half'[p] = IF H.state = nbak_state_stalled THEN NULL ELSE g
      /\ \A q \in Processes \ {p} : half'[q] = half[q]
  BY <1>1, Zenon DEF IInv, Types, nbak_state_stalled, nbak_state_merge
<1> HIDE DEF c
<1>8. H.state = nbak_state_stalled =>
        /\ \A q \in Processes : half[q] = NULL /\ pc[q] \notin Merging
        /\ \A q \in fresh : current_scn[q] = H.scn
  BY <1>1, Zenon DEF IInv, Locked, Phase, StateKnown, Types, Writing, nbak_state_stalled,
     nbak_state_merge
<1>9. Types'
  BY <1>4, <1>6, <1>7, Zenon DEF IInv, Types
<1>10. ASSUME NEW q \in Processes PROVE Locked(q)'
  <2>1. Locked(q) /\ pc[q] \notin Writing
    BY <1>1, Zenon DEF IInv
  <2>2. CASE q = p
    BY <1>2, <1>6, <1>7, <2>1, <2>2, Zenon DEF Locked
  <2>3. CASE q # p
    BY <1>2, <1>6, <1>7, <2>1, <2>3, Zenon DEF Locked
  <2> QED
    BY <2>2, <2>3, Zenon
<1>11. \A q \in Processes : Phase(q)' /\ StateKnown(q)' /\ MergeHeader(q)'
  <2>1. \A q \in Processes : pc[q] \notin {"created", "main1"}
    BY <1>1, Zenon DEF Writing
  <2>2. \A q \in Processes : Phase(q)' /\ MergeHeader(q)'
    BY <1>2, <2>1, Zenon DEF IInv, Phase, MergeHeader
  <2> QED
    BY <1>2, <1>6, <2>2, KeepStateKnown, Zenon DEF IInv
<1>12. ASSUME NEW q \in Processes PROVE TableKnown(q)'
  <2>1. Prefix(q) => Prefix(q)'
    <3>1. alloc_table[q] \in Seq(Pages) /\ Len(alloc_table[q]) \in Nat /\ DOMAIN delta =
            1 .. Len(delta)
          /\ Len(delta) \in Nat
      BY <1>3 DEF IInv, Types
    <3> QED
      BY <1>4, <3>1, SMTT(30) DEF Prefix
  <2> QED
    BY <1>2, <2>1, Zenon DEF IInv, TableKnown
<1>13. ASSUME NEW q \in Processes PROVE Mapped(q)'
  <2>1. dirty'[q] \subseteq dirty[q]
    BY <1>6, Zenon
  <2> QED
    BY <1>2, <1>4, <2>1, Zenon DEF IInv, Mapped
<1>14. Delta' /\ Level0'
  BY <1>2, <1>3, <1>4, <1>6, SMTT(30) DEF IInv, Delta, Level0
<1>15. Headers'
  <2>1. ASSUME NEW d, HeaderCopy(d) PROVE HeaderCopy(d)'
    BY <1>2, <1>6, <2>1, Zenon DEF HeaderCopy
  <2>2. \A j \in DOMAIN delta :
          delta'[j].page = HEADER_PAGE /\ delta'[j].content # Undefined =>
            HeaderCopy(delta'[j].content)
    BY <1>1, <1>2, <1>4, SMTT(30) DEF IInv, Headers
  <2>3. \A j \in DOMAIN delta :
          delta'[j].page = HEADER_PAGE /\ delta'[j].content # Undefined =>
            HeaderCopy(delta[j].content)'
    BY <1>2, <1>4, <1>6, <2>2, Zenon DEF HeaderCopy
  <2> QED
    BY <1>2, <1>4, <2>1, <2>3, Zenon DEF IInv, Headers
<1>16. ASSUME NEW h \in Pages PROVE Scns(h)'
  <2>1. Scns(h)
    BY Zenon DEF IInv
  <2>2. \A j \in DOMAIN delta :
          h # HEADER_PAGE /\ delta'[j].page = h /\ delta'[j].content # Undefined =>
            Old(h, delta'[j].content)
    BY <1>1, <1>2, <1>4, <2>1 DEF Scns
  <2>3. \A j \in DOMAIN delta : Old(h, delta[j].content)' <=> Old(h, delta'[j].content)
    BY <1>2, Zenon DEF Old
  <2>4. /\ Old(h, main[h])' <=> Old(h, main[h])
        /\ \A q \in Processes : Old(h, buffer[q][h])' <=> Old(h, buffer[q][h])
    BY <1>2, Zenon DEF Old
  <2> QED
    BY <1>2, <1>4, <2>1, <2>2, <2>3, <2>4, Zenon DEF Scns
<1>17. ASSUME NEW h \in Pages, NEW q \in Processes PROVE Cached(q, h)'
  <2>1. Cached(q, h) /\ pc[q] # "main1" /\ (InDelta(h)' <=> InDelta(h))
    BY <1>1, <1>4, Zenon DEF IInv, Writing
  <2>2. CASE h = g
    <3>1. Current(g, buffer[p][g])' /\ InDelta(g)
      BY <1>2, <1>3, <1>4, <1>5, SMTT(30) DEF Current, c, InDelta
    <3>2. (half'[q] = h => q = p) /\ (buffer[q][h] # NULL => q = p)
      BY <1>1, <1>7, <2>2, Zenon
    <3>3. h \in dirty'[q] => h \in dirty[q]
      BY <1>6, Zenon
    <3>4. \A r \in Processes : h \notin dirty[r] => h \notin dirty'[r]
      BY <1>6, Zenon
    <3> QED
      BY <2>1, <2>2, <3>1, <3>2, <3>3, <3>4, Zenon DEF Cached
  <2>3. CASE h # g
    <3>1. \A r \in Processes : h \in dirty'[r] <=> h \in dirty[r]
      BY <1>6, <2>3, Zenon
    <3>2. Clean(h)' <=> Clean(h)
      BY <3>1, Zenon DEF Clean
    <3>3. Current(h, buffer[q][h])' <=> Current(h, buffer[q][h])
      BY <1>2, <1>4, <2>1, <2>3, Zenon DEF Current
    <3>4. half'[q] = h => half[q] = h
      BY <1>7, <2>3, PagesAssumption, Zenon
    <3> QED
      BY <2>1, <3>1, <3>2, <3>3, <3>4, Zenon DEF Cached
  <2> QED
    BY <2>2, <2>3, Zenon
<1>18. ASSUME NEW j \in DOMAIN delta PROVE Merges(j)'
  <2>1. Merges(j) /\ \A q \in Processes : pc[q] # "main1"
    BY <1>1, <1>2, Zenon DEF IInv, Writing
  <2>2. CASE j = i /\ H.state = nbak_state_stalled
    BY <1>1, <1>2, <1>4, <1>6, <1>8, <2>1, <2>2, Zenon DEF Merges, Old
  <2>3. CASE j = i /\ H.state # nbak_state_stalled
    <3>1. half'[p] = delta'[j].page
      BY <1>4, <1>7, <2>3, Zenon
    <3> QED
      BY <3>1, Zenon DEF Merges, Newer
  <2>4. CASE j # i
    <3>0. delta[j] \in Entry
      BY <1>3
    <3>1. delta[j].page # g /\ delta[j].page # NULL
      BY <1>3, <2>4, <3>0, PagesAssumption, Zenon DEF Entry
    <3>2. Newer(j)' => Newer(j)
      BY <1>4, <1>7, <2>4, <3>1, Zenon DEF Newer
    <3>3. \A q \in Processes : delta[j].page \in dirty'[q] <=> delta[j].page \in dirty[q]
      BY <1>6, <3>1, Zenon
    <3> QED
      BY <1>2, <1>4, <1>6, <2>1, <2>4, <3>2, <3>3, Zenon DEF Merges
  <2> QED
    BY <2>2, <2>3, <2>4, Zenon
<1> QED
  BY <1>4, <1>9, <1>10, <1>11, <1>12, <1>13, <1>14, <1>15, <1>16, <1>17, <1>18, ZenonT(30) DEF
     IInv

(* A dirty page is written where the state says. *)
LEMMA write_page_Step ==
  ASSUME IInv, NEW p \in Processes, NEW g \in Pages, write_page(p, g)
  PROVE  IInv'
<1> USE DEF table, bounds, locks
<1>1. /\ g \in dirty[p] /\ half[p] = NULL /\ ToDelta(p, g, buffer[p][g])
      /\ UNCHANGED <<table, end_lock, backup_state, current_scn, buffer, pc, recover,
                     todo, level0, bounds>>
  BY Zenon DEF write_page
<1>2. /\ p \in fresh /\ \A q \in Processes : pc[q] \notin Writing
  BY <1>1, Dirtying, Zenon
<1>3. backup_state[p] = H.state \/ (backup_state[p] = nbak_state_unknown /\ H.state =
        nbak_state_normal)
  BY <1>2, Knowing, Zenon DEF Known, Writing
<1>4. half = [half EXCEPT ![p] = NULL]
  BY <1>1, Zenon DEF IInv, Types
<1>5. H.state # nbak_state_normal =>
        /\ g \in Range(alloc_table[p]) =>
             /\ get_page_index(alloc_table[p], g) \in DOMAIN delta
             /\ delta[get_page_index(alloc_table[p], g)].page = g
        /\ g \notin Range(alloc_table[p]) => ~InDelta(g) /\ H.state # nbak_state_stalled
  BY <1>1, <1>2, Knowing, PrefixRange, Zenon DEF IInv, Mapped
<1>6. CASE H.state = nbak_state_normal
  <2>1. ~WritesDelta(p, g) /\ WritesMain(p)
    BY <1>3, <1>6, Zenon DEF WritesDelta, WritesMain, nbak_state_normal, nbak_state_stalled,
       nbak_state_merge, nbak_state_unknown
  <2>2. /\ delta' = delta /\ main' = [main EXCEPT ![g] = buffer[p][g]]
        /\ Cleaned(p, g) /\ half' = half
    BY <1>1, <2>1, Zenon DEF write_page, ToDelta
  <2> QED
    BY <1>1, <1>4, <1>6, <2>2, MainWritten, Zenon
<1>7. CASE H.state = nbak_state_stalled
  <2>1. WritesDelta(p, g) /\ ~WritesMain(p) /\ g \in Range(alloc_table[p])
    BY <1>3, <1>5, <1>7, Zenon DEF WritesDelta, WritesMain, nbak_state_normal, nbak_state_stalled
  <2>2. /\ delta' = [delta EXCEPT ![get_page_index(alloc_table[p], g)].content = buffer[p][g]]
        /\ main' = main /\ Cleaned(p, g) /\ half' = half
    BY <1>1, <2>1, Zenon DEF write_page, ToDelta
  <2> QED
    BY <1>1, <1>5, <1>7, <2>1, <2>2, DeltaWritten, Zenon DEF nbak_state_normal, nbak_state_stalled
<1>8. CASE H.state = nbak_state_merge
  <2>1. WritesMain(p) /\ (WritesDelta(p, g) <=> g \in Range(alloc_table[p]))
    BY <1>3, <1>8, Zenon DEF WritesDelta, WritesMain, nbak_state_normal, nbak_state_stalled,
       nbak_state_merge
  <2>2. CASE g \in Range(alloc_table[p])
    <3>1. /\ delta' = [delta EXCEPT ![get_page_index(alloc_table[p], g)].content = buffer[p][g]]
          /\ half' = [half EXCEPT ![p] = g] /\ UNCHANGED <<main, dirty, locks>>
      BY <1>1, <2>1, <2>2, Zenon DEF write_page, ToDelta
    <3> QED
      BY <1>1, <1>5, <1>8, <2>2, <3>1, DeltaWritten, Zenon DEF nbak_state_normal, nbak_state_merge
  <2>3. CASE g \notin Range(alloc_table[p])
    <3>1. /\ delta' = delta /\ main' = [main EXCEPT ![g] = buffer[p][g]]
          /\ Cleaned(p, g) /\ half' = half
      BY <1>1, <2>1, <2>3, Zenon DEF write_page, ToDelta
    <3>2. \A i \in DOMAIN delta : delta[i].page # g
      BY <1>5, <1>8, <2>3, Zenon DEF InDelta, nbak_state_normal, nbak_state_merge
    <3> QED
      BY <1>1, <1>4, <1>8, <3>1, <3>2, MainWritten, Zenon
  <2> QED
    BY <2>2, <2>3, Zenon
<1>9. H.state \in States
  BY PagesAssumption, Zenon DEF IInv, Types, H, Page
<1> QED
  BY <1>6, <1>7, <1>8, <1>9, Zenon DEF States

(* The second write of a page during a merge. *)
LEMMA write_page_main_Step ==
  ASSUME IInv, NEW p \in Processes, write_page_main(p)
  PROVE  IInv'
<1> DEFINE g == half[p]
<1>1. /\ g # NULL /\ main' = [main EXCEPT ![g] = buffer[p][g]] /\ half' = [half EXCEPT ![p] =
           NULL]
      /\ Cleaned(p, g)
      /\ UNCHANGED <<delta, table, end_lock, backup_state, current_scn, buffer, pc,
                     recover, todo, level0, bounds>>
  BY Zenon DEF write_page_main
<1>2. g \in dirty[p] /\ g \in Pages /\ H.state = nbak_state_merge
  BY <1>1, Zenon DEF IInv, Locked, Types
<1>3. InDelta(g) /\ Current(g, buffer[p][g])
  BY <1>2, Zenon DEF IInv, Cached
<1>4. \A i \in DOMAIN delta : delta[i].page = g => delta[i].content \in {Undefined, buffer[p][g]}
  BY <1>2, <1>3, Zenon DEF Current, nbak_state_normal, nbak_state_merge
<1> QED
  BY <1>1, <1>2, <1>4, MainWritten, Zenon
=============================================================================
