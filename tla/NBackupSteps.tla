---------------------------- MODULE NBackupSteps ----------------------------
(* The steps of begin_backup, end_backup and actualize_state keep the      *)
(* inductive invariant of NBackup.                                         *)
EXTENDS NBackupInvariant

-----------------------------------------------------------------------------
(* The lock for write leaves the process alone with the files. *)
LEMMA Writer ==
  ASSUME IInv, NEW p \in Processes, pc[p] \in Writing
  PROVE  /\ fresh = {p} /\ \A g \in Pages : Clean(g)
         /\ \A q \in Processes : dirty[q] = {} /\ half[q] = NULL
         /\ \A q \in Processes \ {p} :
              pc[q] \notin Writing \cup Reading /\ backup_state[q] = nbak_state_unknown
<1>1. /\ fresh = {p} /\ \A q \in Processes : dirty[q] = {}
      /\ \A q \in Processes \ {p} : pc[q] \notin Writing \cup Reading
  BY Zenon DEF IInv, Locked
<1>2. \A q \in Processes : half[q] = NULL
  BY <1>1, Zenon DEF IInv, Locked
<1>3. \A q \in Processes \ {p} : backup_state[q] = nbak_state_unknown
  BY <1>1, Zenon DEF IInv, StateKnown
<1> QED
  BY <1>1, <1>2, <1>3, Zenon DEF Clean

(* At most one process runs end_backup. *)
LEMMA Ender ==
  ASSUME IInv, NEW p \in Processes, pc[p] \in Ending
  PROVE  \A q \in Processes \ {p} : pc[q] \notin Ending
<1> QED
  BY Zenon DEF IInv, Locked

(* The header that a process with the lock for write reads is the current  *)
(* one.                                                                    *)
LEMMA HeaderRead ==
  ASSUME IInv, NEW p \in Processes, pc[p] \in Writing, pc[p] # "main1", Known(p)
  PROVE  Current(HEADER_PAGE, Header(p)) /\ Header(p) \in Page
<1>1. CASE buffer[p][HEADER_PAGE] = NULL
  BY <1>1, Fetched, PagesAssumption, Zenon DEF Header
<1>2. CASE buffer[p][HEADER_PAGE] # NULL
  <2>1. Clean(HEADER_PAGE)
    BY Writer, PagesAssumption, Zenon
  <2> QED
    BY <1>2, <2>1, PagesAssumption, SMTT(30) DEF Header, IInv, Cached, Types
<1> QED
  BY <1>1, <1>2, Zenon

(* A process learns the state, and recovers a merge that it finds          *)
(* unfinished.                                                             *)
LEMMA actualize_state_Step ==
  ASSUME IInv, NEW p \in Processes, actualize_state(p)
  PROVE  IInv'
<1> USE DEF files, cache, bounds
<1> DEFINE drop == H.state = nbak_state_normal \/ H.scn - current_scn[p] \notin 0 .. 1
<1>1. /\ pc[p] # "out" /\ (p \notin fresh \/ backup_state[p] = nbak_state_unknown)
      /\ \A o \in Owners : use[o] # Database!LCK_write
      /\ fresh' = fresh \cup {p}
      /\ backup_state' = [backup_state EXCEPT ![p] = H.state]
      /\ current_scn' = [current_scn EXCEPT ![p] = H.scn]
      /\ alloc_table' = [alloc_table EXCEPT ![p] = IF drop THEN <<>> ELSE @]
      /\ alloc_fresh' = IF drop THEN alloc_fresh \ {p} ELSE alloc_fresh
      /\ UNCHANGED <<use, files, end_lock, cache, pc, recover, todo, level0, bounds>>
  BY Zenon DEF actualize_state, H
<1>2. H' = H /\ H.state \in States /\ H.scn \in Nat
  BY <1>1, PagesAssumption, ZenonT(30) DEF H, IInv, Types, Page
<1>3. \A q \in Processes : pc[q] \notin Writing
  <2>1. \A q \in Processes : Attachment(q) \in Owners
    BY Zenon DEF Attachment, Owners
  <2> QED
    BY <1>1, <2>1, Zenon DEF IInv, Locked
<1>4. Types'
  BY <1>1, <1>2, SMTT(30) DEF IInv, Types
<1>5. ASSUME NEW q \in Processes PROVE Locked(q)'
  BY <1>1, <1>2, <1>3, ZenonT(30) DEF IInv, Locked
<1>6. ASSUME NEW q \in Processes PROVE Phase(q)' /\ MergeHeader(q)'
  BY <1>1, <1>2, <1>3, ZenonT(30) DEF IInv, Phase, MergeHeader, Writing
<1>7. ASSUME NEW q \in Processes PROVE StateKnown(q)'
  <2>1. pc[q] # "main1" /\ StateKnown(q)
    BY <1>3, ZenonT(30) DEF IInv, Writing
  <2>2. CASE q = p
    BY <1>1, <1>2, <1>4, <2>1, <2>2, SMTT(30) DEF StateKnown, IInv, Types, States,
       nbak_state_unknown,
       nbak_state_normal, nbak_state_stalled, nbak_state_merge
  <2>3. CASE q # p
    BY <1>1, <1>2, <2>1, <2>3, ZenonT(30) DEF StateKnown, IInv, Types
  <2> QED
    BY <2>2, <2>3, Zenon
<1>8. ASSUME NEW q \in Processes PROVE TableKnown(q)'
  <2>1. CASE q = p
    <3>1. CASE drop
      <4>1. alloc_table'[p] = <<>> /\ p \notin alloc_fresh'
        BY <1>1, <3>1, ZenonT(30) DEF IInv, Types
      <4>2. H.state # nbak_state_normal => Len(delta) \in Nat
        BY DEF IInv, Delta
      <4> QED
        BY <1>1, <1>2, <2>1, <4>1, <4>2, SMTT(30) DEF TableKnown, Prefix
    <3>2. CASE ~drop
      <4>1. /\ alloc_table'[p] = alloc_table[p] /\ alloc_fresh' = alloc_fresh
            /\ H.state # nbak_state_normal /\ H.scn <= current_scn[p] + 1
        BY <1>1, <1>2, <3>2, SMTT(30) DEF IInv, Types
      <4>2. Prefix(p)
        BY <4>1, Zenon DEF IInv, TableKnown
      <4> QED
        BY <1>1, <1>2, <2>1, <4>1, <4>2, ZenonT(30) DEF TableKnown, Prefix
    <3> QED
      BY <3>1, <3>2, Zenon
  <2>2. CASE q # p
    <3>1. /\ alloc_table'[q] = alloc_table[q] /\ (q \in alloc_fresh' <=> q \in alloc_fresh)
          /\ backup_state'[q] = backup_state[q] /\ current_scn'[q] = current_scn[q]
      BY <1>1, <2>2, Zenon DEF IInv, Types
    <3> QED
      BY <1>1, <1>2, <3>1, ZenonT(30) DEF IInv, TableKnown, Prefix
  <2> QED
    BY <2>1, <2>2, Zenon
<1>9. ASSUME NEW q \in Processes PROVE Mapped(q)'
  <2>1. CASE q = p
    <3>1. H.state # nbak_state_normal => dirty[p] = {}
      BY <1>1, Zenon DEF IInv, Locked, StateKnown
    <3> QED
      BY <1>1, <1>2, <2>1, <3>1, Zenon DEF Mapped
  <2>2. CASE q # p
    <3>1. alloc_table'[q] = alloc_table[q]
      BY <1>1, <2>2, Zenon DEF IInv, Types
    <3> QED
      BY <1>1, <1>2, <3>1, Zenon DEF IInv, Mapped, InDelta
  <2> QED
    BY <2>1, <2>2, Zenon
<1>10. \A q \in fresh' :
         q \in Processes /\ current_scn'[q] = IF q = p THEN H.scn ELSE current_scn[q]
  BY <1>1 DEF IInv, Types
<1>11. Delta' /\ Level0'
  <2>1. Level0'
    BY <1>1, <1>2, <1>10, Zenon DEF IInv, Level0
  <2> QED
    BY <1>1, <1>2, <2>1, KeepDelta, Zenon DEF IInv
<1>12. Headers'
  <2>1. ASSUME NEW d, HeaderCopy(d) PROVE HeaderCopy(d)'
    BY <1>1, <1>2, <1>10, <2>1, Zenon DEF HeaderCopy
  <2> QED
    BY <1>1, <1>2, <2>1, Zenon DEF IInv, Headers
<1>13. \A h \in Pages : Scns(h)'
  BY <1>1, KeepScns, Zenon DEF IInv
<1>14. \A h \in Pages, q \in Processes : Cached(q, h)'
  BY <1>1, KeepCached, Zenon DEF IInv
<1>15. ASSUME H'.state # nbak_state_normal, NEW i \in DOMAIN delta' PROVE Merges(i)'
  BY <1>1, <1>2, <1>3, <1>10, <1>15, ZenonT(30) DEF IInv, Merges, Newer, Writing
<1> QED
  BY <1>4, <1>5, <1>6, <1>7, <1>8, <1>9, <1>11, <1>12, <1>13, <1>14, <1>15, ZenonT(30) DEF IInv

(* The header in the main file is where a backup begins. *)
LEMMA begin_backup_header_Step ==
  ASSUME IInv, NEW p \in Processes, begin_backup_header(p)
  PROVE  IInv'
<1> USE DEF files, locks, table, bounds
<1> DEFINE header == [H EXCEPT !.scn = H.scn + 1, !.state = nbak_state_stalled]
<1>1. /\ pc[p] = "created" /\ half[p] = NULL /\ Unlock(Attachment(p))
      /\ backup_state' = [backup_state EXCEPT ![p] = nbak_state_stalled]
      /\ level0' = IF level0 = NULL THEN main' ELSE level0
      /\ pc' = [pc EXCEPT ![p] = "idle"]
      /\ UNCHANGED <<delta, table, end_lock, dirty, half, recover, todo, bounds>>
  BY Zenon DEF begin_backup_header, At, Goto
<1>2. /\ fresh = {p} /\ \A h \in Pages : Clean(h)
      /\ \A q \in Processes : dirty[q] = {} /\ half[q] = NULL
      /\ \A q \in Processes \ {p} :
           pc[q] \notin Writing \cup Reading /\ backup_state[q] = nbak_state_unknown
  BY <1>1, Writer, Zenon DEF Writing
<1>3. /\ H.state = nbak_state_normal /\ delta = <<>> /\ backup_state[p] = nbak_state_normal
      /\ H.scn \in Nat /\ H \in Page
  BY <1>1, PagesAssumption, Zenon DEF IInv, Phase, Types, H, Page
<1>4. Header(p) = H
  <2>1. Known(p)
    BY <1>2, <1>3, Zenon DEF Known, nbak_state_normal, nbak_state_unknown
  <2> QED
    BY <1>1, <1>3, <2>1, HeaderRead, Zenon DEF Current, H, Writing
<1>5. /\ main' = [main EXCEPT ![HEADER_PAGE] = header]
      /\ TakePage(p, HEADER_PAGE, header)
      /\ current_scn' = [current_scn EXCEPT ![p] = H.scn + 1]
  BY <1>3, <1>4, Zenon DEF begin_backup_header, Page
<1>6. /\ H' = header /\ H' \in Page /\ H'.scn = H.scn + 1 /\ H'.state = nbak_state_stalled
      /\ \A h \in Pages \ {HEADER_PAGE} : main'[h] = main[h]
      /\ \A h \in Pages \ {HEADER_PAGE}, q \in Processes : buffer'[q][h] = buffer[q][h]
      /\ \A q \in Processes \ {p} : buffer'[q][HEADER_PAGE] = NULL
      /\ buffer'[p][HEADER_PAGE] = H'
      /\ buffer' \in [Processes -> [Pages -> Page \cup {NULL}]] /\ main' \in [Pages -> Page]
  <2>1. header \in Page /\ header.scn = H.scn + 1 /\ header.state = nbak_state_stalled
    <3>1. H.scn + 1 \in Nat
      BY <1>3
    <3>2. H \in Page
      BY <1>3, Zenon
    <3>3. nbak_state_stalled \in States
      BY Zenon DEF States
    <3>4. header \in Page
      BY <3>1, <3>2, <3>3, Zenon DEF Page
    <3>5. header.scn = H.scn + 1
      BY <3>1, <3>2, <3>3, Zenon DEF Page
    <3>6. header.state = nbak_state_stalled
      BY <3>1, <3>2, <3>3, ZenonT(30) DEF Page
    <3> QED
      BY <3>4, <3>5, <3>6, Zenon
  <2>2. Types /\ main \in [Pages -> Page] /\ HEADER_PAGE \in Pages
    BY PagesAssumption, Zenon DEF IInv, Types
  <2>3. H' = header /\ main' \in [Pages -> Page] /\ \A h \in Pages \ {HEADER_PAGE} :
          main'[h] = main[h]
    <3> HIDE DEF header
    <3> QED
      BY <1>5, <2>1, <2>2, Zenon DEF H
  <2> HIDE DEF header
  <2> QED
    BY <1>5, <2>1, <2>2, <2>3, TakenPage, SMTT(30)
<1>7. /\ use' \in [Owners -> {LCK_none, Database!LCK_read, Database!LCK_write}]
      /\ \A q \in Processes :
           /\ use'[Attachment(q)] = IF q = p THEN LCK_none ELSE use[Attachment(q)]
           /\ use'[Cache(q)] = use[Cache(q)]
      /\ fresh' = fresh
  BY <1>1, AttachmentUnlock, Zenon DEF IInv
<1>8. Types'
  <2>1. backup_state' \in [Processes -> States \cup {nbak_state_unknown}]
    BY <1>1, ZenonT(30) DEF IInv, Types, States
  <2>2. current_scn' \in [Processes -> Nat] /\ (level0' = NULL \/ level0' \in [Pages -> Page])
    BY <1>1, <1>3, <1>5, <1>6, SMTT(30) DEF IInv, Types
  <2> QED
    BY <1>1, <1>6, <1>7, <2>1, <2>2, ZenonT(30) DEF IInv, Types, Outside
<1>9. ASSUME NEW q \in Processes PROVE Locked(q)'
  BY <1>1, <1>2, <1>7, SMTT(30) DEF IInv, Locked, Types, Writing, Reading, Ending
<1>10. ASSUME NEW q \in Processes
       PROVE  /\ pc'[q] \notin {"created", "mark", "clean1", "state1", "main1", "unlink"} \cup Merging
              /\ pc[q] \notin {"main1", "unlink"}
  BY <1>1, <1>2, <1>3, ZenonT(30) DEF IInv, Phase, Types, Writing, Reading, Merging,
     nbak_state_normal,
     nbak_state_stalled, nbak_state_merge
<1>11. ASSUME NEW q \in Processes PROVE Phase(q)' /\ MergeHeader(q)' /\ Mapped(q)'
  BY <1>1, <1>2, <1>10, ZenonT(30) DEF Phase, MergeHeader, Mapped
<1>12. /\ current_scn'[p] = H'.scn /\ current_scn[p] = H.scn /\ backup_state'[p] =
            nbak_state_stalled
       /\ \A q \in Processes \ {p} :
            /\ current_scn'[q] = current_scn[q] /\ current_scn[q] <= H.scn
            /\ current_scn[q] \in Nat /\ backup_state'[q] = nbak_state_unknown
  <2>1. \A q \in Processes : StateKnown(q) /\ pc[q] # "main1"
    BY <1>10, ZenonT(30) DEF IInv
  <2> QED
    BY <1>1, <1>2, <1>3, <1>5, <1>6, <2>1, ZenonT(30) DEF IInv, Types, StateKnown,
       nbak_state_normal,
       nbak_state_merge
<1>13. ASSUME NEW q \in Processes PROVE StateKnown(q)'
  BY <1>2, <1>3, <1>6, <1>7, <1>10, <1>12, SMTT(30) DEF StateKnown, nbak_state_stalled,
     nbak_state_unknown
<1>14. ASSUME NEW q \in Processes PROVE TableKnown(q)'
  <2>1. H'.scn <= current_scn'[q] + 1 => current_scn[q] >= H.scn
    BY <1>3, <1>6, <1>12, SMTT(30)
  <2>2. current_scn[q] >= H.scn => alloc_table[q] = <<>> /\ q \notin alloc_fresh
    BY <1>3, <1>10, Zenon DEF IInv, TableKnown
  <2>3. backup_state'[q] # nbak_state_unknown => q = p
    BY <1>12, Zenon
  <2>4. current_scn[p] >= H.scn
    BY <1>3, <1>12, SMTT(30)
  <2>5. current_scn[q] >= H.scn => Prefix(q)'
    BY <1>1, <1>3, <2>2, SMTT(30) DEF Prefix
  <2> QED
    BY <1>6, <2>1, <2>3, <2>4, <2>5, ZenonT(30) DEF TableKnown, nbak_state_normal,
       nbak_state_stalled
<1>15. Delta' /\ Headers'
  BY <1>1, <1>3, <1>6, <1>8, SMTT(30) DEF Types, Delta, Headers, HeaderCopy, nbak_state_normal,
    nbak_state_stalled,
     nbak_state_merge
<1>16. /\ level0' # NULL => level0'[HEADER_PAGE].scn \in Nat /\ level0'[HEADER_PAGE].scn <= H'.scn
       /\ \A h \in Pages \ {HEADER_PAGE} : \A c :
            Old(h, c) /\ c.scn \in Nat /\ (level0 = NULL => c = main[h]) => Old(h, c)'
  <2>1. CASE level0 = NULL
    <3>1. level0' = main'
      BY <1>1, <2>1, Zenon
    <3>2. level0'[HEADER_PAGE] = H' /\ \A h \in Pages \ {HEADER_PAGE} : level0'[h] = main[h]
      BY <1>6, <3>1, Zenon DEF H
    <3> QED
      BY <1>3, <1>6, <2>1, <3>2, SMTT(30) DEF Old
  <2>2. CASE level0 # NULL
    <3>1. level0' = level0 /\ level0[HEADER_PAGE].scn \in Nat /\ level0[HEADER_PAGE].scn <= H.scn
      BY <1>1, <2>2, PagesAssumption, Zenon DEF IInv, Level0, Types, Page
    <3> QED
      BY <1>3, <1>6, <2>2, <3>1, SMTT(30) DEF Old
  <2> QED
    BY <2>1, <2>2, Zenon
<1>17. Level0'
  BY <1>2, <1>7, <1>12, <1>16, Zenon DEF Level0
<1>18. \A h \in Pages \ {HEADER_PAGE}, q \in Processes : buffer[q][h] # NULL =>
         buffer[q][h] = main[h]
  BY <1>2, <1>3, Zenon DEF IInv, Cached, Current
<1>19. ASSUME NEW h \in Pages PROVE Scns(h)'
  <2>1. CASE h # HEADER_PAGE
    <3>1. main[h].scn \in Nat /\ Old(h, main[h]) /\ main'[h] = main[h]
      BY <1>6, <2>1, Zenon DEF IInv, Scns, Types, Page
    <3>2. Old(h, main[h])' /\ main[h].scn < H'.scn
      BY <1>3, <1>6, <1>16, <2>1, <3>1, SMTT(30) DEF Old
    <3>3. ASSUME NEW q \in Processes, buffer'[q][h] # NULL PROVE Old(h, buffer[q][h])'
      BY <1>6, <1>18, <2>1, <3>1, <3>2, <3>3, SMTT(30) DEF Old
    <3> QED
      BY <1>1, <1>3, <1>6, <2>1, <3>1, <3>2, <3>3, SMTT(30) DEF Scns
  <2> QED
    BY <2>1, Zenon DEF Scns
<1>20. ASSUME NEW h \in Pages, NEW q \in Processes PROVE Cached(q, h)'
  <2>1. buffer'[q][h] # NULL => Current(h, buffer[q][h])'
    <3>1. ~InDelta(h)'
      BY <1>1, <1>3 DEF InDelta
    <3>2. buffer'[q][h] # NULL => buffer'[q][h] = main'[h]
      BY <1>6, <1>18 DEF H
    <3> QED
      BY <3>1, <3>2, Zenon DEF Current
  <2>2. dirty'[q] = {} /\ half'[q] = NULL /\ pc'[q] # "mark"
    BY <1>1, <1>2, <1>10, Zenon
  <2>3. pc'[q] = "out" => pc[q] = "out" /\ q # p
    BY <1>1, Zenon DEF IInv, Types
  <2>4. pc'[q] = "out" => buffer'[q][h] = NULL
    BY <1>6, <2>3, SMTT(30) DEF IInv, Cached
  <2> QED
    BY <2>1, <2>2, <2>4, PagesAssumption, Zenon DEF Cached
<1> QED
  BY <1>1, <1>3, <1>8, <1>9, <1>11, <1>13, <1>14, <1>15, <1>17, <1>19, <1>20, SMTT(30) DEF IInv

(* The header in the delta says merge, the one in the main file not yet. *)
LEMMA end_backup_merge_Step ==
  ASSUME IInv, NEW p \in Processes, end_backup_merge(p)
  PROVE  IInv'
<1> USE DEF files, locks, table, bounds
<1> DEFINE scn == current_scn[p] + 1
           header == [Header(p) EXCEPT !.scn = scn, !.state = nbak_state_merge]
           i == get_page_index(lock_alloc(p), HEADER_PAGE)
           c == buffer'[p][HEADER_PAGE]
<1>1. /\ pc[p] = "state1" /\ half[p] = NULL
      /\ backup_state' = [backup_state EXCEPT ![p] = nbak_state_merge]
      /\ current_scn' = [current_scn EXCEPT ![p] = scn]
      /\ alloc_table' = [alloc_table EXCEPT ![p] = lock_alloc(p)]
      /\ alloc_fresh' = alloc_fresh \cup {p}
      /\ TakePage(p, HEADER_PAGE, header)
      /\ delta' = IF i = 0 THEN delta ELSE [delta EXCEPT ![i].content = header]
      /\ pc' = [pc EXCEPT ![p] = "main1"]
      /\ UNCHANGED <<main, locks, end_lock, dirty, half, recover, todo, level0, bounds>>
  BY Zenon DEF end_backup_merge, At, Goto
<1>2. /\ fresh = {p} /\ \A h \in Pages : Clean(h)
      /\ \A q \in Processes : dirty[q] = {} /\ half[q] = NULL
      /\ \A q \in Processes \ {p} :
           pc[q] \notin Writing \cup Reading /\ backup_state[q] = nbak_state_unknown
  BY <1>1, Writer, Zenon DEF Writing
<1>3. /\ H.state \in {nbak_state_stalled, nbak_state_merge} /\ H.state # nbak_state_normal
      /\ H.state = nbak_state_stalled => ~recover[p]
      /\ backup_state[p] = H.state /\ H' = H /\ H.scn \in Nat /\ current_scn[p] \in Nat
      /\ current_scn[p] <= H.scn /\ H.scn <= scn
      /\ \A q \in Processes : pc'[q] \notin Merging
  <2>1. \A q \in Processes \ {p} : pc[q] \notin Ending
    BY <1>1, Ender, Zenon DEF Ending
  <2>2. /\ H.state \in {nbak_state_stalled, nbak_state_merge} /\ H.state # nbak_state_normal
        /\ H.state = nbak_state_stalled => ~recover[p]
    BY <1>1, Zenon DEF IInv, Phase, nbak_state_stalled, nbak_state_merge, nbak_state_normal
  <2>3. backup_state[p] = H.state /\ current_scn[p] <= H.scn /\ H.scn <= scn
    BY <1>1, <1>2, <2>2, Knowing, Zenon DEF Known
  <2>4. H' = H /\ H.scn \in Nat /\ current_scn[p] \in Nat
    BY <1>1, PagesAssumption, Zenon DEF IInv, Types, H, Page
  <2>5. \A q \in Processes : pc'[q] \notin Merging
    BY <1>1, <2>1, Zenon DEF IInv, Types, Merging, Ending
  <2> QED
    BY <2>2, <2>3, <2>4, <2>5, Zenon
<1>4. /\ delta \in Seq(Entry) /\ lock_alloc(p) = DeltaPages
      /\ \A j, k \in DOMAIN delta : delta[j].page = delta[k].page => j = k
  BY <1>2, <1>3, Knowing, Zenon DEF IInv, Delta
<1>5. Known(p) /\ Current(HEADER_PAGE, Header(p)) /\ Header(p) \in Page
  <2>1. Known(p)
    BY <1>2, <1>3, Zenon DEF Known, nbak_state_stalled, nbak_state_merge, nbak_state_unknown
  <2> QED
    BY <1>1, <2>1, HeaderRead, Zenon DEF Writing
<1>6. header \in Page /\ header.scn = scn /\ header.state = nbak_state_merge
      /\ header.ver = Header(p).ver
  <2>1. scn \in Nat /\ nbak_state_merge \in States /\ Header(p) \in Page
    BY <1>3, <1>5 DEF States
  <2> HIDE DEF scn
  <2>2. header \in Page
    BY <2>1, Zenon DEF Page
  <2>3. header.scn = scn
    BY <2>1, Zenon DEF Page
  <2>4. header.state = nbak_state_merge
    BY <2>1, Zenon DEF Page
  <2>5. header.ver = Header(p).ver
    BY <2>1, Zenon DEF Page
  <2> QED
    BY <2>2, <2>3, <2>4, <2>5, Zenon
<1>7. /\ c = header /\ c # NULL
      /\ buffer' \in [Processes -> [Pages -> Page \cup {NULL}]]
      /\ \A h \in Pages \ {HEADER_PAGE}, q \in Processes : buffer'[q][h] = buffer[q][h]
      /\ \A q \in Processes \ {p} : buffer'[q][HEADER_PAGE] = NULL
  <2> HIDE DEF header
  <2> QED
    BY <1>1, <1>6, TakenPage, PageNotNull, PagesAssumption, SMTT(30) DEF IInv
<1> HIDE DEF header, c
<1>8. /\ delta' \in Seq(Entry) /\ DOMAIN delta' = DOMAIN delta /\ Len(delta') = Len(delta)
      /\ \A j \in DOMAIN delta :
           /\ delta'[j].page = delta[j].page
           /\ delta'[j].content = IF delta[j].page = HEADER_PAGE THEN c ELSE delta[j].content
      /\ \A h : InDelta(h)' <=> InDelta(h)
  <2>1. CASE InDelta(HEADER_PAGE)
    <3>1. i \in DOMAIN delta /\ delta[i].page = HEADER_PAGE /\ i # 0
      BY <1>4, <2>1, DeltaIndex, SMTT(30)
    <3>2. delta' = [delta EXCEPT ![i].content = c]
      BY <1>1, <1>7, <3>1, Zenon
    <3>3. c \in Page
      BY <1>6, <1>7, Zenon
    <3>4. \A j \in DOMAIN delta : delta[j].page = HEADER_PAGE <=> j = i
      BY <1>4, <3>1, Zenon
    <3> HIDE DEF i
    <3>5. /\ delta' \in Seq(Entry) /\ DOMAIN delta' = DOMAIN delta /\ Len(delta') = Len(delta)
          /\ \A j \in DOMAIN delta :
               /\ delta'[j].page = delta[j].page
               /\ delta'[j].content = IF j = i THEN c ELSE delta[j].content
          /\ \A h : InDelta(h)' <=> InDelta(h)
      BY <1>4, <3>1, <3>2, <3>3, Replaced, Zenon
    <3> QED
      BY <3>4, <3>5, Zenon
  <2>2. CASE ~InDelta(HEADER_PAGE)
    <3>1. delta' = delta
      BY <1>1, <1>4, <2>2, DeltaIndex, Zenon
    <3> QED
      BY <1>4, <2>2, <3>1, Zenon DEF InDelta
  <2> QED
    BY <2>1, <2>2, Zenon
<1> HIDE DEF i
<1>9. /\ DeltaPages \in Seq(Pages) /\ Len(DeltaPages) = Len(delta)
      /\ \A j \in DOMAIN delta : DeltaPages[j] = delta[j].page
  BY <1>4, DeltaIndex, Zenon
<1>10. /\ current_scn'[p] = scn /\ scn \in Nat /\ backup_state'[p] = nbak_state_merge
       /\ \A q \in Processes \ {p} :
            current_scn'[q] = current_scn[q] /\ backup_state'[q] = backup_state[q]
       /\ alloc_table'[p] = DeltaPages
       /\ \A q \in Processes \ {p} : /\ alloc_table'[q] = alloc_table[q]
                                     /\ q \in alloc_fresh' <=> q \in alloc_fresh
       /\ pc'[p] = "main1" /\ \A q \in Processes \ {p} : pc'[q] = pc[q] /\ pc[q] # "main1"
  <2>1. \A q \in Processes \ {p} : pc[q] # "main1"
    BY <1>2, Zenon DEF Writing
  <2> QED
    BY <1>1, <1>3, <1>4, <2>1, SMTT(30) DEF IInv, Types
<1>11. Types'
  <2>1. backup_state' \in [Processes -> States \cup {nbak_state_unknown}]
    BY <1>1, Zenon DEF IInv, Types, States
  <2>2. current_scn' \in [Processes -> Nat] /\ alloc_table' \in [Processes -> Seq(Pages)]
    BY <1>1, <1>4, <1>9, <1>10, SMTT(30) DEF IInv, Types
  <2> QED
    BY <1>1, <1>7, <1>8, <2>1, <2>2, ZenonT(30) DEF IInv, Types, Ending
<1>12. ASSUME NEW q \in Processes PROVE Locked(q)'
  BY <1>1, <1>2, <1>3, SMTT(30) DEF IInv, Locked, Types, Writing, Reading, Ending
<1>13. ASSUME NEW q \in Processes PROVE Phase(q)' /\ Mapped(q)'
  <2>1. Mapped(q)'
    BY <1>1, <1>2, Zenon DEF Mapped
  <2>2. CASE q = p
    BY <1>1, <1>3, <1>10, <2>1, <2>2, Zenon DEF Phase, Merging
  <2>3. CASE q # p
    <3>1. pc[q] # "created"
      BY <1>2, <2>3, ZenonT(30) DEF Writing
    <3> QED
      BY <1>1, <1>3, <1>10, <2>1, <2>3, <3>1, ZenonT(30) DEF IInv, Phase
  <2> QED
    BY <2>2, <2>3, Zenon
<1>14. ASSUME NEW q \in Processes PROVE StateKnown(q)'
  <2>1. CASE q = p
    BY <1>1, <1>2, <1>3, <1>10, <2>1, SMTT(30) DEF StateKnown, nbak_state_merge,
       nbak_state_unknown
  <2>2. CASE q # p
    BY <1>1, <1>2, <1>3, <1>10, <2>2, ZenonT(30) DEF IInv, StateKnown
  <2> QED
    BY <2>1, <2>2, Zenon
<1>15. ASSUME NEW q \in Processes PROVE TableKnown(q)'
  <2>1. CASE q = p
    <3>1. Prefix(p)'
      <4>1. \A j \in 1 .. Len(DeltaPages) : j \in DOMAIN delta
        BY <1>4, <1>9, SMTT(30)
      <4> QED
        BY <1>4, <1>8, <1>9, <1>10, <4>1, SMTT(30) DEF Prefix
    <3> QED
      BY <1>3, <2>1, <3>1, ZenonT(30) DEF TableKnown
  <2>2. CASE q # p
    <3>1. Prefix(q) /\ alloc_table[q] \in Seq(Pages) => Prefix(q)'
      <4> SUFFICES ASSUME Prefix(q), alloc_table[q] \in Seq(Pages) PROVE Prefix(q)'
        OBVIOUS
      <4>1. \A j \in 1 .. Len(alloc_table[q]) : j \in DOMAIN delta
        BY <1>4, SMTT(30) DEF Prefix
      <4> QED
        BY <1>8, <1>10, <2>2, <4>1, Zenon DEF Prefix
    <3> QED
      BY <1>3, <1>10, <2>2, <3>1, ZenonT(30) DEF IInv, Types, TableKnown
  <2> QED
    BY <2>1, <2>2, Zenon
<1>16. Delta'
  BY <1>4, <1>8, ZenonT(30) DEF Delta
<1>17. HeaderCopy(buffer[p][HEADER_PAGE])'
  <2>1. c.state = nbak_state_merge /\ c.scn = scn
    BY <1>6, <1>7, Zenon
  <2> QED
    BY <1>1, <1>2, <1>3, <1>10, <2>1, SMTT(30) DEF HeaderCopy, c
<1>18. Headers'
  <2>1. ASSUME NEW q \in Processes, buffer'[q][HEADER_PAGE] # NULL
        PROVE  HeaderCopy(buffer[q][HEADER_PAGE])'
    BY <1>7, <1>17, <2>1, Zenon
  <2>2. ASSUME NEW j \in DOMAIN delta', delta'[j].page = HEADER_PAGE
        PROVE  HeaderCopy(delta[j].content)'
    <3>1. delta'[j].content = buffer'[p][HEADER_PAGE]
      BY <1>8, <2>2, Zenon DEF c
    <3> QED
      BY <1>17, <3>1, Zenon DEF HeaderCopy
  <2> QED
    BY <2>1, <2>2, Zenon DEF Headers
<1>19. ASSUME NEW q \in Processes PROVE MergeHeader(q)'
  <2>1. CASE q = p
    <3>1. ~InDelta(HEADER_PAGE)' => c.ver = main'[HEADER_PAGE].ver
      BY <1>1, <1>5, <1>6, <1>7, <1>8, Zenon DEF Current
    <3> QED
      BY <1>6, <1>7, <1>8, <1>10, <2>1, <3>1, ZenonT(30) DEF MergeHeader, c
  <2>2. CASE q # p
    BY <1>10, <2>2, Zenon DEF MergeHeader
  <2> QED
    BY <2>1, <2>2, Zenon
<1>20. Level0'
  <2>1. CASE level0 # NULL
    <3>1. level0[HEADER_PAGE].scn \in Nat /\ level0[HEADER_PAGE].scn <= current_scn[p]
      BY <1>2, <2>1, PagesAssumption, Zenon DEF IInv, Level0, Types, Page
    <3> QED
      BY <1>1, <1>2, <1>3, <1>10, <3>1, SMTT(30) DEF IInv, Level0
  <2> QED
    BY <1>1, <2>1, Zenon DEF Level0
<1>21. ASSUME NEW h \in Pages PROVE Scns(h)'
  <2>1. CASE h # HEADER_PAGE
    <3>2. \A q \in Processes : buffer'[q][h] = buffer[q][h]
      BY <1>7, <2>1, Zenon
    <3>3. \A j \in DOMAIN delta' : delta'[j].page = h =>
            j \in DOMAIN delta /\ delta[j].page = h /\ delta'[j].content = delta[j].content
      BY <1>8, <2>1, Zenon
    <3>4. Old(h, main[h])' /\ (H'.state = nbak_state_stalled => main'[h].scn < H'.scn)
      BY <1>1, <1>3, <2>1, Zenon DEF IInv, Scns, Old
    <3>5. ASSUME NEW q \in Processes, buffer'[q][h] # NULL PROVE Old(h, buffer[q][h])'
      BY <1>1, <1>3, <2>1, <3>2, <3>5, Zenon DEF IInv, Scns, Old
    <3>6. ASSUME NEW j \in DOMAIN delta', delta'[j].page = h, delta'[j].content # Undefined
          PROVE  Old(h, delta[j].content)'
      BY <1>1, <1>3, <2>1, <3>3, <3>6, SMTT(30) DEF IInv, Scns, Old
    <3> QED
      BY <3>4, <3>5, <3>6, Zenon DEF Scns
  <2> QED
    BY <2>1, Zenon DEF Scns
<1>22. ASSUME NEW h \in Pages, NEW q \in Processes PROVE Cached(q, h)'
  <2>1. dirty'[q] = {} /\ half'[q] = NULL /\ pc'[q] # "mark"
    BY <1>1, <1>2, <1>10 DEF Reading
  <2>2. CASE h = HEADER_PAGE
    BY <1>7, <1>10, <2>1, <2>2, PagesAssumption, Zenon DEF Cached, c
  <2>3. CASE h # HEADER_PAGE
    <3>1. buffer[q][h] # NULL => Current(h, buffer[q][h])
      BY <1>2, <2>3, Zenon DEF IInv, Cached
    <3>2. buffer'[q][h] = buffer[q][h]
      BY <1>7, <2>3, Zenon
    <3>3. Current(h, buffer[q][h]) => Current(h, buffer[q][h])'
      BY <1>1, <1>3, <1>8, <2>3, <3>2, SMTT(30) DEF Current
    <3>4. pc'[q] = "out" => buffer'[q][h] = NULL
      BY <1>10, <3>2, SMTT(30) DEF IInv, Cached
    <3> QED
      BY <2>1, <3>1, <3>2, <3>3, <3>4, PagesAssumption, Zenon DEF Cached
  <2> QED
    BY <2>2, <2>3, Zenon
<1>23. ASSUME NEW j \in DOMAIN delta' PROVE Merges(j)'
  <2>1. CASE delta[j].page = HEADER_PAGE
    BY <1>3, <1>8, <2>1, Zenon DEF Merges
  <2>2. CASE delta[j].page # HEADER_PAGE
    <3>1. delta'[j].page = delta[j].page /\ delta'[j].content =
            delta[j].content /\ j \in DOMAIN delta
      BY <1>8, <2>2, Zenon
    <3>2. ASSUME Newer(j)' PROVE delta[j].content.scn \in Nat /\
                   delta[j].content.scn <= current_scn[p]
                                 /\ delta[j].content.scn <= H.scn
      <4>1. Newer(j)
        BY <1>1, <3>1, <3>2, Zenon DEF Newer
      <4>2. delta[j].content # Undefined /\ delta[j] \in Entry
        BY <1>4, <3>1, <4>1 DEF Newer
      <4>3. delta[j].content.scn \in Nat
        BY <4>2, Zenon DEF Entry, Page
      <4> QED
        BY <1>2, <1>3, <2>2, <3>1, <4>1, <4>3, Zenon DEF IInv, Merges
    <3> QED
      BY <1>1, <1>2, <1>3, <1>10, <3>1, <3>2, SMTT(30) DEF Merges
  <2> QED
    BY <2>1, <2>2, Zenon
<1> QED
  BY <1>11, <1>12, <1>13, <1>14, <1>15, <1>16, <1>18, <1>19, <1>20, <1>21, <1>22, <1>23,
     ZenonT(30)
     DEF IInv

(* The merge is on when the main file says so. *)
LEMMA end_backup_merge_main_Step ==
  ASSUME IInv, NEW p \in Processes, end_backup_merge_main(p)
  PROVE  IInv'
<1> USE DEF files, locks, table, cache, bounds
<1> DEFINE c == buffer[p][HEADER_PAGE]
<1>1. /\ pc[p] = "main1" /\ half[p] = NULL /\ Unlock(Attachment(p))
      /\ main' = [main EXCEPT ![HEADER_PAGE] = c]
      /\ pc' = [pc EXCEPT ![p] = "shared"]
      /\ UNCHANGED <<delta, table, end_lock, backup_state, current_scn, cache,
                     recover, todo, level0, bounds>>
  BY Zenon DEF end_backup_merge_main, At, Goto
<1>2. /\ fresh = {p} /\ \A h \in Pages : Clean(h)
      /\ \A q \in Processes : dirty[q] = {} /\ half[q] = NULL
      /\ \A q \in Processes \ {p} :
           pc[q] \notin Writing \cup Reading /\ backup_state[q] = nbak_state_unknown
  BY <1>1, Writer, ZenonT(30) DEF Writing
<1>3. /\ c # NULL /\ c \in Page /\ c.state = nbak_state_merge /\ c.scn = current_scn[p]
      /\ \A q \in Processes \ {p} : buffer[q][HEADER_PAGE] = NULL
      /\ \A i \in DOMAIN delta : delta[i].page = HEADER_PAGE => delta[i].content = c
  BY <1>1, PagesAssumption, SMTT(30) DEF IInv, MergeHeader, Types
<1>4. /\ main' \in [Pages -> Page] /\ H' = c /\ \A h \in Pages \ {HEADER_PAGE} :
           main'[h] = main[h]
  <2>1. main \in [Pages -> Page] /\ HEADER_PAGE \in Pages /\ c \in Page
    BY <1>3, PagesAssumption, Zenon DEF IInv, Types
  <2> HIDE DEF c
  <2> QED
    BY <1>1, <2>1, Zenon DEF H
<1>5. /\ H.state # nbak_state_normal /\ H'.state =
           nbak_state_merge /\ H'.state # nbak_state_normal
      /\ H.scn \in Nat /\ H.scn <= H'.scn /\ H'.scn = current_scn[p] /\ current_scn[p] \in Nat
      /\ delta \in Seq(Entry)
      /\ \A i, j \in DOMAIN delta : delta[i].page = delta[j].page => i = j
  <2>1. H.state # nbak_state_normal /\ H'.state = nbak_state_merge /\ H'.state # nbak_state_normal
    BY <1>1, <1>3, <1>4, Zenon DEF IInv, Phase, nbak_state_stalled, nbak_state_merge,
       nbak_state_normal
  <2>2. H.scn \in Nat /\ current_scn[p] \in Nat
    BY PagesAssumption, Zenon DEF IInv, Types, H, Page
  <2>3. H'.scn = current_scn[p] /\ H.scn <= current_scn[p]
    BY <1>1, <1>2, <1>3, <1>4, Zenon DEF IInv, StateKnown
  <2> QED
    BY <2>1, <2>2, <2>3, Zenon DEF IInv, Delta
<1> HIDE DEF c
<1>6. /\ use' \in [Owners -> {LCK_none, Database!LCK_read, Database!LCK_write}]
      /\ \A q \in Processes :
           /\ use'[Attachment(q)] = IF q = p THEN LCK_none ELSE use[Attachment(q)]
           /\ use'[Cache(q)] = use[Cache(q)]
      /\ fresh' = fresh
  BY <1>1, AttachmentUnlock, Zenon DEF IInv
<1>7. /\ pc'[p] = "shared"
      /\ \A q \in Processes \ {p} : /\ pc'[q] = pc[q]
                                    /\ pc[q] \notin Ending \cup {"created", "mark", "main1"} \cup Merging
  <2>1. \A q \in Processes \ {p} : pc[q] \notin Ending
    BY <1>1, Ender, Zenon DEF Ending
  <2> QED
    BY <1>1, <1>2, <2>1, Zenon DEF IInv, Types, Merging, Ending, Writing, Reading
<1>8. Types'
  BY <1>1, <1>4, <1>6, Zenon DEF IInv, Types, Ending
<1>9. ASSUME NEW q \in Processes PROVE Locked(q)'
  BY <1>1, <1>2, <1>6, SMTT(30) DEF IInv, Locked, Types, Writing, Reading, Ending
<1>10. ASSUME NEW q \in Processes PROVE Phase(q)' /\ Mapped(q)' /\ MergeHeader(q)'
  <2>1. pc'[q] \notin {"created", "mark", "clean1", "state1", "main1", "unlink"}
    BY <1>7, ZenonT(30) DEF Ending
  <2> QED
    BY <1>1, <1>2, <1>5, <2>1, Zenon DEF Phase, Mapped, MergeHeader
<1>11. ASSUME NEW q \in Processes PROVE StateKnown(q)'
  <2>1. CASE q = p
    <3>1. backup_state[p] # nbak_state_unknown => backup_state[p] = nbak_state_merge
      BY <1>1, <1>2, Zenon DEF IInv, StateKnown
    <3>2. backup_state[p] # nbak_state_unknown
      BY <1>1, <1>2, Zenon DEF IInv, StateKnown
    <3> QED
      <4>1. /\ p \in fresh' /\ backup_state'[p] = nbak_state_merge /\ H'.state = nbak_state_merge
            /\ backup_state'[p] # nbak_state_unknown /\ pc'[p] # "main1"
        BY <1>1, <1>2, <1>5, <1>6, <1>7, <3>1, <3>2, Zenon
      <4>2. current_scn'[p] = H'.scn /\ current_scn'[p] \in Nat
        BY <1>1, <1>5, Zenon
      <4>3. current_scn'[p] <= H'.scn /\ H'.scn <= current_scn'[p] + 1 /\ H'.scn <= current_scn'[p]
        BY <4>2
      <4> QED
        BY <2>1, <4>1, <4>3, Zenon DEF StateKnown
  <2>2. CASE q # p
    <3>1. current_scn[q] <= H.scn /\ current_scn[q] \in Nat
      BY <1>7, <2>2, Zenon DEF IInv, StateKnown, Types
    <3> QED
      BY <1>1, <1>2, <1>5, <1>6, <2>2, <3>1, SMTT(30) DEF StateKnown
  <2> QED
    BY <2>1, <2>2, Zenon
<1>12. ASSUME NEW q \in Processes PROVE TableKnown(q)'
  <2>1. H'.scn <= current_scn[q] + 1 => H.scn <= current_scn[q] + 1
    BY <1>5 DEF IInv, Types
  <2>2. Prefix(q) => Prefix(q)'
    BY <1>1, Zenon DEF Prefix
  <2> QED
    BY <1>1, <1>5, <2>1, <2>2, Zenon DEF IInv, TableKnown
<1>13. Delta'
  BY <1>1, <1>5, Zenon DEF Delta
<1>14. HeaderCopy(c)'
  <2>1. c' = c
    BY <1>1, Zenon DEF c
  <2>2. \A q \in fresh' : c.scn <= current_scn'[q] + 1
    BY <1>1, <1>2, <1>3, <1>5, <1>6, SMTT(30)
  <2> QED
    BY <1>3, <1>4, <1>5, <2>1, <2>2, SMTT(30) DEF HeaderCopy
<1>15. Headers'
  <2>1. c' = c
    BY <1>1, Zenon DEF c
  <2>2. HeaderCopy(buffer[p][HEADER_PAGE])'
    BY <1>14, Zenon DEF c
  <2>3. ASSUME NEW q \in Processes, buffer'[q][HEADER_PAGE] # NULL
        PROVE  HeaderCopy(buffer[q][HEADER_PAGE])'
    BY <1>1, <1>3, <2>2, <2>3, Zenon
  <2>4. ASSUME NEW i \in DOMAIN delta', delta'[i].page = HEADER_PAGE
        PROVE  HeaderCopy(delta[i].content)'
    BY <1>1, <1>3, <1>14, <2>1, <2>4, Zenon
  <2> QED
    BY <2>3, <2>4, Zenon DEF Headers
<1>16. Level0'
  <2>1. CASE level0 # NULL
    <3>1. level0[HEADER_PAGE].scn \in Nat /\ level0[HEADER_PAGE].scn <= H.scn
      BY <2>1, PagesAssumption, Zenon DEF IInv, Level0, Types, Page
    <3> QED
      BY <1>1, <1>2, <1>5, <1>6, <3>1, Zenon DEF IInv, Level0
  <2> QED
    BY <1>1, <2>1, Zenon DEF Level0
<1>17. ASSUME NEW h \in Pages PROVE Scns(h)'
  <2>1. CASE h # HEADER_PAGE
    <3>1. main'[h] = main[h] /\ main[h] \in Page /\ H'.state # nbak_state_stalled
      BY <1>4, <1>5, <2>1, ZenonT(30) DEF IInv, Types, nbak_state_merge, nbak_state_stalled
    <3>2. ASSUME NEW d \in Page, Old(h, d)
          PROVE  /\ d.scn <= H'.scn
                 /\ level0 # NULL => (d.scn < level0[HEADER_PAGE].scn => d.ver = level0[h].ver)
      <4>1. d.scn \in Nat /\ d.scn <= H.scn
        BY <3>2, Zenon DEF Page, Old
      <4> QED
        BY <1>5, <3>2, <4>1, SMTT(30) DEF Old
    <3>3. Old(h, main[h])'
      BY <1>1, <2>1, <3>1, <3>2, ZenonT(30) DEF IInv, Scns, Old
    <3>4. ASSUME NEW q \in Processes, buffer'[q][h] # NULL PROVE Old(h, buffer[q][h])'
      <4>1. buffer[q][h] \in Page /\ Old(h, buffer[q][h]) /\ buffer'[q][h] = buffer[q][h]
        BY <1>1, <2>1, <3>4, SMTT(30) DEF IInv, Scns, Types
      <4> QED
        BY <1>1, <3>2, <4>1, Zenon DEF Old
    <3>5. ASSUME NEW i \in DOMAIN delta', delta'[i].page = h, delta'[i].content # Undefined
          PROVE  Old(h, delta[i].content)'
      <4>1. Old(h, delta[i].content) /\ delta[i] \in Entry /\ delta'[i] = delta[i]
        BY <1>1, <1>5, <2>1, <3>5, SMTT(30) DEF IInv, Scns
      <4>2. delta[i].content \in Page
        BY <1>1, <3>5, <4>1, Zenon DEF Entry
      <4> QED
        BY <1>1, <3>2, <4>1, <4>2, Zenon DEF Old
    <3> QED
      BY <3>1, <3>3, <3>4, <3>5, Zenon DEF Scns
  <2> QED
    BY <2>1, Zenon DEF Scns
<1>18. \A i \in DOMAIN delta : delta[i].page = HEADER_PAGE => delta[i].content # Undefined
  <2>1. c # Undefined
    BY <1>3 DEF Page, Undefined
  <2> QED
    BY <1>3, <2>1, Zenon
<1>19. ASSUME NEW h \in Pages, NEW q \in Processes PROVE Cached(q, h)'
  <2>1. dirty'[q] = {} /\ half'[q] = NULL /\ pc'[q] # "mark" /\ buffer'[q][h] = buffer[q][h]
    BY <1>1, <1>2, <1>7, ZenonT(30)
  <2>2. pc'[q] = "out" => buffer'[q][h] = NULL
    BY <1>7, <2>1, SMTT(30) DEF IInv, Cached
  <2>3. buffer[q][h] # NULL => Current(h, buffer[q][h])'
    <3>1. CASE h = HEADER_PAGE
      <4>1. buffer[q][h] # NULL => q = p /\ buffer[q][h] = c
        BY <1>3, <3>1, Zenon DEF c
      <4>2. main'[HEADER_PAGE] = c
        BY <1>4, Zenon DEF H
      <4> QED
        BY <1>1, <1>3, <1>18, <2>1, <3>1, <4>1, <4>2, Zenon DEF Current
    <3>2. CASE h # HEADER_PAGE
      <4>1. buffer[q][h] # NULL => Current(h, buffer[q][h])
        BY <1>2, <3>2, Zenon DEF IInv, Cached
      <4> QED
        BY <1>1, <1>4, <1>5, <2>1, <3>2, <4>1, ZenonT(30) DEF Current, InDelta
    <3> QED
      BY <3>1, <3>2, Zenon
  <2> QED
    BY <2>1, <2>2, <2>3, PagesAssumption, Zenon DEF Cached
<1>20. ASSUME NEW i \in DOMAIN delta' PROVE Merges(i)'
  <2>1. CASE delta[i].page = HEADER_PAGE
    <3>1. delta'[i].content = c /\ main'[delta'[i].page] = c
      BY <1>1, <1>3, <1>4, <2>1, Zenon DEF H
    <3> QED
      BY <3>1, Zenon DEF Merges, Newer
  <2>2. CASE delta[i].page # HEADER_PAGE
    <3>1. delta'[i] = delta[i] /\ i \in DOMAIN delta /\ delta[i].page \in Pages
      <4>1. delta'[i] = delta[i] /\ i \in DOMAIN delta /\ delta[i] \in Entry
        BY <1>1, <1>5, SMTT(30)
      <4> QED
        BY <4>1, Zenon DEF Entry
    <3>2. ASSUME Newer(i)' PROVE delta[i].content.scn \in Nat /\ delta[i].content.scn < H'.scn
      <4>1. Newer(i)
        BY <1>1, <1>4, <2>2, <3>1, <3>2, ZenonT(30) DEF Newer
      <4>2. delta[i].content # Undefined /\ delta[i] \in Entry
        BY <1>5, <3>1, <4>1, SMTT(30) DEF Newer
      <4>3. delta[i].content.scn \in Nat
        BY <4>2, Zenon DEF Entry, Page
      <4> QED
        BY <1>1, <1>5, <2>2, <3>1, <4>1, <4>3, ZenonT(30) DEF IInv, Merges
    <3> QED
      BY <1>1, <1>2, <1>5, <1>6, <1>7, <2>2, <3>1, <3>2, SMTT(30) DEF Merges
  <2> QED
    BY <2>1, <2>2, Zenon
<1> QED
  BY <1>8, <1>9, <1>10, <1>11, <1>12, <1>13, <1>15, <1>16, <1>17, <1>19, <1>20, Zenon DEF IInv

(* The pages to merge are those of the whole table. *)
LEMMA end_backup_pages_Step ==
  ASSUME IInv, NEW p \in Processes, end_backup_pages(p)
  PROVE  IInv'
<1> USE DEF files, locks, cache, bounds
<1>1. /\ pc[p] = "shared" /\ half[p] = NULL /\ Known(p) /\ p \in fresh
      /\ Database!Lock(Attachment(p), Database!LCK_read)
      /\ alloc_table' = [alloc_table EXCEPT ![p] = actualize_alloc(p)]
      /\ todo' = [todo EXCEPT ![p] = Range(actualize_alloc(p))]
      /\ pc' = [pc EXCEPT ![p] = "merge"]
      /\ UNCHANGED <<files, alloc_fresh, end_lock, backup_state, current_scn, cache,
                     recover, level0, bounds>>
  BY Zenon DEF end_backup_pages, At, Goto, Known
<1>2. /\ H' = H /\ H.state = nbak_state_merge /\ H.state # nbak_state_normal
      /\ H.state # nbak_state_stalled
  BY <1>1, Zenon DEF H, IInv, Phase, Merging, nbak_state_merge, nbak_state_normal,
     nbak_state_stalled
<1>3. /\ delta \in Seq(Entry) /\ Prefix(p) /\ actualize_alloc(p) = DeltaPages
      /\ \A q \in Processes : pc[q] \notin Writing
  BY <1>1, <1>2, Knowing, Zenon DEF Writing
<1>4. /\ DeltaPages \in Seq(Pages) /\ Len(DeltaPages) = Len(delta)
      /\ \A i \in DOMAIN delta : DeltaPages[i] = delta[i].page
      /\ \A g : g \in Range(DeltaPages) <=> InDelta(g)
  BY <1>3, DeltaIndex, Zenon
<1>5. Range(DeltaPages) \subseteq Pages
  BY <1>4 DEF Range
<1>6. /\ use' \in [Owners -> {LCK_none, Database!LCK_read, Database!LCK_write}]
      /\ \A q \in Processes :
           /\ use'[Attachment(q)] = IF q = p THEN Database!LCK_read ELSE use[Attachment(q)]
           /\ use'[Cache(q)] = use[Cache(q)]
      /\ fresh' = fresh
  <2>1. Types /\ Database!Lock(Attachment(p), Database!LCK_read) /\ p \in fresh
    BY <1>1, Zenon DEF IInv
  <2> QED
    BY <2>1, AttachmentLock
<1>7. /\ alloc_table'[p] = DeltaPages /\ todo'[p] = Range(DeltaPages) /\ pc'[p] = "merge"
      /\ \A q \in Processes \ {p} :
           alloc_table'[q] = alloc_table[q] /\ todo'[q] = todo[q] /\ pc'[q] = pc[q]
  BY <1>1, <1>3, Zenon DEF IInv, Types
<1>8. Types'
  BY <1>1, <1>3, <1>4, <1>5, <1>6, ZenonT(30) DEF IInv, Types, Ending
<1>9. ASSUME NEW q \in Processes PROVE Locked(q)'
  <2>1. \A r \in Processes : pc'[r] \notin Writing
    BY <1>3, <1>7, Zenon DEF Writing
  <2>2. CASE q = p
    BY <1>1, <1>2, <1>3, <1>6, <1>7, <2>1, <2>2, ZenonT(30) DEF IInv, Locked, Reading, Ending
  <2>3. CASE q # p
    BY <1>1, <1>2, <1>3, <1>6, <1>7, <2>1, <2>3, SMTT(30) DEF IInv, Locked
  <2> QED
    BY <2>2, <2>3, Zenon
<1>10. ASSUME NEW q \in Processes PROVE Phase(q)' /\ StateKnown(q)' /\ MergeHeader(q)'
  <2>1. CASE q = p
    BY <1>1, <1>2, <1>6, <1>7, <2>1, ZenonT(30) DEF IInv, Phase, StateKnown, MergeHeader, Merging
  <2>2. CASE q # p
    <3>1. pc[q] # "main1"
      BY <1>3, Zenon DEF Writing
    <3> QED
      BY <1>1, <1>2, <1>6, <1>7, <2>2, <3>1, ZenonT(30) DEF IInv, Phase, StateKnown, MergeHeader
  <2> QED
    BY <2>1, <2>2, Zenon
<1>11. ASSUME NEW q \in Processes PROVE TableKnown(q)' /\ Mapped(q)'
  <2>1. CASE q = p
    <3>1. Prefix(p)'
      <4>1. \A i \in 1 .. Len(DeltaPages) : i \in DOMAIN delta
        BY <1>3, <1>4, SMTT(30)
      <4> QED
        BY <1>1, <1>3, <1>4, <1>7, <4>1, SMTT(90) DEF Prefix
    <3>2. Mapped(p)'
      BY <1>1, <1>2, <1>4, <1>7, Zenon DEF Mapped, InDelta
    <3> QED
      BY <1>2, <2>1, <3>1, <3>2, ZenonT(30) DEF TableKnown
  <2>2. CASE q # p
    <3>1. Prefix(q) => Prefix(q)'
      BY <1>1, <1>7, <2>2, ZenonT(30) DEF Prefix
    <3>2. TableKnown(q)'
      BY <1>1, <1>2, <2>2, <3>1, Zenon DEF IInv, TableKnown
    <3>3. Mapped(q)'
      BY <1>1, <1>2, <1>7, <2>2, ZenonT(30) DEF IInv, Mapped, InDelta
    <3> QED
      BY <3>2, <3>3, Zenon
  <2> QED
    BY <2>1, <2>2, Zenon
<1>12. Delta' /\ Level0'
  BY <1>1, <1>2, <1>6, KeepDelta, KeepLevel0, Zenon DEF IInv
<1>13. Headers'
  <2>1. \A q \in Processes : pc'[q] \in Merging <=> pc[q] \in Merging
    BY <1>1, <1>7, Zenon DEF Merging
  <2> QED
    BY <1>1, <1>2, <1>6, <2>1, Zenon DEF IInv, Headers, HeaderCopy
<1>14. \A h \in Pages : Scns(h)'
  BY <1>1, KeepScns, ZenonT(30) DEF IInv
<1>15. ASSUME NEW h \in Pages, NEW q \in Processes PROVE Cached(q, h)'
  <2>1. /\ Clean(h)' <=> Clean(h)
        /\ Current(h, buffer[q][h])' <=> Current(h, buffer[q][h])
        /\ InDelta(h)' <=> InDelta(h)
    BY <1>1, Zenon DEF Clean, Current, InDelta, H
  <2>2. \A r \in Processes : pc'[r] = "mark" => pc[r] = "mark" /\ todo'[r] = todo[r]
    BY <1>7, Zenon
  <2>3. /\ pc'[q] = "out" => pc[q] = "out"
        /\ pc'[q] # "main1" /\ pc[q] # "main1"
    BY <1>3, <1>7, Zenon DEF Writing
  <2>4. Cached(q, h) /\ buffer' = buffer /\ dirty' = dirty /\ half' = half
    BY <1>1, Zenon DEF IInv
  <2> QED
    BY <2>1, <2>2, <2>3, <2>4, Zenon DEF Cached
<1>16. ASSUME NEW i \in DOMAIN delta' PROVE Merges(i)'
  <2>1. i \in DOMAIN delta /\ delta'[i] = delta[i] /\ (Newer(i)' <=> Newer(i))
    BY <1>1, Zenon DEF Newer
  <2>2. delta[i].page \in todo'[p]
    BY <1>4, <1>7, <2>1, Zenon DEF InDelta
  <2>3. \A q \in Processes : pc'[q] # "main1"
    BY <1>3, <1>7, Zenon DEF Writing
  <2>4. Merges(i)
    BY <1>2, <2>1, Zenon DEF IInv
  <2> QED
    BY <1>1, <1>2, <1>6, <1>7, <2>1, <2>2, <2>3, <2>4, Zenon DEF Merges, Merging
<1> QED
  BY <1>8, <1>9, <1>10, <1>11, <1>12, <1>13, <1>14, <1>15, <1>16, Zenon DEF IInv

(* A page of the delta that the merge has not seen is marked to be written. *)
LEMMA end_backup_page_Step ==
  ASSUME IInv, NEW p \in Processes, NEW g \in Pages, end_backup_page(p, g)
  PROVE  IInv'
<1> DEFINE page == IF buffer[p][g] # NULL THEN buffer[p][g] ELSE ReadPage(p, g)
<1> USE DEF files, table, bounds
<1>1. /\ pc[p] = "merge" /\ half[p] = NULL /\ g \in todo[p] /\ Readable(p, g)
      /\ LockAllocIfBackup(p)
      /\ \/ Merged(p, page) /\ TakePage(p, g, page) /\ UNCHANGED <<dirty, locks>>
         \/ /\ Dirtied(p, g, page)
            /\ IF dirty[p] = {} THEN Database!Lock(Cache(p), Database!LCK_read) ELSE UNCHANGED locks
      /\ todo' = [todo EXCEPT ![p] = @ \ {g}]
      /\ UNCHANGED <<files, end_lock, backup_state, current_scn, half, pc, recover,
                     level0, bounds>>
  BY Zenon DEF end_backup_page, At
<1>2. /\ p \in fresh /\ Known(p) /\ H' = H /\ H.state = nbak_state_merge
      /\ H.state # nbak_state_normal /\ H.state # nbak_state_stalled
  <2>1. p \in fresh
    BY <1>1, Zenon DEF IInv, Locked, Reading
  <2>2. Known(p)
    BY <1>1, <2>1, Zenon DEF IInv, StateKnown, Known
  <2> QED
    BY <1>1, <2>1, <2>2, Zenon DEF H, IInv, Phase, Merging, nbak_state_merge, nbak_state_normal,
       nbak_state_stalled
<1>3. /\ delta \in Seq(Entry) /\ \A q \in Processes : pc[q] \notin Writing
      /\ H.scn <= current_scn[p]
  <2>1. H.scn <= current_scn[p]
    BY <1>1, <1>2, Zenon DEF IInv, StateKnown, Merging
  <2> QED
    BY <1>1, <1>2, <2>1, Knowing, Zenon DEF Writing
<1>4. ReadPage(p, g) \in Page /\ Current(g, ReadPage(p, g))
  BY <1>1, <1>2, Fetched, Zenon
<1>5. /\ page \in Page
      /\ g = HEADER_PAGE => HeaderCopy(page)
      /\ g # HEADER_PAGE => Old(g, page)
      /\ g \notin dirty[p] => Current(g, page)
  <2>1. CASE buffer[p][g] = NULL
    BY <1>4, <2>1, CurrentHeader, CurrentOld, ZenonT(30)
  <2>2. CASE buffer[p][g] # NULL
    <3>1. g \notin dirty[p] => Clean(g)
      BY <1>1, Zenon DEF Readable, Clean
    <3> QED
      BY <1>1, <2>2, <3>1, SMTT(30) DEF IInv, Headers, Scns, Cached, Types
  <2> QED
    BY <2>1, <2>2, Zenon
<1> HIDE DEF page
<1>6. /\ buffer' \in [Processes -> [Pages -> Page \cup {NULL}]]
      /\ buffer'[p][g] # NULL
      /\ \A q \in Processes \ {p} : buffer'[q][g] = NULL
      /\ \A q \in Processes, h \in Pages \ {g} : buffer'[q][h] = buffer[q][h]
      /\ \A q \in Processes :
           buffer'[q][HEADER_PAGE] # NULL => HeaderCopy(buffer'[q][HEADER_PAGE])
      /\ \A q \in Processes, h \in Pages :
           h # HEADER_PAGE /\ buffer'[q][h] # NULL => Old(h, buffer'[q][h])
      /\ dirty' \in [Processes -> SUBSET Pages]
      /\ \A q \in Processes \ {p} : dirty'[q] = dirty[q]
      /\ \/ dirty'[p] = dirty[p] \cup {g}
         \/ dirty' = dirty /\ buffer'[p][g] = page /\ page.scn = current_scn[p]
  <2>1. CASE Dirtied(p, g, page)
    BY <1>1, <1>2, <1>5, <2>1, DirtyPage, ZenonT(30)
  <2>2. CASE Merged(p, page) /\ TakePage(p, g, page) /\ UNCHANGED dirty
    <3>1. /\ buffer' \in [Processes -> [Pages -> Page \cup {NULL}]]
          /\ buffer'[p][g] = page /\ page # NULL
          /\ \A q \in Processes \ {p} : buffer'[q][g] = NULL
          /\ \A q \in Processes, h \in Pages \ {g} : buffer'[q][h] = buffer[q][h]
      <4>1. Types /\ page # NULL
        BY <1>5, PageNotNull, Zenon DEF IInv
      <4>2. TakePage(p, g, page) /\ page \in Page
        BY <1>5, <2>2, Zenon
      <4>3. /\ buffer' \in [Processes -> [Pages -> Page \cup {NULL}]]
            /\ buffer'[p][g] = page
            /\ \A q \in Processes \ {p} : buffer'[q][g] = NULL
            /\ \A q \in Processes, h \in Pages \ {g} : buffer'[q][h] = buffer[q][h]
        BY <4>1, <4>2, TakenPage, ZenonT(30)
      <4> QED
        BY <4>1, <4>3, Zenon
    <3>2. ASSUME NEW q \in Processes, buffer'[q][HEADER_PAGE] # NULL
          PROVE  HeaderCopy(buffer'[q][HEADER_PAGE])
      <4>1. CASE g = HEADER_PAGE
        BY <1>5, <3>1, <3>2, <4>1, Zenon
      <4>2. CASE g # HEADER_PAGE
        BY <3>1, <3>2, <4>2, PagesAssumption, Zenon DEF IInv, Headers
      <4> QED
        BY <4>1, <4>2, Zenon
    <3>3. ASSUME NEW q \in Processes, NEW h \in Pages, h # HEADER_PAGE, buffer'[q][h] # NULL
          PROVE  Old(h, buffer'[q][h])
      <4>1. CASE h = g
        BY <1>5, <3>1, <3>3, <4>1, Zenon
      <4>2. CASE h # g
        BY <3>1, <3>3, <4>2, ZenonT(30) DEF IInv, Scns
      <4> QED
        BY <4>1, <4>2, Zenon
    <3> QED
      BY <2>2, <3>1, <3>2, <3>3, Zenon DEF IInv, Types, Merged
  <2> QED
    BY <1>1, <2>1, <2>2, ZenonT(30)
<1>7. /\ use' \in [Owners -> {LCK_none, Database!LCK_read, Database!LCK_write}]
      /\ \A q \in Processes : use'[Attachment(q)] = use[Attachment(q)]
      /\ use'[Cache(p)] = IF dirty'[p] = {} THEN LCK_none ELSE Database!LCK_read
      /\ \A q \in Processes \ {p} : use'[Cache(q)] = use[Cache(q)]
      /\ fresh' = fresh
  <2>1. CASE UNCHANGED <<dirty, locks>>
    BY <2>1, Zenon DEF IInv, Types, Locked, locks
  <2>2. CASE /\ Dirtied(p, g, page)
             /\ IF dirty[p] = {} THEN Database!Lock(Cache(p), Database!LCK_read) ELSE UNCHANGED locks
    <3>1. /\ use' \in [Owners -> {LCK_none, Database!LCK_read, Database!LCK_write}]
          /\ \A q \in Processes :
               /\ use'[Attachment(q)] = use[Attachment(q)]
               /\ use'[Cache(q)] = IF q = p THEN Database!LCK_read ELSE use[Cache(q)]
          /\ fresh' = fresh
      BY <1>2, <2>2, DirtyLock, Zenon
    <3>2. dirty'[p] # {}
      BY <2>2, Zenon DEF Dirtied, IInv, Types
    <3> QED
      BY <3>1, <3>2, Zenon
  <2> QED
    BY <1>1, <2>1, <2>2, Zenon
<1>8. /\ \A q \in Processes : TableKnown(q)'
      /\ alloc_table' \in [Processes -> Seq(Pages)] /\ alloc_fresh' \subseteq Processes
      /\ \A q \in Processes : Range(alloc_table[q]) \subseteq Range(alloc_table'[q])
      /\ alloc_table'[p] = DeltaPages
  BY <1>1, <1>2, TableStep, Zenon
<1>9. todo' \in [Processes -> SUBSET Pages] /\ todo'[p] = todo[p] \ {g}
      /\ \A q \in Processes \ {p} : todo'[q] = todo[q]
  BY <1>1, Zenon DEF IInv, Types
<1>10. Types'
  BY <1>1, <1>6, <1>7, <1>8, <1>9, ZenonT(30) DEF IInv, Types
<1>11. /\ \A q \in Processes : Phase(q)' /\ StateKnown(q)'
       /\ Delta' /\ Level0'
  BY <1>1, <1>2, <1>7, KeepPhase, KeepStateKnown, KeepDelta, KeepLevel0, ZenonT(30) DEF IInv
<1>12. ASSUME NEW q \in Processes PROVE Locked(q)'
  <2>1. Locked(q) /\ \A r \in Processes : pc'[r] \notin Writing
    BY <1>1, <1>3, Zenon DEF IInv
  <2>2. CASE q = p
    <3>1. half'[p] = NULL
      BY <1>1, Zenon
    <3> QED
      BY <1>1, <1>2, <1>7, <2>1, <2>2, <3>1, Zenon DEF Locked
  <2>3. CASE q # p
    BY <1>1, <1>2, <1>6, <1>7, <1>9, <2>1, <2>3, ZenonT(30) DEF Locked
  <2> QED
    BY <2>2, <2>3, Zenon
<1>13. ASSUME NEW q \in Processes PROVE Mapped(q)'
  <2>1. \A h : InDelta(h) => h \in Range(DeltaPages)
    BY <1>3, DeltaIndex, Zenon
  <2>2. \A h : InDelta(h)' <=> InDelta(h)
    BY <1>1, Zenon DEF InDelta
  <2>3. CASE q = p
    BY <1>2, <1>8, <2>1, <2>2, <2>3, Zenon DEF Mapped
  <2>4. CASE q # p
    BY <1>2, <1>6, <1>8, <2>2, <2>4, Zenon DEF IInv, Mapped
  <2> QED
    BY <2>3, <2>4, Zenon
<1>14. Headers'
  BY <1>1, <1>2, <1>6, <1>7, Zenon DEF IInv, Headers, HeaderCopy
<1>15. ASSUME NEW q \in Processes PROVE MergeHeader(q)'
  BY <1>1, <1>3, Zenon DEF MergeHeader, Writing
<1>16. ASSUME NEW h \in Pages PROVE Scns(h)'
  BY <1>1, <1>2, <1>6, Zenon DEF IInv, Scns, Old
<1>17. \A q \in Processes : pc'[q] # "mark" /\ pc'[q] # "main1"
  BY <1>1, <1>2, <1>3, Zenon DEF IInv, Phase, Writing
<1>18. ASSUME NEW h \in Pages, NEW q \in Processes PROVE Cached(q, h)'
  <2>0. InDelta(h)' <=> InDelta(h)
    BY <1>1, Zenon DEF InDelta
  <2>1. CASE h = g
    <3>1. half'[q] # g /\ (pc'[q] = "out" => q # p)
      BY <1>1, PagesAssumption, Zenon DEF Readable
    <3>2. \A r \in Processes \ {p} : g \notin dirty'[r]
      BY <1>1, <1>6, Zenon DEF Readable
    <3>3. Clean(g)' => buffer'[p][g] = page /\ Current(g, page)
      <4>1. Clean(g)' => g \notin dirty'[p]
        BY Zenon DEF Clean
      <4>2. g \notin dirty'[p] => g \notin dirty[p] /\ buffer'[p][g] = page
        BY <1>6, Zenon
      <4> QED
        BY <1>5, <4>1, <4>2, Zenon
    <3>4. buffer'[q][g] # NULL /\ Clean(g)' => Current(g, buffer[q][g])'
      <4>1. buffer'[q][g] # NULL => q = p
        BY <1>6, Zenon
      <4> QED
        BY <1>1, <1>2, <2>0, <2>1, <3>3, <4>1, Zenon DEF Current
    <3> QED
      BY <1>6, <1>17, <2>1, <3>1, <3>2, <3>4, Zenon DEF Cached
  <2>2. CASE h # g
    <3>1. Cached(q, h) /\ buffer'[q][h] = buffer[q][h]
      BY <1>6, <2>2, Zenon DEF IInv
    <3>2. \A r \in Processes :
            (h \in dirty'[r] <=> h \in dirty[r]) /\ buffer'[r][h] = buffer[r][h]
      BY <1>6, <2>2, Zenon
    <3>3. Clean(h)' <=> Clean(h)
      BY <3>2, Zenon DEF Clean
    <3>4. Current(h, buffer[q][h])' <=> Current(h, buffer[q][h])
      BY <1>1, <1>2, <2>0, <3>1, Zenon DEF Current
    <3> QED
      BY <1>1, <1>17, <2>0, <3>1, <3>2, <3>3, <3>4, Zenon DEF Cached
  <2> QED
    BY <2>1, <2>2, Zenon
<1>19. ASSUME NEW i \in DOMAIN delta' PROVE Merges(i)'
  <2>1. i \in DOMAIN delta /\ delta'[i] = delta[i] /\ Merges(i) /\ (Newer(i)' <=> Newer(i))
    BY <1>1, <1>2, Zenon DEF IInv, Newer
  <2>2. ASSUME NEW q \in Processes, Newer(i), pc[q] \in Merging, delta[i].page \notin dirty'[q]
        PROVE  /\ delta[i].page # HEADER_PAGE /\ delta[i].content.scn < H.scn
               /\ pc[q] = "shared" \/ (pc[q] = "merge" /\ delta[i].page \in todo'[q])
    <3>1. CASE q # p
      BY <1>6, <1>9, <2>1, <2>2, <3>1, Zenon DEF Merges
    <3>2. CASE q = p
      <4>1. /\ delta[i].page \notin dirty[p]
            /\ delta[i].page # HEADER_PAGE /\ delta[i].content.scn < H.scn
            /\ delta[i].page \in todo[p]
        BY <1>1, <1>6, <2>1, <2>2, <3>2, ZenonT(30) DEF Merges
      <4>2. delta[i].page # g
        <5> SUFFICES ASSUME delta[i].page = g PROVE FALSE
          OBVIOUS
        <5>1. page.scn = current_scn[p] /\ Current(g, page)
          BY <1>5, <1>6, <2>2, <3>2, <4>1, Zenon
        <5>2. InDelta(g) /\ delta[i].content # Undefined
          BY <2>1, <2>2, Zenon DEF InDelta, Newer
        <5>3. page = delta[i].content
          BY <1>2, <2>1, <5>1, <5>2, Zenon DEF Current
        <5>4. H.scn \in Nat /\ current_scn[p] \in Nat
          BY PagesAssumption, Zenon DEF H, IInv, Types, Page
        <5> QED
          BY <1>3, <4>1, <5>1, <5>3, <5>4, SMTT(30)
      <4> QED
        BY <1>1, <1>9, <3>2, <4>1, <4>2, Zenon
    <3> QED
      BY <3>1, <3>2, Zenon
  <2> QED
    BY <1>1, <1>2, <1>7, <2>1, <2>2, Zenon DEF Merges
<1> QED
  BY <1>8, <1>10, <1>11, <1>12, <1>13, <1>14, <1>15, <1>16, <1>18, <1>19, ZenonT(30) DEF IInv

(* The main file says normal when the merge has left nothing in the delta. *)
LEMMA end_backup_normal_Step ==
  ASSUME IInv, NEW p \in Processes, end_backup_normal(p)
  PROVE  IInv'
<1> USE DEF files, locks, table, bounds
<1> DEFINE scn == current_scn[p] + 1
           header == [Header(p) EXCEPT !.scn = scn, !.state = nbak_state_normal]
<1>1. /\ pc[p] = "state3" /\ half[p] = NULL
      /\ backup_state' = [backup_state EXCEPT ![p] = nbak_state_normal]
      /\ current_scn' = [current_scn EXCEPT ![p] = scn]
      /\ TakePage(p, HEADER_PAGE, header)
      /\ main' = [main EXCEPT ![HEADER_PAGE] = header]
      /\ pc' = [pc EXCEPT ![p] = "unlink"]
      /\ UNCHANGED <<delta, locks, table, end_lock, dirty, half, recover, todo, level0, bounds>>
  BY Zenon DEF end_backup_normal, At, Goto
<1>2. /\ fresh = {p} /\ \A h \in Pages : Clean(h)
      /\ \A q \in Processes : dirty[q] = {} /\ half[q] = NULL
      /\ \A q \in Processes \ {p} :
           pc[q] \notin Writing \cup Reading /\ backup_state[q] = nbak_state_unknown
  BY <1>1, Writer, Zenon DEF Writing
<1>3. /\ H.state = nbak_state_merge /\ H.state # nbak_state_normal /\ Known(p)
      /\ H.scn \in Nat /\ current_scn[p] \in Nat /\ H.scn <= current_scn[p]
  <2>1. H.state = nbak_state_merge /\ H.state # nbak_state_normal
    BY <1>1, Zenon DEF IInv, Phase, Merging, nbak_state_merge, nbak_state_normal
  <2>2. Known(p) /\ H.scn <= current_scn[p]
    BY <1>1, <1>2, <2>1, Zenon DEF IInv, StateKnown, Known, Merging
  <2> QED
    BY <2>1, <2>2, PagesAssumption, Zenon DEF IInv, Types, H, Page
<1>4. header \in Page /\ header.scn = scn /\ header.state = nbak_state_normal
  <2>1. scn \in Nat /\ nbak_state_normal \in States /\ Header(p) \in Page
    BY <1>1, <1>3, HeaderRead, SMTT(30) DEF States, Writing
  <2> HIDE DEF scn
  <2>2. header \in Page
    BY <2>1, Zenon DEF Page
  <2>3. header.scn = scn
    BY <2>1, Zenon DEF Page
  <2>4. header.state = nbak_state_normal
    BY <2>1, Zenon DEF Page
  <2> QED
    BY <2>2, <2>3, <2>4, Zenon
<1> HIDE DEF header
<1>5. /\ H' = header /\ H'.scn = scn /\ H'.state = nbak_state_normal
      /\ H'.state # nbak_state_stalled /\ H'.state # nbak_state_merge
      /\ main' \in [Pages -> Page]
      /\ \A h \in Pages \ {HEADER_PAGE} : main'[h] = main[h]
  <2>1. main \in [Pages -> Page] /\ HEADER_PAGE \in Pages
    BY PagesAssumption, Zenon DEF IInv, Types
  <2>2. /\ H' = header /\ main' \in [Pages -> Page]
        /\ \A h \in Pages \ {HEADER_PAGE} : main'[h] = main[h]
    BY <1>1, <1>4, <2>1, ZenonT(30) DEF H
  <2> QED
    BY <1>4, <2>2, Zenon DEF nbak_state_merge, nbak_state_normal, nbak_state_stalled
<1>6. /\ buffer'[p][HEADER_PAGE] = header
      /\ buffer' \in [Processes -> [Pages -> Page \cup {NULL}]]
      /\ \A h \in Pages \ {HEADER_PAGE}, q \in Processes : buffer'[q][h] = buffer[q][h]
      /\ \A q \in Processes \ {p} : buffer'[q][HEADER_PAGE] = NULL
  <2>1. Types /\ TakePage(p, HEADER_PAGE, header) /\ HEADER_PAGE \in Pages /\ header \in Page
    BY <1>1, <1>4, PagesAssumption, Zenon DEF IInv
  <2>2. /\ buffer' \in [Processes -> [Pages -> Page \cup {NULL}]]
        /\ buffer'[p][HEADER_PAGE] = header
        /\ \A q \in Processes \ {p} : buffer'[q][HEADER_PAGE] = NULL
        /\ \A q \in Processes, h \in Pages \ {HEADER_PAGE} : buffer'[q][h] = buffer[q][h]
    BY <2>1, TakenPage, SMTT(30)
  <2> QED
    BY <2>2, Zenon
<1>7. /\ current_scn'[p] = scn /\ scn \in Nat /\ backup_state'[p] = nbak_state_normal
      /\ pc'[p] = "unlink"
      /\ \A q \in Processes \ {p} :
           /\ current_scn'[q] = current_scn[q] /\ backup_state'[q] = nbak_state_unknown
           /\ current_scn[q] \in Nat /\ current_scn[q] <= H.scn
           /\ pc'[q] = pc[q] /\ pc[q] \notin Ending \cup Merging \cup {"created", "mark", "main1"}
  <2>1. \A q \in Processes \ {p} : pc[q] \notin Ending
    BY <1>1, Ender, Zenon DEF Ending
  <2>2. \A q \in Processes \ {p} :
          pc[q] \notin Ending \cup Merging \cup {"created", "mark", "main1"}
    BY <1>2, <2>1, Zenon DEF Ending, Merging, Writing, Reading
  <2>3. \A q \in Processes \ {p} : current_scn[q] <= H.scn /\ current_scn[q] \in Nat
    BY <2>2, Zenon DEF IInv, StateKnown, Types
  <2> QED
    BY <1>1, <1>2, <1>3, <2>2, <2>3, SMTT(30) DEF IInv, Types
<1>8. Types'
  <2>1. backup_state' \in [Processes -> States \cup {nbak_state_unknown}]
    BY <1>1, Zenon DEF IInv, Types, States
  <2>2. current_scn' \in [Processes -> Nat]
    BY <1>1, <1>7, ZenonT(30) DEF IInv, Types
  <2> QED
    BY <1>1, <1>5, <1>6, <2>1, <2>2, ZenonT(30) DEF IInv, Types, Ending
<1>9. ASSUME NEW q \in Processes PROVE Locked(q)'
  BY <1>1, <1>2, SMTT(30) DEF IInv, Locked, Types, Writing, Reading, Ending
<1>10. ASSUME NEW q \in Processes PROVE Phase(q)' /\ MergeHeader(q)' /\ Mapped(q)'
  <2>1. pc'[q] \notin Merging \cup {"created", "mark", "clean1", "state1", "main1"}
    BY <1>7, Zenon DEF Ending, Merging
  <2> QED
    BY <1>5, <2>1, Zenon DEF Phase, MergeHeader, Mapped
<1>11. ASSUME NEW q \in Processes PROVE StateKnown(q)' /\ TableKnown(q)'
  <2>1. CASE q = p
    BY <1>1, <1>2, <1>5, <1>7, <2>1, Order, ZenonT(30)
       DEF StateKnown, TableKnown, Merging, nbak_state_normal, nbak_state_unknown
  <2>2. CASE q # p
    <3>1. current_scn'[q] <= H'.scn /\ ~(current_scn'[q] >= H'.scn)
      BY <1>3, <1>5, <1>7, <2>2
    <3> QED
      BY <1>1, <1>2, <1>5, <1>7, <2>2, <3>1, Zenon DEF StateKnown, TableKnown, Merging
  <2> QED
    BY <2>1, <2>2, Zenon
<1>12. Delta' /\ Headers'
  <2>1. HeaderCopy(buffer[p][HEADER_PAGE])'
    BY <1>5, <1>6, Zenon DEF HeaderCopy
  <2> QED
    BY <1>5, <1>6, <2>1, Zenon DEF Delta, Headers
<1>13. Level0'
  <2>1. CASE level0 # NULL
    <3>1. level0[HEADER_PAGE].scn \in Nat /\ level0[HEADER_PAGE].scn <= H.scn
      BY <2>1, PagesAssumption, Zenon DEF IInv, Level0, Types, Page
    <3>2. level0[HEADER_PAGE].scn <= scn
      BY <1>3, <3>1, SMTT(30)
    <3> QED
      BY <1>1, <1>2, <1>5, <1>7, <3>2, ZenonT(30) DEF Level0
  <2> QED
    BY <1>1, <2>1, Zenon DEF Level0
<1>14. ASSUME NEW h \in Pages PROVE Scns(h)'
  <2>1. CASE h # HEADER_PAGE
    <3>1. main'[h] = main[h] /\ main[h] \in Page
      BY <1>5, <2>1, Zenon DEF IInv, Types
    <3>2. ASSUME NEW d \in Page, Old(h, d)
          PROVE  /\ d.scn <= H'.scn
                 /\ level0 # NULL => (d.scn < level0[HEADER_PAGE].scn => d.ver = level0[h].ver)
      <4>1. d.scn \in Nat /\ d.scn <= H.scn
        BY <3>2, Zenon DEF Page, Old
      <4> QED
        BY <1>3, <1>5, <3>2, <4>1, SMTT(30) DEF Old
    <3>3. Old(h, main[h])'
      BY <1>1, <2>1, <3>1, <3>2, Zenon DEF IInv, Scns, Old
    <3>4. ASSUME NEW q \in Processes, buffer'[q][h] # NULL PROVE Old(h, buffer[q][h])'
      <4>1. buffer[q][h] \in Page /\ Old(h, buffer[q][h]) /\ buffer'[q][h] = buffer[q][h]
        BY <1>6, <2>1, <3>4, SMTT(30) DEF IInv, Scns, Types
      <4> QED
        BY <1>1, <3>2, <4>1, ZenonT(30) DEF Old
    <3> QED
      BY <1>5, <3>3, <3>4, Zenon DEF Scns
  <2> QED
    BY <2>1, Zenon DEF Scns
<1>15. ASSUME NEW i \in DOMAIN delta, delta[i].page # HEADER_PAGE, delta[i].content # Undefined
       PROVE  main[delta[i].page] = delta[i].content
  <2>1. ~Newer(i)
    BY <1>1, <1>2, <1>3, Zenon DEF IInv, Merges, Merging
  <2>2. delta[i] \in Entry
    BY <1>3 DEF IInv, Delta
  <2>3. delta[i].page # NULL
    BY <2>2, PagesAssumption, Zenon DEF Entry
  <2> QED
    BY <1>2, <1>15, <2>1, <2>3, Zenon DEF Newer
<1>16. ASSUME NEW h \in Pages, NEW q \in Processes PROVE Cached(q, h)'
  <2>1. dirty'[q] = {} /\ half'[q] = NULL /\ pc'[q] # "mark"
    BY <1>1, <1>2, <1>7, ZenonT(30)
  <2>2. pc'[q] = "out" => buffer'[q][h] = NULL
    <3>1. pc'[q] = "out" => buffer[q][h] = NULL /\ q # p
      BY <1>7, ZenonT(30) DEF IInv, Cached
    <3> QED
      BY <1>6, <3>1, Zenon
  <2>3. buffer'[q][h] # NULL => buffer'[q][h] = main'[h]
    <3>1. CASE h = HEADER_PAGE
      BY <1>5, <1>6, <3>1, Zenon DEF H
    <3>2. CASE h # HEADER_PAGE
      <4>1. buffer[q][h] # NULL => Current(h, buffer[q][h])
        BY <1>2, <3>2, Zenon DEF IInv, Cached
      <4>2. Current(h, buffer[q][h]) => buffer[q][h] = main[h]
        BY <1>15, <3>2, Zenon DEF Current, InDelta
      <4> QED
        BY <1>5, <1>6, <3>2, <4>1, <4>2, ZenonT(30)
    <3> QED
      BY <3>1, <3>2, Zenon
  <2>4. buffer'[q][h] # NULL => Current(h, buffer[q][h])'
    BY <1>5, <2>3, Zenon DEF Current
  <2> QED
    BY <2>1, <2>2, <2>4, PagesAssumption, Zenon DEF Cached
<1> QED
  BY <1>5, <1>8, <1>9, <1>10, <1>11, <1>12, <1>13, <1>14, <1>16, Zenon DEF IInv

(* The difference file goes when nobody needs it. *)
LEMMA end_backup_unlink_Step ==
  ASSUME IInv, NEW p \in Processes, end_backup_unlink(p)
  PROVE  IInv'
<1> USE DEF files, locks, cache, bounds
<1>1. /\ pc[p] = "unlink" /\ half[p] = NULL
      /\ alloc_table' = [alloc_table EXCEPT ![p] = <<>>]
      /\ alloc_fresh' = alloc_fresh \ {p}
      /\ delta' = NULL /\ end_lock' = NULL /\ Unlock(Attachment(p))
      /\ recover' = [recover EXCEPT ![p] = FALSE] /\ pc' = [pc EXCEPT ![p] = "idle"]
      /\ UNCHANGED <<main, backup_state, current_scn, cache, todo, level0, bounds>>
  BY Zenon DEF end_backup_unlink, At, Goto
<1>2. /\ fresh = {p}
      /\ \A q \in Processes : dirty[q] = {} /\ half[q] = NULL
      /\ \A q \in Processes \ {p} :
           pc[q] \notin Writing \cup Reading /\ backup_state[q] = nbak_state_unknown
      /\ \A q \in Processes \ {p} : pc[q] \notin Ending
  BY <1>1, Writer, Ender, Zenon DEF Writing, Ending
<1>3. H' = H /\ H.state = nbak_state_normal
  BY <1>1, Zenon DEF H, IInv, Phase
<1>4. /\ use' \in [Owners -> {LCK_none, Database!LCK_read, Database!LCK_write}]
      /\ \A q \in Processes :
           /\ use'[Attachment(q)] = IF q = p THEN LCK_none ELSE use[Attachment(q)]
           /\ use'[Cache(q)] = use[Cache(q)]
      /\ fresh' = fresh
  BY <1>1, AttachmentUnlock, Zenon DEF IInv
<1>5. /\ pc'[p] = "idle" /\ alloc_table'[p] = <<>> /\ p \notin alloc_fresh'
      /\ \A q \in Processes \ {p} :
           /\ pc'[q] = pc[q] /\ alloc_table'[q] = alloc_table[q]
           /\ q \in alloc_fresh' <=> q \in alloc_fresh
           /\ pc[q] \notin Ending \cup Merging \cup {"created", "mark", "main1"}
  BY <1>1, <1>2, Zenon DEF IInv, Types, Ending, Merging, Writing, Reading
<1>6. Types'
  BY <1>1, <1>4, SMTT(30) DEF IInv, Types, Outside
<1>7. ASSUME NEW q \in Processes PROVE Locked(q)'
  <2>1. NULL # q
    BY PagesAssumption, ZenonT(30)
  <2>2. CASE q = p
    <3>1. pc'[p] \notin Writing \cup Reading \cup Ending /\ pc'[p] # "out"
      BY <1>5, Zenon DEF Writing, Reading, Ending
    <3>2. todo'[p] = {} /\ dirty'[p] = {} /\ half'[p] = NULL /\ end_lock' # p
      BY <1>1, <1>2, <2>1, <2>2, Zenon DEF IInv, Locked
    <3>3. use'[Attachment(p)] = LCK_none /\ use'[Cache(p)] = LCK_none
      BY <1>2, <1>4, Zenon DEF IInv, Locked
    <3> QED
      BY <2>2, <3>1, <3>2, <3>3, Zenon DEF Locked
  <2>3. CASE q # p
    BY <1>1, <1>2, <1>4, <1>5, <2>1, <2>3, ZenonT(30) DEF IInv, Locked
  <2> QED
    BY <2>2, <2>3, Zenon
<1>8. ASSUME NEW q \in Processes PROVE Phase(q)' /\ MergeHeader(q)' /\ Mapped(q)'
  <2>1. pc'[q] \notin Merging \cup {"created", "mark", "clean1", "state1", "main1", "unlink"}
    BY <1>5, Zenon DEF Ending, Merging
  <2> QED
    BY <1>3, <2>1, Zenon DEF Phase, MergeHeader, Mapped
<1>9. ASSUME NEW q \in Processes PROVE StateKnown(q)' /\ TableKnown(q)'
  <2>1. CASE q = p
    BY <1>1, <1>2, <1>3, <1>4, <1>5, <2>1, ZenonT(30) DEF IInv, StateKnown, TableKnown, Merging
  <2>2. CASE q # p
    <3>1. pc[q] # "unlink"
      BY <1>5, <2>2, Zenon DEF Ending
    <3> QED
      BY <1>1, <1>2, <1>3, <1>4, <1>5, <2>2, <3>1, ZenonT(30) DEF IInv, StateKnown, TableKnown
  <2> QED
    BY <2>1, <2>2, Zenon
<1>10. Delta' /\ Headers' /\ Level0'
  BY <1>1, <1>3, <1>4, Zenon DEF IInv, Delta, Headers, HeaderCopy, Level0, nbak_state_normal,
     nbak_state_merge
<1>11. ASSUME NEW h \in Pages PROVE Scns(h)'
  BY <1>1, <1>3, Zenon DEF IInv, Scns, Old
<1>12. ASSUME NEW h \in Pages, NEW q \in Processes PROVE Cached(q, h)'
  <2>1. dirty'[q] = {} /\ half'[q] = NULL /\ pc'[q] # "mark" /\ pc[q] # "main1"
    BY <1>1, <1>2, <1>5, ZenonT(30)
  <2>2. pc'[q] = "out" => buffer'[q][h] = NULL
    <3>1. pc'[q] = "out" => pc[q] = "out"
      BY <1>5, Zenon
    <3> QED
      BY <1>1, <3>1, Zenon DEF IInv, Cached
  <2>3. buffer[q][h] # NULL => Current(h, buffer[q][h])
    BY <1>2, <2>1, Zenon DEF IInv, Cached, Clean
  <2>4. Current(h, buffer[q][h]) => Current(h, buffer[q][h])'
    BY <1>1, <1>3, Zenon DEF Current
  <2> QED
    BY <1>1, <2>1, <2>2, <2>3, <2>4, PagesAssumption, Zenon DEF Cached
<1> QED
  BY <1>3, <1>6, <1>7, <1>8, <1>9, <1>10, <1>11, <1>12, Zenon DEF IInv
=============================================================================
