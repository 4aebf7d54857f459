--------------------------- MODULE NBackupProofs ----------------------------
(* What the inductive invariant of NBackup gives: the properties of the    *)
(* model for any number of processes and pages, and that the page cache    *)
(* sees one storage through a whole backup.                                *)
EXTENDS NBackupSteps

(* The death of a process that is not between its two writes of a page, or *)
(* of all of them.                                                         *)
LEMMA crash_Step ==
  ASSUME IInv, ~HalfWrites, NEW S \in SUBSET Attached, crash(S)
  PROVE  IInv'
<1> USE DEF files
<1>1. /\ S = Attached \/ \A p \in S : half[p] = NULL
      /\ use' = [o \in Owners |-> IF o[1] \in S THEN LCK_none ELSE use[o]]
      /\ fresh' = fresh \ S /\ Invalidated /\ alloc_fresh' = alloc_fresh \ S
      /\ end_lock' = IF end_lock \in S THEN NULL ELSE end_lock
      /\ current_scn' = [p \in Processes |-> IF p \in S THEN 0 ELSE current_scn[p]]
      /\ alloc_table' = [p \in Processes |-> IF p \in S THEN <<>> ELSE alloc_table[p]]
      /\ buffer' = [p \in Processes |-> IF p \in S THEN [g \in Pages |-> NULL] ELSE buffer[p]]
      /\ dirty' = [p \in Processes |-> IF p \in S THEN {} ELSE dirty[p]]
      /\ half' = [p \in Processes |-> IF p \in S THEN NULL ELSE half[p]]
      /\ pc' = [p \in Processes |-> IF p \in S THEN "out" ELSE pc[p]]
      /\ recover' = [p \in Processes |-> p \notin S /\ recover[p]]
      /\ todo' = [p \in Processes |-> IF p \in S THEN {} ELSE todo[p]]
      /\ UNCHANGED <<files, level0, changes>>
  BY Zenon DEF crash
<1>2. S \subseteq Processes
  BY Zenon DEF Attached
<1>3. H' = H /\ H.scn \in Nat
  BY <1>1, PagesAssumption, Zenon DEF H, IInv, Types, Page
<1>4. /\ use' \in [Owners -> {LCK_none, Database!LCK_read, Database!LCK_write}]
      /\ \A q \in Processes :
           /\ use'[Attachment(q)] = IF q \in S THEN LCK_none ELSE use[Attachment(q)]
           /\ use'[Cache(q)] = IF q \in S THEN LCK_none ELSE use[Cache(q)]
  BY <1>1, <1>2, CrashUnlock, Zenon DEF IInv
<1>5. backup_state' = [q \in Processes |-> IF q \in fresh \ S THEN backup_state[q]
                                           ELSE nbak_state_unknown]
  BY <1>1, Zenon DEF Invalidated
<1>6. \A q \in S : /\ current_scn'[q] = 0 /\ alloc_table'[q] = <<>> /\ dirty'[q] = {}
                   /\ half'[q] = NULL /\ pc'[q] = "out" /\ todo'[q] = {}
                   /\ backup_state'[q] = nbak_state_unknown
                   /\ \A g \in Pages : buffer'[q][g] = NULL
  BY <1>1, <1>2, <1>5, Zenon
<1>7. \A q \in Processes \ S :
        /\ current_scn'[q] = current_scn[q] /\ alloc_table'[q] = alloc_table[q]
        /\ dirty'[q] = dirty[q] /\ half'[q] = half[q] /\ pc'[q] = pc[q]
        /\ todo'[q] = todo[q] /\ buffer'[q] = buffer[q] /\ recover'[q] = recover[q]
        /\ (q \in fresh' <=> q \in fresh) /\ (q \in alloc_fresh' <=> q \in alloc_fresh)
        /\ backup_state'[q] = backup_state[q]
  <2>1. \A q \in Processes : q \notin fresh => backup_state[q] = nbak_state_unknown
    BY Zenon DEF IInv, StateKnown
  <2> QED
    BY <1>1, <1>5, <2>1, Zenon DEF IInv, Types
<1>8. Types'
  <2>1. /\ backup_state' \in [Processes -> States \cup {nbak_state_unknown}]
        /\ current_scn' \in [Processes -> Nat] /\ alloc_table' \in [Processes -> Seq(Pages)]
        /\ dirty' \in [Processes -> SUBSET Pages] /\ half' \in [Processes -> Pages \cup {NULL}]
    <3>1. backup_state' \in [Processes -> States \cup {nbak_state_unknown}]
      BY <1>5, Zenon DEF IInv, Types
    <3>2. current_scn' \in [Processes -> Nat]
      BY <1>1 DEF IInv, Types
    <3>3. alloc_table' \in [Processes -> Seq(Pages)]
      BY <1>1 DEF IInv, Types
    <3>4. dirty' \in [Processes -> SUBSET Pages] /\ half' \in [Processes -> Pages \cup {NULL}]
      BY <1>1, Zenon DEF IInv, Types
    <3> QED
      BY <3>1, <3>2, <3>3, <3>4, Zenon
  <2>2. /\ pc' \in [Processes -> Ending \cup Outside] /\ todo' \in [Processes -> SUBSET Pages]
        /\ buffer' \in [Processes -> [Pages -> Page \cup {NULL}]]
    BY <1>1, Zenon DEF IInv, Types, Outside
  <2> QED
    BY <1>1, <1>4, <2>1, <2>2, ZenonT(30) DEF IInv, Types
<1>9. ASSUME NEW q \in Processes PROVE Locked(q)'
  <2>1. CASE q \in S
    <3>1. "out" \notin Writing \cup Reading \cup Ending
      BY Zenon DEF Writing, Reading, Ending
    <3>2. end_lock' # q /\ q \notin fresh'
      BY <1>1, <2>1, PagesAssumption, Zenon
    <3> QED
      BY <1>4, <1>6, <2>1, <3>1, <3>2, Zenon DEF Locked
  <2>2. CASE q \notin S
    <3>1. Locked(q)
      BY Zenon DEF IInv
    <3>2. end_lock' = q <=> end_lock = q
      BY <1>1, <2>2, PagesAssumption, Zenon
    <3>3. pc[q] \in Writing => /\ fresh' = {q} /\ \A r \in Processes : dirty'[r] = {}
                               /\ \A r \in Processes \ {q} : pc'[r] \notin Writing \cup Reading
      BY <1>1, <2>2, <3>1, Zenon DEF Locked, Writing, Reading
    <3> QED
      BY <1>3, <1>4, <1>7, <2>2, <3>1, <3>2, <3>3, Zenon DEF Locked
  <2> QED
    BY <2>1, <2>2, Zenon
<1>10. ASSUME NEW q \in Processes PROVE Phase(q)' /\ StateKnown(q)'
  <2>1. CASE q \in S
    <3>1. q \notin fresh' /\ pc'[q] = "out" /\ backup_state'[q] = nbak_state_unknown
      BY <1>1, <1>6, <2>1, Zenon
    <3>2. current_scn'[q] = 0 /\ H'.scn \in Nat
      BY <1>3, <1>6, <2>1, Zenon
    <3> QED
      BY <3>1, <3>2 DEF Phase, StateKnown, Merging
  <2>2. CASE q \notin S
    BY <1>1, <1>3, <1>7, <2>2, Zenon DEF IInv, Phase, StateKnown
  <2> QED
    BY <2>1, <2>2, Zenon
<1>11. ASSUME NEW q \in Processes PROVE MergeHeader(q)'
  <2>1. CASE q \in S
    BY <1>6, <2>1, Zenon DEF MergeHeader
  <2>2. CASE q \notin S
    <3>1. \A r \in Processes \ {q} : buffer[r][HEADER_PAGE] = NULL =>
            buffer'[r][HEADER_PAGE] = NULL
      BY <1>6, <1>7, PagesAssumption, Zenon
    <3> QED
      BY <1>1, <1>7, <2>2, <3>1, Zenon DEF IInv, MergeHeader, InDelta
  <2> QED
    BY <2>1, <2>2, Zenon
<1>12. ASSUME NEW q \in Processes PROVE TableKnown(q)' /\ Mapped(q)'
  <2>1. CASE q \in S
    <3>1. H.state # nbak_state_normal => Len(delta) \in Nat
      BY DEF IInv, Delta
    <3>2. q \notin alloc_fresh'
      BY <1>1, <2>1, Zenon
    <3> QED
      BY <1>1, <1>3, <1>6, <2>1, <3>1, <3>2 DEF TableKnown, Prefix, Mapped
  <2>2. CASE q \notin S
    <3>1. Prefix(q) => Prefix(q)'
      BY <1>1, <1>7, <2>2, Zenon DEF Prefix
    <3>2. TableKnown(q)'
      BY <1>3, <1>7, <2>2, <3>1, Zenon DEF IInv, TableKnown
    <3>3. Mapped(q)'
      BY <1>1, <1>3, <1>7, <2>2, Zenon DEF IInv, Mapped, InDelta
    <3> QED
      BY <3>2, <3>3, Zenon
  <2> QED
    BY <2>1, <2>2, Zenon
<1>13. Delta' /\ Level0'
  <2>1. \A q \in fresh' : q \in Processes \ S /\ q \in fresh
    BY <1>1, Zenon DEF IInv, Types
  <2>2. Level0'
    BY <1>1, <1>3, <1>7, <2>1, Zenon DEF IInv, Level0
  <2> QED
    BY <1>1, <1>3, <2>2, KeepDelta, Zenon DEF IInv
<1>14. Headers'
  <2>1. \A q \in fresh' : q \in fresh /\ current_scn'[q] = current_scn[q]
    BY <1>1, <1>7, Zenon DEF IInv, Types
  <2>2. \A q \in Processes : pc'[q] \in Merging => pc[q] \in Merging
    <3>1. "out" \notin Merging
      BY Zenon DEF Merging
    <3> QED
      BY <1>6, <1>7, <3>1, Zenon
  <2>3. \A q \in Processes : buffer'[q][HEADER_PAGE] # NULL =>
          buffer'[q][HEADER_PAGE] = buffer[q][HEADER_PAGE]
    BY <1>6, <1>7, PagesAssumption, Zenon
  <2>4. ASSUME NEW q \in Processes, buffer'[q][HEADER_PAGE] # NULL
        PROVE  HeaderCopy(buffer[q][HEADER_PAGE])'
    <3>1. HeaderCopy(buffer[q][HEADER_PAGE]) /\ buffer'[q][HEADER_PAGE] = buffer[q][HEADER_PAGE]
      BY <2>3, <2>4, Zenon DEF IInv, Headers
    <3> QED
      BY <1>3, <2>1, <2>2, <3>1, Zenon DEF HeaderCopy
  <2>5. ASSUME H.state # nbak_state_normal, NEW i \in DOMAIN delta',
               delta'[i].page = HEADER_PAGE, delta'[i].content # Undefined
        PROVE  HeaderCopy(delta[i].content)'
    <3>1. HeaderCopy(delta[i].content) /\ delta' = delta
      BY <1>1, <2>5, Zenon DEF IInv, Headers
    <3> QED
      BY <1>3, <2>1, <2>2, <3>1, Zenon DEF HeaderCopy
  <2> QED
    BY <1>3, <2>4, <2>5, Zenon DEF Headers
<1>15. ASSUME NEW h \in Pages PROVE Scns(h)'
  <2>1. \A q \in Processes : buffer'[q][h] # NULL => buffer'[q][h] = buffer[q][h]
    BY <1>6, <1>7, Zenon
  <2> QED
    BY <1>1, <1>3, <2>1, Zenon DEF IInv, Scns, Old
<1>16. ASSUME NEW h \in Pages, NEW q \in Processes PROVE Cached(q, h)'
  <2>1. CASE q \in S
    BY <1>6, <2>1, PagesAssumption, Zenon DEF Cached
  <2>2. CASE q \notin S
    <3>1. Cached(q, h) /\ buffer'[q][h] = buffer[q][h]
      BY <1>7, <2>2, Zenon DEF IInv
    <3>2. \A r \in Processes : /\ h \in dirty'[r] => h \in dirty[r]
                               /\ buffer[r][h] = NULL => buffer'[r][h] = NULL
                               /\ pc'[r] = "mark" => pc[r] = "mark" /\ todo'[r] = todo[r]
      BY <1>6, <1>7, Zenon
    <3>3. Clean(h)' /\ buffer[q][h] # NULL => Clean(h)
      <4> SUFFICES ASSUME Clean(h)', buffer[q][h] # NULL, NEW r \in Processes, h \in dirty[r]
                   PROVE  FALSE
        BY Zenon DEF Clean
      <4>1. r = q
        BY Zenon DEF IInv, Cached
      <4> QED
        BY <1>7, <2>2, <4>1, Zenon DEF Clean
    <3>4. /\ Current(h, buffer[q][h])' <=> Current(h, buffer[q][h])
          /\ InDelta(h)' <=> InDelta(h)
      BY <1>1, <3>1, Zenon DEF Current, InDelta, H
    <3> QED
      BY <1>7, <2>2, <3>1, <3>2, <3>3, <3>4, Zenon DEF Cached
  <2> QED
    BY <2>1, <2>2, Zenon
<1>17. ASSUME H.state # nbak_state_normal, NEW i \in DOMAIN delta' PROVE Merges(i)'
  <2>1. i \in DOMAIN delta /\ delta' = delta /\ delta[i] \in Entry
    BY <1>1, <1>17 DEF IInv, Delta
  <2>2. \A q \in fresh' : q \in fresh /\ q \in Processes \ S
    BY <1>1, Zenon DEF IInv, Types
  <2>3. CASE S = Attached
    <3>1. \A q \in Processes : pc'[q] = "out"
      BY <1>6, <1>7, <2>3, Zenon DEF Attached
    <3>2. \A q \in Processes : q \notin fresh'
      BY <1>9, <3>1, Zenon DEF Locked
    <3>3. delta[i].page # HEADER_PAGE /\ delta[i].content # Undefined =>
            delta[i].content.scn <= H.scn
      <4>1. delta[i].page \in Pages
        BY <2>1, Zenon DEF Entry
      <4> QED
        BY <1>17, <2>1, <4>1, Zenon DEF IInv, Scns, Old
    <3> QED
      BY <1>3, <2>1, <2>2, <3>1, <3>2, <3>3, Zenon DEF Merges, Newer, Merging
  <2>4. CASE \A q \in S : half[q] = NULL
    <3>1. \A q \in Processes : half'[q] = half[q]
      BY <1>2, <1>6, <1>7, <2>4, Zenon
    <3>2. Newer(i)' <=> Newer(i)
      BY <1>1, <2>1, <3>1, Zenon DEF Newer
    <3>3. Merges(i)
      BY <1>17, <2>1, Zenon DEF IInv
    <3>4. \A q \in Processes : pc'[q] \in Merging \cup {"main1"} => q \notin S
      BY <1>6, Zenon DEF Merging
    <3> QED
      BY <1>3, <1>7, <2>1, <2>2, <3>2, <3>3, <3>4, Zenon DEF Merges
  <2> QED
    BY <1>1, <2>3, <2>4, Zenon
<1> QED
  BY <1>3, <1>8, <1>9, <1>10, <1>11, <1>12, <1>13, <1>14, <1>15, <1>16, <1>17, Zenon DEF IInv

-----------------------------------------------------------------------------
(* A database that nobody has open, without a backup. *)
LEMMA InitInv == Init => IInv
<1> SUFFICES ASSUME Init PROVE IInv
  OBVIOUS
<1>1. H = [ver |-> 0, scn |-> 0, state |-> nbak_state_normal]
  BY PagesAssumption, Zenon DEF Init, H
<1>2. H.scn = 0 /\ H.state = nbak_state_normal
  BY <1>1, Zenon
<1>3. Types
  <2>1. main \in [Pages -> Page]
    BY Zenon DEF Init, Page, States
  <2>2. use \in [Owners -> {LCK_none, Database!LCK_read, Database!LCK_write}] /\ fresh = {}
    BY Zenon DEF Init, Database!Init, Database!LCK_none, LCK_none
  <2> QED
    BY <2>1, <2>2 DEF Init, Types, Outside
<1>4. ASSUME NEW p \in Processes PROVE Locked(p)
  <2>1. use[Attachment(p)] = LCK_none /\ use[Cache(p)] = LCK_none /\ fresh = {}
    BY Zenon DEF Init, Database!Init, Database!LCK_none, LCK_none, Attachment, Cache, Owners
  <2> QED
    BY <2>1, PagesAssumption, Zenon DEF Init, Locked, Writing, Reading, Ending
<1>5. fresh = {}
  BY Zenon DEF Init, Database!Init
<1>6. ASSUME NEW p \in Processes
      PROVE  Phase(p) /\ StateKnown(p) /\ MergeHeader(p) /\ TableKnown(p) /\ Mapped(p)
  BY <1>2, <1>5 DEF Init, Phase, StateKnown, MergeHeader, TableKnown, Mapped, Merging
<1>7. Delta /\ Headers /\ Level0
  BY <1>2, PagesAssumption, Zenon DEF Init, Delta, Headers, Level0
<1>8. ASSUME NEW g \in Pages PROVE Scns(g)
  BY <1>2 DEF Init, Scns, Old, nbak_state_normal, nbak_state_stalled
<1>9. ASSUME NEW g \in Pages, NEW p \in Processes PROVE Cached(p, g)
  BY PagesAssumption, Zenon DEF Init, Cached
<1> QED
  BY <1>2, <1>3, <1>4, <1>6, <1>7, <1>8, <1>9, Zenon DEF IInv

(* Every step keeps the invariant. *)
LEMMA NextInv == ~HalfWrites /\ IInv /\ [Next]_vars => IInv'
<1> SUFFICES ASSUME ~HalfWrites, IInv, [Next]_vars PROVE IInv'
  OBVIOUS
<1>1. CASE UNCHANGED vars
  <2>1. H' = H
    BY <1>1, Zenon DEF vars, files, H
  <2> QED
    BY <1>1, <2>1, KeepLocked, KeepPhase, KeepStateKnown, KeepDelta, KeepHeaders, KeepMergeHeader,
       KeepTableKnown, KeepMapped, KeepLevel0, KeepScns, KeepCached, KeepMerges, Zenon
       DEF IInv, Types, vars, files, locks, table, cache, bounds
<1>2. ASSUME NEW p \in Processes, actualize_state(p) PROVE IInv'
  BY <1>2, actualize_state_Step, Zenon
<1>3. ASSUME NEW p \in Processes, PageAction(p) PROVE IInv'
  BY <1>3, CCH_fetch_page_Step, CCH_fetch_page_aborts_Step, CCH_mark_Step, CCH_mark_unmapped_Step,
     write_page_Step, Evict_Step, allocate_difference_page_Step, write_page_main_Step, Zenon
     DEF PageAction
<1>4. ASSUME NEW p \in Processes, BeginAction(p) PROVE IInv'
  BY <1>4, lock_clean_database_Step, begin_backup_create_Step, begin_backup_gives_up_Step,
     begin_backup_header_Step, Zenon DEF BeginAction, begin_backup
<1>5. ASSUME NEW p \in Processes, EndAction(p) PROVE IInv'
  BY <1>5, attach_Step, end_backup_Step, lock_clean_database_Step, end_backup_merge_Step,
     end_backup_merge_main_Step, end_backup_pages_Step, end_backup_merged_Step,
     end_backup_page_Step, end_backup_normal_Step, end_backup_unlink_Step, Zenon DEF EndAction
<1>6. ASSUME NEW S \in SUBSET Attached, crash(S) PROVE IInv'
  BY <1>6, crash_Step, Zenon
<1> QED
  BY <1>1, <1>2, <1>3, <1>4, <1>5, <1>6, Zenon DEF Next

(* The inductive invariant holds unless a process dies between its two     *)
(* writes of a page in merge state, and others live on.                    *)
THEOREM Invariance == ~HalfWrites => (Spec => []IInv)
<1> SUFFICES ASSUME ~HalfWrites PROVE Spec => []IInv
  OBVIOUS
<1>1. IInv /\ [Next]_vars => IInv'
  BY NextInv, Zenon
<1> QED
  BY <1>1, InitInv, PTL DEF Spec

(* Type correctness: the header never has a state of its own, whoever dies *)
(* between the writes of begin_backup and end_backup.                      *)
THEOREM TypeOKHolds == ~HalfWrites => (Spec => []TypeOK)
<1>1. IInv => TypeOK
  <2> SUFFICES ASSUME IInv PROVE TypeOK
    OBVIOUS
  <2>1. ASSUME delta # NULL, NEW i \in DOMAIN delta PROVE delta[i].page \in Pages
    <3>1. delta[i] \in Entry
      BY <2>1 DEF IInv, Types
    <3> QED
      BY <3>1, Zenon DEF Entry
  <2>2. ASSUME NEW p \in Processes PROVE Range(alloc_table[p]) \subseteq Pages
    <3>1. alloc_table[p] \in Seq(Pages)
      BY Zenon DEF IInv, Types
    <3> QED
      BY <3>1 DEF Range
  <2>3. ASSUME NEW p \in Processes
        PROVE backup_state[p] \in {nbak_state_unknown, nbak_state_normal,
                                                              nbak_state_stalled, nbak_state_merge}
    BY Zenon DEF IInv, Types, States
  <2> QED
    BY <2>1, <2>2, <2>3 DEF IInv, Types, TypeOK
<1> QED
  BY <1>1, Invariance, PTL

(* nbackup of level 1 leaves out no page that has changed since level 0,   *)
(* by comparing SCNs alone: the SCN that CCH_mark puts on a page is never  *)
(* one from before the backup, however late a process learns of it.        *)
THEOREM IncrementIsCompleteHolds == ~HalfWrites => (Spec => []IncrementIsComplete)
<1>1. IInv => IncrementIsComplete
  <2> SUFFICES ASSUME IInv, H.state = nbak_state_stalled
               PROVE  /\ \A g \in Pages \ {HEADER_PAGE} : main[g].scn < H.scn
                      /\ level0 # NULL => \A g \in Pages :
                           main[g].scn < level0[HEADER_PAGE].scn => main[g].ver = level0[g].ver
    BY Zenon DEF IncrementIsComplete, H
  <2>1. \A g \in Pages \ {HEADER_PAGE} : Old(g, main[g]) /\ main[g].scn < H.scn
    BY Zenon DEF IInv, Scns
  <2>2. level0 # NULL => ~(H.scn < level0[HEADER_PAGE].scn)
    BY PagesAssumption DEF IInv, Level0, Types, H, Page
  <2> QED
    BY <2>1, <2>2, Zenon DEF Old, H
<1> QED
  BY <1>1, Invariance, PTL

(* A process that has LCK_backup_alloc cached writes no page to a place of *)
(* an earlier difference file: actualize_state drops the table when it has *)
(* missed a cycle, and the table that is left is that of the delta.        *)
THEOREM TableIsCurrentHolds == ~HalfWrites => (Spec => []TableIsCurrent)
<1>1. IInv => TableIsCurrent
  <2> SUFFICES ASSUME IInv, NEW p \in fresh \cap alloc_fresh,
                      backup_state[p] \in {nbak_state_stalled, nbak_state_merge}
               PROVE  alloc_table[p] = DeltaPages /\ IsInjective(alloc_table[p])
    BY Zenon DEF TableIsCurrent
  <2>1. p \in Processes
    BY Zenon DEF IInv, Types
  <2>2. H.state # nbak_state_normal
    <3>1. backup_state[p] = IF pc[p] = "main1" THEN nbak_state_merge ELSE H.state
      BY <2>1, Zenon DEF IInv, StateKnown, nbak_state_unknown, nbak_state_stalled,
         nbak_state_merge
    <3> QED
      BY <2>1, <3>1, Zenon DEF IInv, Phase, nbak_state_normal, nbak_state_stalled,
         nbak_state_merge
  <2>3. lock_alloc(p) = DeltaPages /\ delta \in Seq(Entry)
    BY <2>1, <2>2, Knowing, Zenon
  <2>4. alloc_table[p] = DeltaPages
    BY <2>3, Zenon DEF lock_alloc
  <2>5. IsInjective(DeltaPages)
    BY <2>2, <2>3, DeltaIndex DEF IInv, Delta, IsInjective
  <2> QED
    BY <2>4, <2>5, Zenon
<1> QED
  BY <1>1, Invariance, PTL

(* The state that end_backup finds when it has locked the database for     *)
(* write is the one that it found before: LCK_backup_end keeps other calls *)
(* of end_backup out in between.                                           *)
THEOREM SecondCheckHoldsAlways == ~HalfWrites => (Spec => []SecondCheckHolds)
<1>1. IInv => SecondCheckHolds
  <2> SUFFICES ASSUME IInv, NEW p \in Processes, pc[p] = "state1" PROVE Mergeable(p)
    BY Zenon DEF SecondCheckHolds
  <2>1. p \in fresh
    BY Zenon DEF IInv, Locked, Writing
  <2>2. backup_state[p] = H.state
    BY <2>1, Zenon DEF IInv, StateKnown
  <2> QED
    BY <2>2, Zenon DEF IInv, Phase, Mergeable
<1> QED
  BY <1>1, Invariance, PTL

(* The main file does not change while nbackup copies it: no process       *)
(* writes a page there between the write of the header that stalls the     *)
(* file and the one that starts the merge.                                 *)
THEOREM MainIsFrozenHolds == ~HalfWrites => (Spec => MainIsFrozen)
<1> DEFINE Frozen == H.state = nbak_state_stalled /\ H'.state = nbak_state_stalled => main' = main
<1>1. IInv /\ [Next]_vars => Frozen
  <2> SUFFICES ASSUME IInv, [Next]_vars, H.state = nbak_state_stalled,
                        H'.state = nbak_state_stalled
               PROVE  main' = main
    OBVIOUS
  <2>1. H.state # nbak_state_normal /\ H.state # nbak_state_merge
    BY Zenon DEF nbak_state_normal, nbak_state_stalled, nbak_state_merge
  <2>2. ASSUME NEW p \in Processes, NEW g \in Pages, write_page(p, g) PROVE main' = main
    <3>1. g \in dirty[p]
      BY <2>2, Zenon DEF write_page
    <3>2. p \in fresh /\ pc[p] # "main1"
      BY <3>1, Dirtying, Zenon DEF Writing
    <3>3. backup_state[p] = nbak_state_stalled
      BY <2>1, <3>2, Zenon DEF IInv, StateKnown
    <3> QED
      BY <2>2, <3>3, Zenon DEF write_page, WritesMain
  <2>3. ASSUME NEW p \in Processes, write_page_main(p) PROVE main' = main
    BY <2>1, <2>3, Zenon DEF write_page_main, IInv, Locked
  <2>4. ASSUME NEW p \in Processes, begin_backup_header(p) PROVE main' = main
    BY <2>1, <2>4, Zenon DEF begin_backup_header, At, IInv, Phase
  <2>5. ASSUME NEW p \in Processes, end_backup_merge_main(p) PROVE main' = main
    <3>1. buffer[p][HEADER_PAGE].state = nbak_state_merge
      BY <2>5, Zenon DEF end_backup_merge_main, At, IInv, MergeHeader
    <3>2. H' = buffer[p][HEADER_PAGE]
      BY <2>5, PagesAssumption, Zenon DEF end_backup_merge_main, IInv, Types, H
    <3> QED
      BY <2>1, <3>1, <3>2, Zenon
  <2>6. ASSUME NEW p \in Processes, end_backup_normal(p) PROVE main' = main
    <3>1. pc[p] = "state3"
      BY <2>6, Zenon DEF end_backup_normal, At
    <3> QED
      BY <2>1, <3>1, Zenon DEF IInv, Phase, Merging
  <2>7. ASSUME NEW p \in Processes, PageAction(p) PROVE main' = main
    BY <2>2, <2>3, <2>7, Zenon DEF PageAction, CCH_fetch_page, CCH_fetch_page_aborts, CCH_mark,
       CCH_mark_unmapped, Evict, allocate_difference_page, files
  <2>8. ASSUME NEW p \in Processes, BeginAction(p) PROVE main' = main
    BY <2>4, <2>8, Zenon DEF BeginAction, begin_backup, lock_clean_database, begin_backup_create,
       begin_backup_returns, begin_backup_fails, files
  <2>9. ASSUME NEW p \in Processes, EndAction(p) PROVE main' = main
    BY <2>5, <2>6, <2>9, Zenon DEF EndAction, attach, end_backup, lock_clean_database,
       end_backup_merge,
       end_backup_pages, end_backup_merged, end_backup_page, end_backup_unlink, files
  <2> QED
    BY <2>7, <2>8, <2>9, Zenon DEF Next, actualize_state, crash, vars, files
<1>2. Frozen => [main[HEADER_PAGE].state = nbak_state_stalled
                   /\ main'[HEADER_PAGE].state = nbak_state_stalled => main' = main]_vars
  BY Zenon DEF H
<1> QED
  BY <1>1, <1>2, Invariance, PTL DEF Spec, MainIsFrozen

-----------------------------------------------------------------------------
(* The storage that the page cache sees. *)
Version(p, g) == IF buffer[p][g] = NULL THEN NULL ELSE buffer[p][g].ver

(* What a step may do to the pages that it is not about. *)
Kept(q, h) == Version(q, h)' = Version(q, h) \/ (h \notin dirty[q] /\ Version(q, h)' = NULL)

(* A version is not a missing page. *)
LEMMA VersionOf ==
  ASSUME Types, NEW p \in Processes, NEW g \in Pages
  PROVE  /\ buffer[p][g] = NULL <=> Version(p, g) = NULL
         /\ buffer[p][g] # NULL => buffer[p][g] \in Page /\ Version(p, g) = buffer[p][g].ver
<1>1. CASE buffer[p][g] # NULL
  <2>1. buffer[p][g] \in Page
    BY <1>1 DEF Types
  <2>2. buffer[p][g].ver \in Nat
    BY <2>1, Zenon DEF Page
  <2> QED
    BY <1>1, <2>1, <2>2, PagesAssumption, Zenon DEF Version
<1> QED
  BY <1>1, Zenon DEF Version

(* The version that the files give a page is that of its current content. *)
LEMMA StableIs ==
  ASSUME IInv, NEW g \in Pages, NEW c, Current(g, c)
  PROVE  Stable(g) = c.ver
<1>1. CASE H.state = nbak_state_normal
  BY <1>1, Zenon DEF Current, Stable, H
<1>2. CASE H.state # nbak_state_normal
  <2>1. delta \in Seq(Entry)
    BY <1>2, Zenon DEF IInv, Delta
  <2>2. CASE InDelta(g)
    <3> DEFINE i == get_page_index(DeltaPages, g)
    <3>1. g \in Range(DeltaPages) /\ i \in DOMAIN delta /\ delta[i].page = g
      BY <2>1, <2>2, DeltaIndex, Zenon
    <3> HIDE DEF i
    <3>2. c = IF delta[i].content = Undefined THEN main[g] ELSE delta[i].content
      BY <1>2, <2>2, <3>1, Zenon DEF Current
    <3> QED
      BY <1>2, <3>1, <3>2, Zenon DEF Stable, H, i
  <2>3. CASE ~InDelta(g)
    <3>1. g \notin Range(DeltaPages) /\ c = main[g]
      BY <2>1, <2>3, DeltaIndex, Zenon DEF Current
    <3> QED
      BY <3>1, Zenon DEF Stable
  <2> QED
    BY <2>2, <2>3, Zenon
<1> QED
  BY <1>1, <1>2, Zenon

(* The same after the step. *)
LEMMA StableIsNext ==
  ASSUME NEW g \in Pages, NEW c
  PROVE  (IInv /\ Current(g, c) => Stable(g) = c.ver)'
<1>1. IInv /\ Current(g, c) => Stable(g) = c.ver
  BY StableIs, Zenon
<1> QED
  BY <1>1, PTL

(* Every page has a content. *)
LEMMA HasContent ==
  ASSUME IInv, NEW g \in Pages
  PROVE  \E c : Current(g, c)
<1>1. CASE H.state # nbak_state_normal /\ InDelta(g)
  <2>1. PICK i \in DOMAIN delta : delta[i].page = g
    BY <1>1, Zenon DEF InDelta
  <2>2. \A j \in DOMAIN delta : delta[j].page = g => j = i
    BY <1>1, <2>1, Zenon DEF IInv, Delta
  <2> WITNESS IF delta[i].content = Undefined THEN main[g] ELSE delta[i].content
  <2> QED
    BY <1>1, <2>1, <2>2, Zenon DEF Current
<1>2. CASE ~(H.state # nbak_state_normal /\ InDelta(g))
  <2> WITNESS main[g]
  <2> QED
    BY <1>2, Zenon DEF Current
<1> QED
  BY <1>1, <1>2, Zenon

(* A page keeps its version when its current content keeps it. *)
LEMMA StableKept ==
  ASSUME IInv, IInv', NEW g \in Pages, \A c : Current(g, c) => Current(g, c)'
  PROVE  Stable(g)' = Stable(g)
<1>1. PICK c : Current(g, c)
  BY HasContent, Zenon
<1>2. Stable(g) = c.ver
  BY <1>1, StableIs, Zenon
<1>3. Stable(g)' = c.ver
  BY <1>1, StableIsNext, Zenon
<1> QED
  BY <1>2, <1>3, Zenon

(* A step that leaves the files alone keeps all versions. *)
LEMMA StableSame ==
  ASSUME UNCHANGED <<main, delta>>
  PROVE  \A g \in Pages : Stable(g)' = Stable(g)
<1> QED
  BY Zenon DEF Stable, DeltaPages

(* The steps of the storage. *)
LEMMA StoreEvicts ==
  ASSUME \A h \in Pages : Stable(h)' = Stable(h), UNCHANGED <<dirty, changes>>,
         \A q \in Processes, h \in Pages : Kept(q, h)
  PROVE  Store!Next
<1> QED
  BY Zenon DEF Store!Next, Store!Evict, Kept, Version

(* A page is read into a cache: a step of the abstract storage. *)
LEMMA StoreReads ==
  ASSUME \A h \in Pages : Stable(h)' = Stable(h), UNCHANGED <<dirty, changes>>,
         NEW p \in Processes, NEW g \in Pages,
         Version(p, g) = NULL, Clean(g), Version(p, g)' = Stable(g),
         \A q \in Processes, h \in Pages : q # p \/ h # g => Kept(q, h)
  PROVE  Store!Next
<1>1. Store!OthersKept(p, g)
  BY Zenon DEF Store!OthersKept, Kept, Version
<1>2. Store!Read(p, g)
  BY <1>1, Zenon DEF Store!Read, Store!Clean, Clean, Version
<1> QED
  BY <1>2, Zenon DEF Store!Next

(* A page is marked: a step of the abstract storage. *)
LEMMA StoreDirties ==
  ASSUME \A h \in Pages : Stable(h)' = Stable(h),
         NEW p \in Processes, NEW g \in Pages,
         dirty \in [Processes -> SUBSET Pages], dirty' \in [Processes -> SUBSET Pages],
         dirty'[p] = dirty[p] \cup {g}, \A q \in Processes \ {p} : dirty'[q] = dirty[q],
         \A q \in Processes \ {p} : g \notin dirty[q] /\ Version(q, g)' = NULL,
         \A q \in Processes, h \in Pages : q # p \/ h # g => Kept(q, h),
         \/ /\ Version(p, g) # NULL /\ (Clean(g) => Version(p, g) = Stable(g))
            /\ changes' = changes + 1 /\ Version(p, g)' = changes'
         \/ /\ Version(p, g)' = IF g \in dirty[p] THEN Version(p, g) ELSE Stable(g)
            /\ UNCHANGED changes
  PROVE  Store!Next
<1>1. Store!OthersKept(p, g)
  BY Zenon DEF Store!OthersKept, Kept, Version
<1>2. dirty' = [dirty EXCEPT ![p] = @ \cup {g}]
  OBVIOUS
<1>3. Store!Dirty(p, g)
  BY <1>1, <1>2, Zenon DEF Store!Dirty, Version
<1>4. Store!Change(p, g) \/ Store!Mark(p, g)
  BY <1>3, Zenon DEF Store!Change, Store!Mark, Store!Clean, Clean, Version
<1> QED
  BY <1>4, Zenon DEF Store!Next

(* A dirty page is written: a step of the abstract storage. *)
LEMMA StoreWrites ==
  ASSUME NEW p \in Processes, NEW g \in dirty[p], g \in Pages,
         Stable(g)' = Version(p, g), \A h \in Pages \ {g} : Stable(h)' = Stable(h),
         dirty' \in {dirty, [dirty EXCEPT ![p] = @ \ {g}]}, UNCHANGED <<buffer, changes>>
  PROVE  Store!Next
<1>1. Store!Write(p, g)
  BY Zenon DEF Store!Write, Version
<1> QED
  BY <1>1, Zenon DEF Store!Next

(* Steps that the page cache does not see. *)
LEMMA QuietStep ==
  ASSUME UNCHANGED <<main, delta, buffer, dirty, changes>>
  PROVE  Store!Next
<1>1. \A q \in Processes, h \in Pages : Kept(q, h)
  BY Zenon DEF Kept, Version
<1> QED
  BY <1>1, StableSame, StoreEvicts, Zenon

(* A page taken for write as it was read. *)
LEMMA HeldStep ==
  ASSUME IInv, IInv', NEW p \in Processes, NEW g \in Pages, NEW new \in Page,
         TakePage(p, g, new), UNCHANGED <<dirty, changes>>,
         \A q \in Processes \ {p} : g \notin dirty[q],
         buffer[p][g] # NULL => new.ver = buffer[p][g].ver,
         buffer[p][g] = NULL => new.ver = Stable(g),
         \A h \in Pages : Stable(h)' = Stable(h)
  PROVE  Store!Next
<1>1. /\ buffer'[p][g] = new /\ new # NULL
      /\ \A q \in Processes \ {p} : buffer'[q][g] = NULL
      /\ \A q \in Processes, h \in Pages \ {g} : buffer'[q][h] = buffer[q][h]
  BY TakenPage, PageNotNull DEF IInv
<1>2. Version(p, g)' = new.ver
  BY <1>1, Zenon DEF Version
<1>3. \A q \in Processes, h \in Pages : q # p \/ h # g => Kept(q, h)
  BY <1>1, Zenon DEF Kept, Version
<1>4. CASE buffer[p][g] = NULL
  <2>1. g \notin dirty[p]
    BY <1>4, Zenon DEF IInv, Cached
  <2> QED
    BY <1>2, <1>3, <1>4, <2>1, StoreReads, Zenon DEF Clean, Version
<1>5. CASE buffer[p][g] # NULL
  <2>1. Kept(p, g)
    BY <1>2, <1>5, Zenon DEF Kept, Version
  <2> QED
    BY <1>3, <2>1, StoreEvicts, Zenon
<1> QED
  BY <1>4, <1>5, Zenon

(* A fetch gives the page as it was last written. *)
LEMMA CCH_fetch_page_Reads ==
  ASSUME IInv, NEW p \in Processes, NEW g \in Pages, CCH_fetch_page(p, g)
  PROVE  Store!Next
<1>1. /\ pc[p] = "idle" /\ buffer[p][g] = NULL /\ Known(p) /\ Readable(p, g)
      /\ buffer' = [buffer EXCEPT ![p][g] = ReadPage(p, g)]
      /\ UNCHANGED <<main, delta, dirty, changes>>
  BY Zenon DEF CCH_fetch_page, At, files, bounds
<1>2. ReadPage(p, g) \in Page /\ Stable(g) = ReadPage(p, g).ver
  BY <1>1, Fetched, StableIs, Zenon
<1>3. buffer'[p][g] = ReadPage(p, g)
      /\ \A q \in Processes, h \in Pages : q # p \/ h # g => buffer'[q][h] = buffer[q][h]
  BY <1>1, Zenon DEF IInv, Types
<1>4. Clean(g)
  <2>1. g \notin dirty[p]
    BY <1>1, Zenon DEF IInv, Cached
  <2> QED
    BY <1>1, <2>1, Zenon DEF Readable, Clean
<1>5. /\ Version(p, g) = NULL /\ Version(p, g)' = Stable(g)
      /\ \A q \in Processes, h \in Pages : q # p \/ h # g => Kept(q, h)
  BY <1>1, <1>2, <1>3, PageNotNull, SMTT(30) DEF Version, Kept
<1> QED
  BY <1>1, <1>4, <1>5, StableSame, StoreReads, Zenon

(* A page leaves a cache. *)
LEMMA Evict_Evicts ==
  ASSUME IInv, NEW p \in Processes, NEW g \in Pages, Evict(p, g)
  PROVE  Store!Next
<1>1. /\ g \notin dirty[p] /\ buffer' = [buffer EXCEPT ![p][g] = NULL]
      /\ UNCHANGED <<main, delta, dirty, changes>>
  BY Zenon DEF Evict, files, bounds
<1>2. buffer'[p][g] = NULL
      /\ \A q \in Processes, h \in Pages : q # p \/ h # g => buffer'[q][h] = buffer[q][h]
  BY <1>1, Zenon DEF IInv, Types
<1>3. \A q \in Processes, h \in Pages : Kept(q, h)
  BY <1>1, <1>2 DEF Kept, Version
<1> QED
  BY <1>1, <1>3, StableSame, StoreEvicts, Zenon

(* A change of a page that is read as it was written. *)
LEMMA ChangeStep ==
  ASSUME IInv, NEW p \in Processes, p \in fresh, pc[p] # "main1", NEW g \in Pages,
         buffer[p][g] # NULL, Dirtied(p, g, [buffer[p][g] EXCEPT !.ver = changes + 1]),
         changes' = changes + 1, \A q \in Processes \ {p} : g \notin dirty[q],
         \A h \in Pages : Stable(h)' = Stable(h)
  PROVE  Store!Next
<1> DEFINE page == [buffer[p][g] EXCEPT !.ver = changes + 1]
<1>1. page \in Page /\ page.ver = changes + 1 /\ (g = HEADER_PAGE => HeaderCopy(page))
  <2>1. buffer[p][g] \in Page /\ changes + 1 \in Nat
    BY DEF IInv, Types
  <2>2. /\ page \in Page /\ page.ver = changes + 1
        /\ page.scn = buffer[p][g].scn /\ page.state = buffer[p][g].state
    BY <2>1, Zenon DEF Page
  <2>3. g = HEADER_PAGE => HeaderCopy(buffer[p][g])
    BY Zenon DEF IInv, Headers
  <2> QED
    BY <2>2, <2>3, Zenon DEF HeaderCopy
<1>2. Dirtied(p, g, page)
  OBVIOUS
<1> HIDE DEF page
<1>3. /\ buffer'[p][g] # NULL /\ buffer'[p][g].ver = page.ver
      /\ \A q \in Processes \ {p} : buffer'[q][g] = NULL
      /\ \A q \in Processes, h \in Pages \ {g} : buffer'[q][h] = buffer[q][h]
      /\ dirty' \in [Processes -> SUBSET Pages]
      /\ dirty'[p] = dirty[p] \cup {g} /\ \A q \in Processes \ {p} : dirty'[q] = dirty[q]
  BY <1>1, <1>2, DirtyPage
<1>4. /\ Version(p, g)' = changes' /\ \A q \in Processes \ {p} : Version(q, g)' = NULL
      /\ \A q \in Processes, h \in Pages : q # p \/ h # g => Kept(q, h)
  BY <1>1, <1>3 DEF Version, Kept
<1>5. Version(p, g) # NULL
  BY VersionOf, Zenon DEF IInv
<1>6. Clean(g) => Version(p, g) = Stable(g)
  <2> SUFFICES ASSUME Clean(g) PROVE Version(p, g) = Stable(g)
    OBVIOUS
  <2>1. Current(g, buffer[p][g])
    BY Zenon DEF IInv, Cached
  <2> QED
    BY <2>1, StableIs, Zenon DEF Version
<1>7. dirty \in [Processes -> SUBSET Pages]
  BY Zenon DEF IInv, Types
<1> QED
  BY <1>3, <1>4, <1>5, <1>6, <1>7, StoreDirties, SMTT(30)

(* A page is marked, with a place or without need of one. *)
LEMMA CCH_mark_Changes ==
  ASSUME IInv, NEW p \in Processes, NEW g \in Pages, CCH_mark(p, g)
  PROVE  Store!Next
<1>1. /\ p \in fresh /\ pc[p] # "main1" /\ buffer[p][g] # NULL
      /\ Dirtied(p, g, [buffer[p][g] EXCEPT !.ver = changes + 1]) /\ changes' = changes + 1
      /\ \A q \in Processes \ {p} : g \notin dirty[q]
      /\ UNCHANGED <<main, delta>>
  BY Zenon DEF CCH_mark, At, Readable, files
<1>2. \A h \in Pages : Stable(h)' = Stable(h)
  BY <1>1, StableSame, Zenon
<1> QED
  BY <1>1, <1>2, ChangeStep, Zenon

(* A page is marked when it has got its place. *)
LEMMA allocate_difference_page_Changes ==
  ASSUME IInv, IInv', NEW p \in Processes, allocate_difference_page(p)
  PROVE  Store!Next
<1>1. pc[p] = "mark" /\ UNCHANGED main
  BY Zenon DEF allocate_difference_page, At
<1>2. PICK g \in todo[p] :
        /\ Dirtied(p, g, [buffer[p][g] EXCEPT !.ver = changes + 1])
        /\ \/ delta' = delta
           \/ /\ g \notin Range(actualize_alloc(p))
              /\ delta' = Append(delta, [page |-> g, content |-> Undefined])
  BY Zenon DEF allocate_difference_page
<1>3. g \in Pages /\ changes' = changes + 1
  BY Zenon DEF IInv, Types, allocate_difference_page
<1>4. /\ p \in fresh /\ buffer[p][g] # NULL /\ \A q \in Processes \ {p} : g \notin dirty[q]
  BY <1>1, <1>2, <1>3, Zenon DEF IInv, Locked, Cached, Reading
<1>5. ASSUME NEW h \in Pages PROVE Stable(h)' = Stable(h)
  <2>1. CASE delta' = delta
    BY <1>1, <2>1, StableSame, Zenon
  <2>2. CASE g \notin Range(actualize_alloc(p)) /\ delta' =
               Append(delta, [page |-> g, content |-> Undefined])
    <3>1. /\ H' = H /\ H.state = nbak_state_stalled /\ H.state # nbak_state_normal
      BY <1>1, Zenon DEF H, IInv, Phase, nbak_state_stalled, nbak_state_normal
    <3>2. delta \in Seq(Entry) /\ actualize_alloc(p) = DeltaPages
      BY <1>4, <3>1, Knowing, Zenon
    <3>3. ~InDelta(g)
      BY <2>2, <3>2, DeltaIndex, Zenon
    <3>4. /\ \A i \in DOMAIN delta : i \in DOMAIN delta' /\ delta'[i] = delta[i]
          /\ \A i \in DOMAIN delta' :
               i \in DOMAIN delta \/ (delta'[i].page = g /\ delta'[i].content = Undefined)
          /\ \A k : InDelta(k)' <=> InDelta(k) \/ k = g
      <4>1. \A i, j \in DOMAIN delta : delta[i].page = delta[j].page => i = j
        BY <3>1, Zenon DEF IInv, Delta
      <4>2. Types
        BY Zenon DEF IInv
      <4> QED
        BY <1>3, <2>2, <3>2, <3>3, <4>1, <4>2, NewPlace, Zenon
    <3>5. \A c : Current(h, c) => Current(h, c)'
      <4>1. CASE h = g
        BY <1>1, <3>1, <3>3, <3>4, <4>1, Zenon DEF Current, InDelta
      <4>2. CASE h # g
        BY <1>1, <3>1, <3>4, <4>2, Zenon DEF Current
      <4> QED
        BY <4>1, <4>2, Zenon
    <3> QED
      BY <3>5, StableKept, Zenon
  <2> QED
    BY <1>2, <2>1, <2>2, Zenon
<1> QED
  BY <1>1, <1>2, <1>3, <1>4, <1>5, ChangeStep, Zenon

(* Which file write_page leaves a page in. *)
LEMMA write_page_Files ==
  ASSUME IInv, NEW p \in Processes, NEW g \in Pages, write_page(p, g)
  PROVE  \/ /\ delta' = delta /\ main' = [main EXCEPT ![g] = buffer[p][g]]
            /\ H.state # nbak_state_normal => H.state = nbak_state_merge /\ ~InDelta(g)
         \/ /\ H.state # nbak_state_normal /\ main' = main
            /\ \E i \in DOMAIN delta :
                 delta[i].page = g /\ delta' = [delta EXCEPT ![i].content = buffer[p][g]]
<1>1. g \in dirty[p] /\ ToDelta(p, g, buffer[p][g])
  BY Zenon DEF write_page
<1>2. p \in fresh /\ pc[p] # "main1"
  BY <1>1, Dirtying, Zenon DEF Writing
<1>3. backup_state[p] = H.state \/ (backup_state[p] = nbak_state_unknown /\ H.state =
        nbak_state_normal)
  BY <1>2, Knowing, Zenon DEF Known
<1>4. H.state # nbak_state_normal =>
        /\ g \in Range(alloc_table[p]) =>
             /\ get_page_index(alloc_table[p], g) \in DOMAIN delta
             /\ delta[get_page_index(alloc_table[p], g)].page = g
        /\ g \notin Range(alloc_table[p]) => ~InDelta(g) /\ H.state # nbak_state_stalled
  BY <1>1, <1>2, Knowing, PrefixRange, Zenon DEF IInv, Mapped
<1>5. H.state \in States
  BY PagesAssumption, Zenon DEF IInv, Types, H, Page
<1>6. CASE WritesDelta(p, g)
  <2>1. /\ H.state # nbak_state_normal /\ g \in Range(alloc_table[p])
        /\ delta' = [delta EXCEPT ![get_page_index(alloc_table[p], g)].content = buffer[p][g]]
    BY <1>1, <1>3, <1>4, <1>6, Zenon DEF WritesDelta, ToDelta, nbak_state_normal,
       nbak_state_stalled,
       nbak_state_merge, nbak_state_unknown
  <2>2. main' = main
    BY <1>6, Zenon DEF write_page, WritesMain
  <2> QED
    BY <1>4, <2>1, <2>2, Zenon
<1>7. CASE ~WritesDelta(p, g)
  <2>1. /\ H.state # nbak_state_normal =>
             H.state = nbak_state_merge /\ g \notin Range(alloc_table[p])
        /\ backup_state[p] # nbak_state_stalled
    BY <1>3, <1>5, <1>7, Zenon DEF WritesDelta, States
  <2>2. delta' = delta /\ main' = [main EXCEPT ![g] = buffer[p][g]]
    BY <1>7, <2>1, Zenon DEF write_page, ToDelta, WritesMain
  <2> QED
    BY <1>4, <2>1, <2>2, Zenon
<1> QED
  BY <1>6, <1>7, Zenon

(* A write to the main file, or to the delta while it is stalled, or the   *)
(* first of two writes.                                                    *)
LEMMA write_page_Writes ==
  ASSUME IInv, IInv', NEW p \in Processes, NEW g \in Pages, write_page(p, g)
  PROVE  Store!Next
<1>0. PICK c : c = buffer[p][g]
  OBVIOUS
<1>1. g \in dirty[p] /\ UNCHANGED <<buffer, changes>>
  BY Zenon DEF write_page, bounds
<1>2. dirty' \in {dirty, [dirty EXCEPT ![p] = @ \ {g}]}
  BY Zenon DEF write_page, Cleaned
<1>3. c \in Page /\ (g = HEADER_PAGE => HeaderCopy(c)) /\ c # NULL
  BY <1>0, <1>1, Dirtying, PageNotNull, Zenon
<1>4. main \in [Pages -> Page] /\ c # Undefined
  <2>1. c # Undefined
    BY <1>3 DEF Undefined, Page
  <2> QED
    BY <2>1, Zenon DEF IInv, Types
<1>5. ASSUME delta' = delta, main' = [main EXCEPT ![g] = c],
             H.state # nbak_state_normal => H.state = nbak_state_merge /\ ~InDelta(g)
      PROVE  Current(g, c)' /\ \A h \in Pages \ {g} : Stable(h)' = Stable(h)
  <2>1. main'[g] = c /\ \A h \in Pages \ {g} : main'[h] = main[h]
    BY <1>4, <1>5, Zenon
  <2>2. H'.state = H.state
    <3>1. H.state = nbak_state_normal \/ H.state = nbak_state_merge
      BY <1>5, Zenon
    <3> QED
      BY <1>3, <2>1, <3>1, PagesAssumption, Zenon DEF HeaderCopy, H
  <2>3. \A h : InDelta(h)' <=> InDelta(h)
    BY <1>5, Zenon DEF InDelta
  <2>4. Current(g, c)'
    BY <1>3, <1>5, <2>1, <2>2, <2>3, Zenon DEF Current
  <2>5. ASSUME NEW h \in Pages \ {g} PROVE Stable(h)' = Stable(h)
    <3>1. \A d : Current(h, d) => Current(h, d)'
      BY <1>5, <2>1, <2>2, <2>3, Zenon DEF Current
    <3> QED
      BY <3>1, StableKept, Zenon
  <2> QED
    BY <2>4, <2>5, Zenon
<1>6. ASSUME H.state # nbak_state_normal, main' = main,
             \E i \in DOMAIN delta :
               delta[i].page = g /\ delta' = [delta EXCEPT ![i].content = c]
      PROVE  Current(g, c)' /\ \A h \in Pages \ {g} : Stable(h)' = Stable(h)
  <2>1. PICK i \in DOMAIN delta : delta[i].page = g /\ delta' = [delta EXCEPT ![i].content = c]
    BY <1>6, Zenon
  <2>2. /\ delta \in Seq(Entry) /\ H' = H
        /\ \A j \in DOMAIN delta : delta[j].page = g => j = i
    BY <1>6, <2>1, Zenon DEF IInv, Delta, H
  <2>3. /\ DOMAIN delta' = DOMAIN delta
        /\ \A j \in DOMAIN delta :
             /\ delta'[j].page = delta[j].page
             /\ delta'[j].content = IF j = i THEN c ELSE delta[j].content
        /\ \A h : InDelta(h)' <=> InDelta(h)
    BY <1>3, <2>1, <2>2, Replaced, Zenon
  <2>4. Current(g, c)'
    <3>1. InDelta(g)
      BY <2>1, Zenon DEF InDelta
    <3> QED
      BY <1>3, <1>4, <1>6, <2>1, <2>2, <2>3, <3>1, Zenon DEF Current
  <2>5. ASSUME NEW h \in Pages \ {g} PROVE Stable(h)' = Stable(h)
    <3>1. \A d : Current(h, d) => Current(h, d)'
      BY <1>6, <2>1, <2>2, <2>3, Zenon DEF Current
    <3> QED
      BY <3>1, StableKept, Zenon
  <2> QED
    BY <2>4, <2>5, Zenon
<1>7. Current(g, c)' /\ \A h \in Pages \ {g} : Stable(h)' = Stable(h)
  BY <1>0, <1>5, <1>6, write_page_Files
<1>8. Stable(g)' = c.ver
  BY <1>3, <1>7, StableIsNext, Zenon
<1>9. Version(p, g) = c.ver
  BY <1>0, <1>3, Zenon DEF Version
<1> QED
  BY <1>1, <1>2, <1>7, <1>8, <1>9, StoreWrites, Zenon

(* The second write of a page during a merge is the one that counts. *)
LEMMA write_page_main_Writes ==
  ASSUME IInv, IInv', NEW p \in Processes, write_page_main(p)
  PROVE  Store!Next
<1>0. PICK g, c : g = half[p] /\ c = buffer[p][g]
  OBVIOUS
<1>1. /\ g # NULL /\ main' = [main EXCEPT ![g] = c] /\ Cleaned(p, g)
      /\ UNCHANGED <<delta, buffer, changes>>
  BY <1>0, Zenon DEF write_page_main, bounds
<1>2. g \in dirty[p] /\ g \in Pages /\ H.state = nbak_state_merge /\ H.state # nbak_state_normal
  BY <1>0, <1>1, Zenon DEF IInv, Types, Locked, nbak_state_merge, nbak_state_normal
<1>3. c \in Page /\ (g = HEADER_PAGE => HeaderCopy(c)) /\ c # NULL
  BY <1>0, <1>2, Dirtying, PageNotNull, Zenon
<1>4. InDelta(g) /\ Current(g, c)
  BY <1>0, <1>2, Zenon DEF IInv, Cached
<1>5. main'[g] = c /\ \A h \in Pages \ {g} : main'[h] = main[h]
  BY <1>1, <1>2, Zenon DEF IInv, Types
<1>6. H'.state = H.state
  BY <1>2, <1>3, <1>5, PagesAssumption, Zenon DEF HeaderCopy, H
<1>7. \A h : InDelta(h)' <=> InDelta(h)
  BY <1>1, Zenon DEF InDelta
<1>8. ASSUME NEW h \in Pages PROVE Stable(h)' = Stable(h)
  <2>1. \A d : Current(h, d) => Current(h, d)'
    <3>1. CASE h = g
      <4> SUFFICES ASSUME NEW d, Current(g, d) PROVE Current(g, d)'
        BY <3>1, Zenon
      <4>1. d = c
        BY <1>2, <1>4, Zenon DEF Current, InDelta
      <4> QED
        BY <1>1, <1>2, <1>4, <1>5, <1>6, <1>7, <4>1, Zenon DEF Current
    <3>2. CASE h # g
      BY <1>1, <1>2, <1>5, <1>6, <1>7, <3>2, Zenon DEF Current
    <3> QED
      BY <3>1, <3>2, Zenon
  <2> QED
    BY <2>1, StableKept, Zenon
<1>9. Stable(g)' = c.ver
  BY <1>2, <1>4, <1>8, StableIs, Zenon
<1>10. Version(p, g) = c.ver
  BY <1>0, <1>3, Zenon DEF Version
<1>11. dirty' \in {dirty, [dirty EXCEPT ![p] = @ \ {g}]}
  BY <1>1, Zenon DEF Cleaned
<1> QED
  BY <1>1, <1>2, <1>8, <1>9, <1>10, <1>11, StoreWrites, Zenon

(* The difference file comes and goes in normal state. *)
LEMMA NormalStep ==
  ASSUME H.state = nbak_state_normal, UNCHANGED <<main, buffer, dirty, changes>>
  PROVE  Store!Next
<1>1. \A h \in Pages : Stable(h)' = Stable(h)
  BY Zenon DEF Stable, H
<1>2. \A q \in Processes, h \in Pages : Kept(q, h)
  BY Zenon DEF Kept, Version
<1> QED
  BY <1>1, <1>2, StoreEvicts, Zenon

(* A new header has the other contents of the one that it replaces. *)
LEMMA HeaderStep ==
  ASSUME IInv, IInv', NEW p \in Processes, pc[p] \in Writing, pc[p] # "main1", Known(p),
         NEW header \in Page, TakePage(p, HEADER_PAGE, header), header.ver = Header(p).ver,
         Current(HEADER_PAGE, header)' \/ Stable(HEADER_PAGE)' = Stable(HEADER_PAGE),
         \A h \in Pages \ {HEADER_PAGE} : Stable(h)' = Stable(h), UNCHANGED <<dirty, changes>>
  PROVE  Store!Next
<1>1. HEADER_PAGE \in Pages /\ Stable(HEADER_PAGE) = header.ver
  BY HeaderRead, StableIs, PagesAssumption, Zenon
<1>2. Stable(HEADER_PAGE)' = Stable(HEADER_PAGE)
  BY <1>1, StableIsNext, Zenon
<1>3. \A q \in Processes : HEADER_PAGE \notin dirty[q]
  BY Writer, Zenon
<1>4. buffer[p][HEADER_PAGE] # NULL => header.ver = buffer[p][HEADER_PAGE].ver
  BY Zenon DEF Header
<1> QED
  BY <1>1, <1>2, <1>3, <1>4, HeldStep, Zenon

(* The beginning of a backup changes no version of a page. *)
LEMMA begin_backup_header_Holds ==
  ASSUME IInv, IInv', NEW p \in Processes, begin_backup_header(p)
  PROVE  Store!Next
<1>1. PICK header : header = [Header(p) EXCEPT !.scn = @ + 1, !.state = nbak_state_stalled]
  OBVIOUS
<1>2. /\ pc[p] = "created" /\ main' = [main EXCEPT ![HEADER_PAGE] = header]
      /\ TakePage(p, HEADER_PAGE, header) /\ UNCHANGED <<delta, dirty, changes>>
  BY <1>1, Zenon DEF begin_backup_header, At, bounds
<1>3. /\ H.state = nbak_state_normal /\ delta = <<>> /\ Known(p)
      /\ pc[p] \in Writing /\ pc[p] # "main1"
  BY <1>2, Writer, Zenon DEF IInv, Phase, Known, Writing, nbak_state_normal, nbak_state_unknown
<1>4. Header(p) \in Page
  BY <1>3, HeaderRead, Zenon
<1>5. header \in Page
  <2>1. Header(p).scn + 1 \in Nat /\ nbak_state_stalled \in States
    BY <1>4 DEF Page, States
  <2> QED
    BY <1>1, <1>4, <2>1, Zenon DEF Page
<1>6. header.ver = Header(p).ver
  BY <1>1, <1>4, Zenon DEF Page
<1>7. /\ main'[HEADER_PAGE] = header
      /\ \A h \in Pages \ {HEADER_PAGE} : main'[h] = main[h]
  BY <1>2, PagesAssumption, Zenon DEF IInv, Types
<1>8. \A h : ~InDelta(h)'
  BY <1>2, <1>3 DEF InDelta
<1>9. Current(HEADER_PAGE, header)'
  BY <1>7, <1>8, Zenon DEF Current
<1>10. ASSUME NEW h \in Pages \ {HEADER_PAGE} PROVE Stable(h)' = Stable(h)
  <2>1. \A c : Current(h, c) => Current(h, c)'
    BY <1>3, <1>7, <1>8, Zenon DEF Current
  <2> QED
    BY <2>1, StableKept, Zenon
<1> QED
  BY <1>2, <1>3, <1>5, <1>6, <1>9, <1>10, HeaderStep, Zenon

(* The header of a merge in the delta changes no version of a page. *)
LEMMA end_backup_merge_Holds ==
  ASSUME IInv, IInv', NEW p \in Processes, end_backup_merge(p)
  PROVE  Store!Next
<1>1. PICK header, i :
        /\ header = [Header(p) EXCEPT !.scn = current_scn[p] + 1, !.state = nbak_state_merge]
        /\ i = get_page_index(lock_alloc(p), HEADER_PAGE)
  OBVIOUS
<1>2. /\ pc[p] = "state1" /\ UNCHANGED <<main, dirty, changes>>
      /\ TakePage(p, HEADER_PAGE, header)
      /\ delta' = IF i = 0 THEN delta ELSE [delta EXCEPT ![i].content = header]
  BY <1>1, Zenon DEF end_backup_merge, At, bounds
<1>3. /\ H' = H /\ H.state # nbak_state_normal /\ Known(p) /\ p \in fresh
      /\ pc[p] \in Writing /\ pc[p] # "main1"
  <2>1. H' = H /\ H.state # nbak_state_normal /\ pc[p] \in Writing /\ pc[p] # "main1"
    BY <1>2, Zenon DEF H, IInv, Phase, Writing, nbak_state_normal, nbak_state_stalled,
       nbak_state_merge
  <2>2. p \in fresh
    BY <2>1, Writer, Zenon
  <2> QED
    BY <2>1, <2>2, Knowing, Zenon
<1>4. Header(p) \in Page /\ Current(HEADER_PAGE, Header(p))
  BY <1>3, HeaderRead, Zenon
<1>5. header \in Page
  <2>1. current_scn[p] + 1 \in Nat /\ nbak_state_merge \in States
    BY SMTT(30) DEF IInv, Types, States
  <2> QED
    BY <1>1, <1>4, <2>1, Zenon DEF Page
<1>6. header.ver = Header(p).ver /\ header # Undefined
  <2>1. header # Undefined
    BY <1>5 DEF Undefined, Page
  <2>2. header.ver = Header(p).ver
    BY <1>1, <1>4, Zenon DEF Page
  <2> QED
    BY <2>1, <2>2, Zenon
<1>7. /\ delta \in Seq(Entry) /\ lock_alloc(p) = DeltaPages
      /\ \A j, k \in DOMAIN delta : delta[j].page = delta[k].page => j = k
  BY <1>3, Knowing, Zenon DEF IInv, Delta
<1>8. CASE InDelta(HEADER_PAGE)
  <2>1. i \in DOMAIN delta /\ delta[i].page = HEADER_PAGE /\ i # 0
    BY <1>1, <1>7, <1>8, DeltaIndex, SMTT(30)
  <2>2. delta' = [delta EXCEPT ![i].content = header]
    BY <1>2, <2>1, Zenon
  <2>3. /\ DOMAIN delta' = DOMAIN delta
        /\ \A j \in DOMAIN delta :
             /\ delta'[j].page = delta[j].page
             /\ delta'[j].content = IF j = i THEN header ELSE delta[j].content
        /\ \A h : InDelta(h)' <=> InDelta(h)
    BY <1>5, <1>7, <2>1, <2>2, Replaced, Zenon
  <2>4. Current(HEADER_PAGE, header)'
    BY <1>3, <1>6, <1>7, <1>8, <2>1, <2>3, Zenon DEF Current
  <2>5. ASSUME NEW h \in Pages \ {HEADER_PAGE} PROVE Stable(h)' = Stable(h)
    <3>1. \A c : Current(h, c) => Current(h, c)'
      BY <1>2, <1>3, <2>1, <2>3, Zenon DEF Current
    <3> QED
      BY <3>1, StableKept, Zenon
  <2> QED
    BY <1>2, <1>3, <1>5, <1>6, <2>4, <2>5, HeaderStep, Zenon
<1>9. CASE ~InDelta(HEADER_PAGE)
  <2>1. delta' = delta
    BY <1>1, <1>2, <1>7, <1>9, DeltaIndex, Zenon
  <2>2. \A h \in Pages : Stable(h)' = Stable(h)
    BY <1>2, <2>1, StableSame, Zenon
  <2> QED
    BY <1>2, <1>3, <1>5, <1>6, <2>2, HeaderStep, PagesAssumption, Zenon
<1> QED
  BY <1>8, <1>9, Zenon

(* The header of a merge in the main file changes no version of a page. *)
LEMMA end_backup_merge_main_Holds ==
  ASSUME IInv, IInv', NEW p \in Processes, end_backup_merge_main(p)
  PROVE  Store!Next
<1>1. PICK c : c = buffer[p][HEADER_PAGE]
  OBVIOUS
<1>2. /\ pc[p] = "main1" /\ main' = [main EXCEPT ![HEADER_PAGE] = c]
      /\ UNCHANGED <<delta, buffer, dirty, changes>>
  BY <1>1, Zenon DEF end_backup_merge_main, At, cache, bounds
<1>3. /\ c.state = nbak_state_merge
      /\ \A i \in DOMAIN delta : delta[i].page = HEADER_PAGE => delta[i].content = c
      /\ ~InDelta(HEADER_PAGE) => c.ver = main[HEADER_PAGE].ver
      /\ H.state # nbak_state_normal
  BY <1>1, <1>2, Zenon DEF IInv, MergeHeader, Phase, nbak_state_normal, nbak_state_stalled,
     nbak_state_merge
<1>4. /\ main'[HEADER_PAGE] = c /\ \A h \in Pages \ {HEADER_PAGE} : main'[h] = main[h]
      /\ H' = c /\ HEADER_PAGE \in Pages
  BY <1>2, PagesAssumption, Zenon DEF IInv, Types, H
<1>5. H'.state # nbak_state_normal /\ \A h : InDelta(h)' <=> InDelta(h)
  BY <1>2, <1>3, <1>4, Zenon DEF InDelta, nbak_state_normal, nbak_state_merge
<1>6. ASSUME NEW h \in Pages PROVE Stable(h)' = Stable(h)
  <2>1. CASE h # HEADER_PAGE
    <3>1. \A d : Current(h, d) => Current(h, d)'
      BY <1>2, <1>3, <1>4, <1>5, <2>1, Zenon DEF Current
    <3> QED
      BY <3>1, StableKept, Zenon
  <2>2. CASE h = HEADER_PAGE /\ InDelta(HEADER_PAGE)
    <3>1. \A d : Current(h, d) => Current(h, d)'
      <4>1. c # Undefined
        <5>1. c \in Page
          BY <1>1, <1>2, PagesAssumption, SMTT(30) DEF IInv, MergeHeader, Types
        <5> QED
          BY <5>1, SMTT(30) DEF Page, Undefined
      <4> QED
        BY <1>2, <1>3, <1>4, <1>5, <2>2, <4>1, Zenon DEF Current
    <3> QED
      BY <3>1, StableKept, Zenon
  <2>3. CASE h = HEADER_PAGE /\ ~InDelta(HEADER_PAGE)
    <3>1. Current(h, c)' /\ Current(h, main[HEADER_PAGE])
      BY <1>4, <1>5, <2>3, Zenon DEF Current
    <3>2. Stable(h)' = c.ver
      BY <3>1, StableIsNext, Zenon
    <3>3. Stable(h) = main[HEADER_PAGE].ver
      BY <3>1, StableIs, Zenon
    <3> QED
      BY <1>3, <2>3, <3>2, <3>3, Zenon
  <2> QED
    BY <2>1, <2>2, <2>3, Zenon
<1>7. \A q \in Processes, h \in Pages : Kept(q, h)
  BY <1>2, Zenon DEF Kept, Version
<1> QED
  BY <1>2, <1>6, <1>7, StoreEvicts, Zenon

(* The merge marks a page and does not change its version. *)
LEMMA end_backup_page_Marks ==
  ASSUME IInv, IInv', NEW p \in Processes, NEW g \in Pages, end_backup_page(p, g)
  PROVE  Store!Next
<1>1. PICK page : page = IF buffer[p][g] # NULL THEN buffer[p][g] ELSE ReadPage(p, g)
  OBVIOUS
<1>2. /\ pc[p] = "merge" /\ Readable(p, g) /\ UNCHANGED <<main, delta, changes>>
      /\ (TakePage(p, g, page) /\ UNCHANGED dirty) \/ Dirtied(p, g, page)
  BY <1>1, Zenon DEF end_backup_page, At, files, bounds
<1>3. p \in fresh /\ Known(p) /\ pc[p] # "main1"
  <2>1. p \in fresh
    BY <1>2, Zenon DEF IInv, Locked, Reading
  <2> QED
    BY <1>2, <2>1, Zenon DEF IInv, StateKnown, Known
<1>4. ReadPage(p, g) \in Page /\ Current(g, ReadPage(p, g))
  BY <1>3, Fetched, Zenon
<1>5. /\ page \in Page
      /\ g = HEADER_PAGE => HeaderCopy(page)
      /\ g \notin dirty[p] => page.ver = Stable(g)
      /\ g \in dirty[p] => buffer[p][g] # NULL
      /\ \A q \in Processes \ {p} : g \notin dirty[q]
  <2>1. \A q \in Processes \ {p} : g \notin dirty[q]
    BY <1>2, Zenon DEF Readable
  <2>2. g \in dirty[p] => buffer[p][g] # NULL
    BY Zenon DEF IInv, Cached
  <2>3. g \notin dirty[p] => Current(g, page)
    <3>1. CASE buffer[p][g] = NULL
      BY <1>1, <1>4, <3>1, Zenon
    <3>2. CASE buffer[p][g] # NULL
      BY <1>1, <1>3, <2>1, <3>2, Zenon DEF Clean, IInv, Cached
    <3> QED
      BY <3>1, <3>2, Zenon
  <2>4. g \notin dirty[p] => page.ver = Stable(g)
    BY <2>3, StableIs, Zenon
  <2>5. buffer[p][g] \in Page \cup {NULL}
    BY DEF IInv, Types
  <2>6. page \in Page
    BY <1>1, <1>4, <2>5, Zenon
  <2>7. ASSUME g = HEADER_PAGE
        PROVE  HeaderCopy(page)
    <3>1. CASE buffer[p][g] = NULL
      BY <1>1, <1>4, <2>7, <3>1, CurrentHeader, Zenon
    <3>2. CASE buffer[p][g] # NULL
      BY <1>1, <2>7, <3>2, Zenon DEF IInv, Headers
    <3> QED
      BY <3>1, <3>2, Zenon
  <2> QED
    BY <2>1, <2>2, <2>4, <2>6, <2>7, Zenon
<1>6. \A h \in Pages : Stable(h)' = Stable(h)
  BY <1>2, StableSame, Zenon
<1>7. CASE TakePage(p, g, page) /\ UNCHANGED dirty
  <2>1. /\ buffer[p][g] # NULL => page.ver = buffer[p][g].ver
        /\ buffer[p][g] = NULL => page.ver = Stable(g)
    BY <1>1, <1>5, Zenon
  <2> QED
    BY <1>2, <1>5, <1>6, <1>7, <2>1, HeldStep, Zenon
<1>8. CASE Dirtied(p, g, page)
  <2>1. /\ buffer'[p][g] # NULL /\ buffer'[p][g].ver = page.ver
        /\ \A q \in Processes \ {p} : buffer'[q][g] = NULL
        /\ \A q \in Processes, h \in Pages \ {g} : buffer'[q][h] = buffer[q][h]
        /\ dirty' \in [Processes -> SUBSET Pages]
        /\ dirty'[p] = dirty[p] \cup {g} /\ \A q \in Processes \ {p} : dirty'[q] = dirty[q]
    BY <1>3, <1>5, <1>8, DirtyPage, SMTT(30)
  <2>2. /\ Version(p, g)' = page.ver /\ \A q \in Processes \ {p} : Version(q, g)' = NULL
        /\ \A q \in Processes, h \in Pages : q # p \/ h # g => Kept(q, h)
    BY <1>5, <2>1, SMTT(30) DEF Version, Kept
  <2>3. page.ver = IF g \in dirty[p] THEN Version(p, g) ELSE Stable(g)
    BY <1>1, <1>5, Zenon DEF Version
  <2>4. dirty \in [Processes -> SUBSET Pages]
    BY Zenon DEF IInv, Types
  <2> QED
    BY <1>2, <1>5, <1>6, <2>1, <2>2, <2>3, <2>4, StoreDirties, SMTT(30)
<1> QED
  BY <1>2, <1>7, <1>8, Zenon

(* The end of a merge changes no version of a page. *)
LEMMA end_backup_normal_Holds ==
  ASSUME IInv, IInv', NEW p \in Processes, end_backup_normal(p)
  PROVE  Store!Next
<1>1. PICK header :
        header = [Header(p) EXCEPT !.scn = current_scn[p] + 1, !.state = nbak_state_normal]
  OBVIOUS
<1>2. /\ pc[p] = "state3" /\ main' = [main EXCEPT ![HEADER_PAGE] = header]
      /\ TakePage(p, HEADER_PAGE, header) /\ UNCHANGED <<delta, dirty, changes>>
  BY <1>1, Zenon DEF end_backup_normal, At, bounds
<1>3. /\ H.state # nbak_state_normal /\ Known(p) /\ pc[p] \in Writing /\ pc[p] # "main1"
  <2>1. H.state # nbak_state_normal /\ pc[p] \in Writing /\ pc[p] # "main1"
    BY <1>2, Zenon DEF IInv, Phase, Merging, Writing, nbak_state_normal, nbak_state_merge
  <2> QED
    BY <2>1, Writer, Knowing, Zenon
<1>4. Header(p) \in Page
  BY <1>3, HeaderRead, Zenon
<1>5. header \in Page /\ header.ver = Header(p).ver /\ header.state = nbak_state_normal
  <2>1. current_scn[p] + 1 \in Nat /\ nbak_state_normal \in States
    BY SMTT(30) DEF IInv, Types, States
  <2>2. header \in Page
    BY <1>1, <1>4, <2>1, Zenon DEF Page
  <2>3. header.ver = Header(p).ver
    BY <1>1, <1>4, Zenon DEF Page
  <2>4. header.state = nbak_state_normal
    BY <1>1, <1>4, Zenon DEF Page
  <2> QED
    BY <2>2, <2>3, <2>4, Zenon
<1>6. /\ main'[HEADER_PAGE] = header /\ H'.state = nbak_state_normal
      /\ \A h \in Pages \ {HEADER_PAGE} : main'[h] = main[h]
  BY <1>2, <1>5, PagesAssumption, Zenon DEF IInv, Types, H
<1>7. Current(HEADER_PAGE, header)'
  BY <1>6, Zenon DEF Current
<1>8. ASSUME NEW h \in Pages \ {HEADER_PAGE} PROVE Stable(h)' = Stable(h)
  <2>1. ASSUME NEW i \in DOMAIN delta, delta[i].page = h, delta[i].content # Undefined
        PROVE  main[h] = delta[i].content
    <3>1. ~Newer(i)
      BY <1>2, <1>3, <2>1, Writer, Zenon DEF IInv, Merges, Merging
    <3>2. \A q \in Processes : half[q] # h
      BY <1>3, Writer, PagesAssumption, Zenon
    <3> QED
      BY <2>1, <3>1, <3>2, Zenon DEF Newer
  <2>2. \A c : Current(h, c) => Current(h, c)'
    BY <1>6, <2>1, Zenon DEF Current, InDelta
  <2> QED
    BY <2>2, StableKept, Zenon
<1> QED
  BY <1>2, <1>3, <1>5, <1>7, <1>8, HeaderStep, Zenon

(* A death loses what was only cached, and no version that was written. *)
LEMMA crash_Crashes ==
  ASSUME IInv, NEW S \in SUBSET Attached, crash(S)
  PROVE  Store!Next
<1>1. /\ S \in SUBSET Processes /\ UNCHANGED <<main, delta, changes>>
      /\ buffer' = [p \in Processes |-> IF p \in S THEN [g \in Pages |-> NULL] ELSE buffer[p]]
      /\ dirty' = [p \in Processes |-> IF p \in S THEN {} ELSE dirty[p]]
  BY Zenon DEF crash, Attached, files
<1>2. \A h \in Pages : Stable(h)' = Stable(h)
  BY <1>1, StableSame, Zenon
<1>3. \A q \in Processes, h \in Pages : Version(q, h)' = IF q \in S THEN NULL ELSE Version(q, h)
  BY <1>1, Zenon DEF Version
<1>4. Store!Crash(S)
  BY <1>1, <1>2, <1>3, Zenon DEF Store!Crash, Version
<1> QED
  BY <1>1, <1>4, Zenon DEF Store!Next

(* Every step is one of the storage. *)
LEMMA NextStore ==
  ASSUME ~HalfWrites, IInv, IInv', [Next]_vars
  PROVE  Store!Next
<1> USE DEF files, cache, bounds
<1>1. CASE UNCHANGED vars
  BY <1>1, QuietStep, Zenon DEF vars
<1>2. ASSUME NEW p \in Processes, actualize_state(p) PROVE Store!Next
  BY <1>2, QuietStep, Zenon DEF actualize_state
<1>3. ASSUME NEW p \in Processes, PageAction(p) PROVE Store!Next
  <2>1. ASSUME NEW g \in Pages, CCH_fetch_page_aborts(p, g) \/ CCH_mark_unmapped(p, g)
        PROVE  Store!Next
    BY <2>1, QuietStep, Zenon DEF CCH_fetch_page_aborts, CCH_mark_unmapped
  <2> QED
    BY <1>3, <2>1, CCH_fetch_page_Reads, CCH_mark_Changes, write_page_Writes, Evict_Evicts,
       allocate_difference_page_Changes, write_page_main_Writes, Zenon DEF PageAction
<1>4. ASSUME NEW p \in Processes, NEW from, NEW to, lock_clean_database(p, from, to)
      PROVE Store!Next
  BY <1>4, QuietStep, Zenon DEF lock_clean_database
<1>5. ASSUME NEW p \in Processes, BeginAction(p) PROVE Store!Next
  <2>1. CASE begin_backup_returns(p) \/ begin_backup_fails(p)
    BY <2>1, QuietStep, Zenon DEF begin_backup_returns, begin_backup_fails
  <2>2. CASE begin_backup_create(p)
    <3>1. pc[p] = "begin" /\ backup_state[p] = nbak_state_normal
      BY <2>2, Zenon DEF begin_backup_create, At
    <3>2. H.state = nbak_state_normal
      BY <3>1, Writer, Zenon DEF IInv, StateKnown, Writing, nbak_state_normal, nbak_state_unknown
    <3> QED
      BY <2>2, <3>2, NormalStep, Zenon DEF begin_backup_create
  <2> QED
    BY <1>4, <1>5, <2>1, <2>2, begin_backup_header_Holds, Zenon DEF BeginAction, begin_backup
<1>6. ASSUME NEW p \in Processes, EndAction(p) PROVE Store!Next
  <2>1. CASE attach(p) \/ end_backup(p) \/ end_backup_pages(p) \/ end_backup_merged(p)
    BY <2>1, QuietStep, Zenon DEF attach, end_backup, end_backup_pages, end_backup_merged
  <2>2. CASE end_backup_unlink(p)
    <3>1. H.state = nbak_state_normal
      BY <2>2, Zenon DEF end_backup_unlink, At, IInv, Phase
    <3> QED
      BY <2>2, <3>1, NormalStep, Zenon DEF end_backup_unlink
  <2> QED
    BY <1>4, <1>6, <2>1, <2>2, end_backup_merge_Holds, end_backup_merge_main_Holds,
       end_backup_page_Marks, end_backup_normal_Holds, Zenon DEF EndAction
<1>7. ASSUME NEW S \in SUBSET Attached, crash(S) PROVE Store!Next
  BY <1>7, crash_Crashes, Zenon
<1> QED
  BY <1>1, <1>2, <1>3, <1>5, <1>6, <1>7, Zenon DEF Next

(* A backup is invisible to the page cache: the files of the database and  *)
(* of the difference implement one storage, in which a page is read as it  *)
(* was last written.                                                       *)
THEOREM Refinement == ~HalfWrites => (Spec => ImplementsPageStore)
<1> SUFFICES ASSUME ~HalfWrites PROVE Spec => ImplementsPageStore
  OBVIOUS
<1>1. Init => Store!Init
  <2> SUFFICES ASSUME Init PROVE Store!Init
    OBVIOUS
  <2>1. \A g \in Pages : Stable(g) = 0
    BY PagesAssumption, Zenon DEF Init, Stable
  <2> QED
    BY <2>1, Zenon DEF Init, Store!Init
<1>2. IInv /\ IInv' /\ [Next]_vars => Store!Next
  BY NextStore, Zenon
<1>3. Spec => []IInv
  BY Invariance, Zenon
<1> QED
  BY <1>1, <1>2, <1>3, PTL DEF Spec, ImplementsPageStore, Store!Spec
=============================================================================
