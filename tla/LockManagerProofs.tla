------------------------- MODULE LockManagerProofs --------------------------
(***************************************************************************)
(* Every step of LockManager keeps the inductive invariant: the loops that *)
(* end a section, wait_for_request, the blocking routines, processes that  *)
(* attach, leave and die.  The theorems about the specification follow.    *)
(***************************************************************************)
EXTENDS LockManagerInvariant

-----------------------------------------------------------------------------
(* The loops that end a section.                                           *)
LEMMA PostGrantStep ==
  ASSUME IInv, NEW o \in Owners, post_pending_grant(o)
  PROVE  IInv'
<1> USE DEF IInv, Queues, Processes, Table
<1>1. posting \in Locks /\ UNCHANGED <<lrq_lock, lrq_owner, lrq_ast, lbl_requests, own_pending,
                     own_signaled, lhb_owners, lhb_active, posting, purging, procVars>>
  BY Zenon DEF post_pending_grant, TypeMutex
<1>2. \E r \in Requests, l \in Locks :
        /\ l = posting /\ lrq_lock[r] = l /\ Pending(r)
        /\ COMPATIBLE(lrq_requested[r], StateWithout(l, r))
        /\ grant(l, r, lrq_requested[r])
        /\ lrq_flags' = [lrq_flags EXCEPT ![r] = @ \ {"pending"}]
        /\ lbl_pending' = [lbl_pending EXCEPT ![l] = @ - 1]
        /\ post_wakeup(lrq_owner[r])
        /\ cursor' \in Nat
  <2>1. PICK i \in DOMAIN lbl_requests[posting] :
          LET r == lbl_requests[posting][i]
          IN /\ NextPending(i)
             /\ COMPATIBLE(lrq_requested[r], StateWithout(posting, r))
             /\ grant(posting, r, lrq_requested[r])
             /\ lrq_flags' = [lrq_flags EXCEPT ![r] = @ \ {"pending"}]
             /\ lbl_pending' = [lbl_pending EXCEPT ![posting] = @ - 1]
             /\ post_wakeup(lrq_owner[r])
             /\ cursor' = i + 1
    BY Zenon DEF post_pending_grant
  <2>2. /\ lbl_requests[posting] \in Seq(Requests)
        /\ DOMAIN lbl_requests[posting] = 1 .. Len(lbl_requests[posting])
    BY <1>1, LengthOf, Zenon DEF TypeLocks
  <2>3. /\ lbl_requests[posting][i] \in Requests
        /\ lrq_lock[lbl_requests[posting][i]] = posting /\ i + 1 \in Nat
    BY <1>1, <2>2, ElementOf DEF QueueOfLock
  <2> QED
    BY <1>1, <2>1, <2>3, Zenon DEF NextPending
<1>3. PICK r \in Requests, l \in Locks :
        /\ l = posting /\ lrq_lock[r] = l /\ Pending(r)
        /\ COMPATIBLE(lrq_requested[r], StateWithout(l, r))
        /\ grant(l, r, lrq_requested[r])
        /\ lrq_flags' = [lrq_flags EXCEPT ![r] = @ \ {"pending"}]
        /\ lbl_pending' = [lbl_pending EXCEPT ![l] = @ - 1]
        /\ post_wakeup(lrq_owner[r])
        /\ cursor' \in Nat
  BY <1>2, Zenon
<1>4. lrq_requested[r] \in Level /\ lrq_owner[r] \in Owners
  BY <1>3, NullAssumption, OwnedRequest, Zenon DEF TypeRequests
<1>5. lrq_lock' = [lrq_lock EXCEPT ![r] = l]
  BY <1>1, <1>3, Zenon DEF TypeRequests
<1>6. Table
  OBVIOUS
<1>7. /\ lrq_requested' \in [Requests -> Level]
      /\ lrq_state' \in [Requests -> Level]
      /\ lbl_counts' \in [Locks -> [Level -> Nat]]
      /\ lbl_state' \in [Locks -> Level]
      /\ HolderCounts'
      /\ HighestLevel'
      /\ GrantedCompatible'
  <2> HIDE DEF IInv, Queues, Processes, Table
  <2> QED
    BY <1>3, <1>4, <1>5, <1>6, GrantEffect, Zenon
<1>8. /\ lrq_flags' \in [Requests -> SUBSET LrqFlags]
      /\ ~Pending(r)'
      /\ \A s \in Requests : s # r => lrq_flags'[s] = lrq_flags[s]
      /\ \A s \in Requests : s # r => (Pending(s)' <=> Pending(s))
  BY <1>3, Zenon DEF TypeRequests, Pending
<1>9. lbl_pending' \in [Locks -> Nat] /\ PendingCount'
  <2>1. lrq_lock' = lrq_lock /\ lrq_lock[r] \in Locks
    BY <1>1, <1>3, Zenon
  <2> QED
    BY <1>3, <1>8, <2>1, PendingLess, Zenon
<1>10. TypeRequests' /\ TypeLocks'
  BY <1>1, <1>7, <1>8, <1>9, Zenon DEF TypeRequests, TypeLocks
<1>11. \A s \in Requests : s # r => lrq_state'[s] = lrq_state[s]
  BY <1>3, Zenon DEF TypeRequests, grant
<1>12. FreeRequests'
  BY <1>1, <1>3, <1>8, <1>11, NullAssumption, Zenon DEF FreeRequests
<1>13. QueueOfLock'
  BY <1>1, Zenon DEF QueueOfLock, RequestsOf
<1>14. Queues'
  BY <1>7, <1>9, <1>10, <1>12, <1>13, Zenon
<1>15. own_flags' \in [Owners -> SUBSET OwnFlags]
  BY <1>3, <1>4, Zenon DEF post_wakeup, TypeOwners, OwnFlags
<1>16. TypeOwners' /\ TypeMutex' /\ TypeProcesses'
  BY <1>1, <1>3, <1>15, Zenon DEF TypeOwners, TypeMutex, TypeProcesses, procVars
<1>17. \A s \in Requests : Pending(s)' => Pending(s)
  BY <1>8, Zenon
<1>18. OwnersInTable' /\ WaitersOwn' /\ PurgedAreGone'
  BY <1>1, Zenon DEF OwnersInTable, WaitersOwn, PurgedAreGone, Attached, InCall, procVars
<1>19. PendingIsWaited'
  BY <1>1, <1>17, Zenon DEF PendingIsWaited, Attached, procVars
<1> QED
  BY <1>14, <1>16, <1>18, <1>19, Zenon

(* post_pending() at a request that still has to wait keeps the invariant. *)
LEMMA PostBlockStep ==
  ASSUME IInv, NEW o \in Owners, post_pending_block(o)
  PROVE  IInv'
<1> USE DEF IInv, Processes
<1>1. UNCHANGED <<lrqVars, lblVars, own_pending, own_signaled, lhb_owners,
                  lhb_active, posting, purging, procVars>>
  BY Zenon DEF post_pending_block
<1>2. posting \in Locks
  BY Zenon DEF post_pending_block, TypeMutex
<1>3. PICK i \in DOMAIN lbl_requests[posting] :
        /\ Pending(lbl_requests[posting][i])
        /\ post_wakeup(lrq_owner[lbl_requests[posting][i]])
        /\ cursor' = IF LOCK_ordering THEN Len(lbl_requests[posting]) + 1 ELSE i + 1
  BY Zenon DEF post_pending_block, NextPending
<1>4. /\ DOMAIN lbl_requests[posting] = 1 .. Len(lbl_requests[posting])
      /\ Len(lbl_requests[posting]) \in Nat /\ lbl_requests[posting][i] \in Requests
  BY <1>2, LengthOf, ElementOf, Zenon DEF Queues, Table, TypeLocks
<1>5. lrq_owner[lbl_requests[posting][i]] \in Owners
  BY <1>3, <1>4, NullAssumption, OwnedRequest, Zenon
<1>6. own_flags' \in [Owners -> SUBSET OwnFlags] /\ cursor' \in Nat
  BY <1>3, <1>4, <1>5 DEF post_wakeup, TypeOwners, OwnFlags
<1>7. Queues'
  BY <1>1, QueuesUnchanged, Zenon
<1>8. TypeOwners' /\ TypeMutex' /\ TypeProcesses'
  BY <1>1, <1>6, Zenon DEF TypeOwners, TypeMutex, TypeProcesses, procVars
<1>9. OwnersInTable' /\ WaitersOwn' /\ PurgedAreGone'
  BY <1>1, Zenon DEF OwnersInTable, WaitersOwn, PurgedAreGone, Attached, InCall, procVars, lrqVars
<1>10. PendingIsWaited'
  BY <1>1, Zenon DEF PendingIsWaited, Attached, Pending, procVars, lrqVars
<1> QED
  BY <1>7, <1>8, <1>9, <1>10, Zenon

(* The end of post_pending(), which marks the requests just granted, keeps *)
(* the invariant.                                                          *)
LEMMA PostEndStep ==
  ASSUME IInv, NEW o \in Owners, post_pending_end(o)
  PROVE  IInv'
<1> USE DEF IInv, Processes
<1>1. /\ lrq_flags' = [r \in Requests |->
             IF lbl_pending[posting] > 0 /\ r \in JustGranted(posting)
             THEN lrq_flags[r] \cup {"just_granted"} ELSE lrq_flags[r]]
      /\ posting' = NULL
      /\ lhb_active' = IF purging # {} \/ GoesOn(o) THEN o ELSE NULL
      /\ UNCHANGED <<lrq_lock, lrq_owner, lrq_requested, lrq_state, lrq_ast, lblVars,
                     ownVars, cursor, purging, procVars>>
      /\ posting \in Locks
  BY Zenon DEF post_pending_end, TypeMutex
<1>2. \A r \in JustGranted(posting) : lrq_lock[r] # NULL
  <2> SUFFICES ASSUME NEW r \in JustGranted(posting) PROVE lrq_lock[r] # NULL
    OBVIOUS
  <2>1. PICK i \in DOMAIN lbl_requests[posting] : lbl_requests[posting][i] = r
    BY Zenon DEF JustGranted
  <2>2. DOMAIN lbl_requests[posting] = 1 .. Len(lbl_requests[posting])
    BY <1>1, LengthOf, Zenon DEF Queues, Table, TypeLocks
  <2> QED
    BY <1>1, <2>1, <2>2, NullAssumption DEF Queues, QueueOfLock
<1>3. /\ lrq_flags' \in [Requests -> SUBSET LrqFlags]
      /\ \A s \in Requests : Pending(s)' <=> Pending(s)
      /\ \A s \in Requests : lrq_lock[s] = NULL => lrq_flags'[s] = lrq_flags[s]
  BY <1>1, <1>2, Zenon DEF Queues, Table, TypeRequests, Pending, LrqFlags
<1>4. lrq_requested' \in [Requests -> Level] /\ lrq_ast' \in [Requests -> BOOLEAN]
  BY <1>1, Zenon DEF Queues, Table, TypeRequests
<1>5. Queues'
  BY <1>1, <1>3, <1>4, QueuesKept, Zenon
<1>6. TypeOwners' /\ TypeMutex' /\ TypeProcesses'
  BY <1>1, Zenon DEF TypeOwners, TypeMutex, TypeProcesses, procVars, ownVars
<1>7. OwnersInTable' /\ WaitersOwn' /\ PurgedAreGone'
  BY <1>1, NullAssumption, Zenon
     DEF OwnersInTable, WaitersOwn, PurgedAreGone, Attached, InCall, procVars, ownVars
<1>8. PendingIsWaited'
  BY <1>1, <1>3, Zenon DEF PendingIsWaited, Attached, procVars
<1> QED
  BY <1>5, <1>6, <1>7, <1>8, Zenon

(* purge_owner() releases a request of a dead owner, whoever else is in    *)
(* the queue, and keeps the invariant.                                     *)
LEMMA PurgeRequestStep ==
  ASSUME IInv, NEW o \in Owners, purge_request(o)
  PROVE  IInv'
<1> USE DEF IInv, Processes
<1>1. PICK r \in Requests : /\ lrq_owner[r] \in purging
                            /\ release_request(r)
                            /\ EndSection(o, lrq_lock[r], WaitersWithout(r), purging)
  BY Zenon DEF purge_request
<1>2. UNCHANGED <<ownVars, procVars>>
  BY Zenon DEF purge_request
<1>3. purging \in SUBSET Owners /\ lrq_owner[r] \in Owners /\ ~Attached(lrq_owner[r])
  BY <1>1, Zenon DEF TypeMutex, PurgedAreGone
<1> HIDE DEF IInv, Processes
<1>4. /\ Queues'
      /\ lrq_lock[r] \in Locks
      /\ WaitersWithout(r) \in Nat
      /\ lrq_owner'[r] = NULL /\ lrq_lock'[r] = NULL /\ ~Pending(r)'
      /\ \A s \in Requests : s # r => /\ lrq_owner'[s] = lrq_owner[s]
                                      /\ lrq_lock'[s] = lrq_lock[s]
                                      /\ Pending(s)' <=> Pending(s)
      /\ \A s \in Requests : lrq_lock'[s] # NULL => lrq_owner'[s] \in lhb_owners
  BY <1>1, <1>3, OthersAfterRelease, Zenon
<1>5. TypeMutex' /\ purging' = purging /\ (lhb_active' = NULL => purging' = {})
  BY <1>1, <1>3, <1>4, SectionEnds, Zenon
<1> USE DEF IInv, Processes
<1>6. TypeOwners' /\ TypeProcesses'
  BY <1>2, Zenon DEF TypeOwners, TypeProcesses, procVars, ownVars
<1>7. \A q \in Owners : (Attached(q)' <=> Attached(q)) /\ (InCall(q)' <=> InCall(q))
  BY <1>2, Zenon DEF Attached, InCall, procVars
<1>8. OwnersInTable'
  BY <1>2, <1>4, <1>7, Zenon DEF OwnersInTable, ownVars
<1>9. WaitersOwn'
  <2> SUFFICES ASSUME NEW q \in Owners
               PROVE  /\ InCall(q) => wreq[q] \in Requests /\ lrq_owner'[wreq[q]] = q
                      /\ ast[q] \in Requests => lrq_owner'[ast[q]] = q
                      /\ ~Attached(q) => ast[q] = NULL
    BY <1>2, <1>7, Zenon DEF WaitersOwn, procVars
  <2>1. (InCall(q) => Attached(q)) /\ (ast[q] # NULL => Attached(q))
    BY Zenon DEF InCall, Attached, WaitersOwn
  <2> QED
    BY <1>3, <1>4, <2>1, NullAssumption DEF WaitersOwn
<1>10. PendingIsWaited'
  BY <1>2, <1>4, Zenon DEF PendingIsWaited, Attached, procVars
<1>11. PurgedAreGone'
  BY <1>3, <1>5, <1>7, Zenon DEF PurgedAreGone
<1> QED
  BY <1>4, <1>5, <1>6, <1>8, <1>9, <1>10, <1>11, Zenon

(* purge_owner() frees an owner block without requests and keeps the       *)
(* invariant.                                                              *)
LEMMA PurgeOwnerStep ==
  ASSUME IInv, NEW o \in Owners, purge_owner(o)
  PROVE  IInv'
<1> USE DEF IInv, Processes
<1>1. PICK q \in purging :
        /\ \A r \in Requests : lrq_owner[r] # q
        /\ lhb_owners' = lhb_owners \ {q}
        /\ own_pending' = [own_pending EXCEPT ![q] = NULL]
        /\ own_flags' = [own_flags EXCEPT ![q] = {}]
        /\ own_signaled' = [own_signaled EXCEPT ![q] = FALSE]
        /\ purging' = purging \ {q}
        /\ lhb_active' = IF purging' # {} \/ GoesOn(o) THEN o ELSE NULL
        /\ pc' = [pc EXCEPT ![o] = IF @ = "fini" THEN "none" ELSE @]
  BY Zenon DEF purge_owner
<1>2. UNCHANGED <<lrqVars, lblVars, posting, cursor, wreq, ast>>
  BY Zenon DEF purge_owner
<1>3. Queues'
  BY <1>2, QueuesUnchanged, Zenon
<1>4. q \in Owners /\ ~Attached(q)
  BY Zenon DEF TypeMutex, PurgedAreGone
<1>5. TypeOwners' /\ TypeMutex' /\ TypeProcesses'
  BY <1>1, <1>2, <1>4, Zenon DEF TypeOwners, TypeMutex, TypeProcesses, PC
<1>6. \A p \in Owners : (Attached(p)' <=> Attached(p)) /\ (InCall(p)' <=> InCall(p))
  BY <1>1, Zenon DEF Attached, InCall, TypeProcesses
<1>7. OwnersInTable'
  BY <1>1, <1>2, <1>4, <1>6, Zenon DEF OwnersInTable, lrqVars
<1>8. WaitersOwn'
  BY <1>2, <1>6, Zenon DEF WaitersOwn, lrqVars
<1>9. PendingIsWaited'
  <2> SUFFICES ASSUME NEW r \in Requests, Pending(r), Attached(lrq_owner[r])'
               PROVE  pc'[lrq_owner[r]] \in {"wait", "scan"} /\ wreq[lrq_owner[r]] = r
    BY <1>2, Zenon DEF PendingIsWaited, Pending, lrqVars, Attached
  <2>1. lrq_owner[r] \in Owners /\ lrq_owner' = lrq_owner
    BY <1>2, OwnedRequest, NullAssumption, Zenon DEF lrqVars
  <2>2. Attached(lrq_owner[r])
    BY <1>1, <2>1, Zenon DEF Attached, TypeProcesses
  <2>3. pc[lrq_owner[r]] \in {"wait", "scan"} /\ wreq[lrq_owner[r]] = r
    BY <2>2, Zenon DEF PendingIsWaited
  <2> QED
    BY <1>1, <2>1, <2>3, Zenon DEF TypeProcesses
<1>10. PurgedAreGone'
  <2>1. \A p \in purging' : ~Attached(p)'
    BY <1>1, <1>6, Zenon DEF PurgedAreGone, TypeMutex
  <2>2. lhb_active' = NULL => purging' = {}
    BY <1>1, NullAssumption, Zenon
  <2> QED
    BY <2>1, <2>2, Zenon DEF PurgedAreGone, Attached
<1> QED
  BY <1>3, <1>5, <1>7, <1>8, <1>9, <1>10, Zenon

(* The loop of a waiting process.                                          *)
LEMMA WaitExitStep ==
  ASSUME IInv, NEW o \in Owners, wait_exit(o)
  PROVE  IInv'
<1> USE DEF IInv, Processes
<1>1. /\ pc[o] \in {"wait", "exit"} /\ ast[o] = NULL /\ ~Pending(wreq[o])
      /\ own_pending' = [own_pending EXCEPT ![o] = NULL]
      /\ own_flags' = [own_flags EXCEPT ![o] = @ \ {"timeout"}]
      /\ \/ pc' = [pc EXCEPT ![o] = "denied"] /\ wreq' = wreq
         \/ pc' = [pc EXCEPT ![o] = "idle"] /\ wreq' = [wreq EXCEPT ![o] = NULL]
      /\ UNCHANGED <<lrqVars, lblVars, own_signaled, lhb_owners, mutexVars, ast>>
  BY Zenon DEF wait_exit
<1>2. Queues'
  BY <1>1, QueuesUnchanged, Zenon
<1>3. TypeOwners' /\ TypeMutex' /\ TypeProcesses'
  BY <1>1, Zenon DEF TypeOwners, TypeMutex, TypeProcesses, mutexVars, PC
<1>4. Attached(o) /\ Attached(o)' /\ o \in lhb_owners
  BY <1>1, Zenon DEF Attached, TypeProcesses, OwnersInTable
<1>5. \A s \in Requests : lrq_owner'[s] = lrq_owner[s] /\ lrq_lock'[s] = lrq_lock[s]
                          /\ (Pending(s)' <=> Pending(s))
  BY <1>1, Zenon DEF lrqVars, Pending
<1>6. OthersKept(o)
  <2>1. \A q \in Owners : q # o => pc'[q] = pc[q] /\ wreq'[q] = wreq[q] /\ ast'[q] = ast[q]
    BY <1>1, Zenon DEF TypeProcesses
  <2>2. lhb_owners' = lhb_owners
    BY <1>1, Zenon
  <2> QED
    BY <1>5, <2>1, <2>2, Zenon DEF OthersKept, OwnersInTable
<1>7. \A s \in Requests : lrq_owner[s] = o => ~Pending(s)
  BY <1>1, <1>4, NotWaiting, Zenon
<1>8. InCall(o)' => wreq'[o] = wreq[o] /\ wreq[o] \in Requests /\ lrq_owner[wreq[o]] = o
  BY <1>1, Zenon DEF InCall, WaitersOwn, TypeProcesses
<1>9. /\ \A q \in purging' : ~Attached(q)'
      /\ lhb_active' = NULL => purging' = {}
  <2>1. purging' = purging /\ lhb_active' = lhb_active
    BY <1>1, Zenon DEF mutexVars
  <2>2. \A q \in purging : q \in Owners /\ q # o /\ pc'[q] = pc[q] /\ ~Attached(q)
    BY <1>1, <1>4, Zenon DEF PurgedAreGone, TypeMutex, TypeProcesses
  <2> QED
    BY <2>1, <2>2, Zenon DEF PurgedAreGone, Attached
<1>10. OwnInOrder(o)
  BY <1>1, <1>4, <1>5, <1>7, <1>8, <1>9, NullAssumption, Zenon DEF OwnInOrder
<1> HIDE DEF IInv, Processes
<1> QED
  BY <1>2, <1>3, <1>6, <1>10, ProcessesKept, Zenon

(* LOCK_enq takes its rejected request back and keeps the invariant.       *)
LEMMA DenyEnqStep ==
  ASSUME IInv, NEW o \in Owners, deny_enq(o)
  PROVE  IInv'
<1>1. PICK w \in Requests : w = wreq[o] /\ lrq_owner[w] = o /\ pc[o] = "denied"
  BY Zenon DEF deny_enq, IInv, Processes, WaitersOwn, InCall
<1>2. /\ release_request(w) /\ EndSection(o, lrq_lock[w], WaitersWithout(w), {})
      /\ release(o, OwnBlocks(o) \ {w}, {})
      /\ pc' = [pc EXCEPT ![o] = "idle"] /\ wreq' = [wreq EXCEPT ![o] = NULL]
      /\ UNCHANGED <<own_pending, own_flags, lhb_owners>>
  BY <1>1, Zenon DEF deny_enq
<1>3. /\ Queues'
      /\ lrq_lock[w] \in Locks
      /\ WaitersWithout(w) \in Nat
      /\ lrq_owner'[w] = NULL /\ lrq_lock'[w] = NULL /\ ~Pending(w)'
      /\ \A s \in Requests : s # w => /\ lrq_owner'[s] = lrq_owner[s]
                                      /\ lrq_lock'[s] = lrq_lock[s]
                                      /\ Pending(s)' <=> Pending(s)
      /\ \A s \in Requests : lrq_lock'[s] # NULL => lrq_owner'[s] \in lhb_owners
  BY <1>1, <1>2, OthersAfterRelease, Zenon
<1>4. TypeMutex' /\ purging' = {}
  BY <1>2, <1>3, SectionEnds
<1> USE DEF IInv, Processes
<1>5. /\ own_signaled' \in [Owners -> BOOLEAN]
      /\ ast' \in [Owners -> Requests \cup {NULL, "loop"}]
      /\ \A q \in Owners : q # o => ast'[q] = ast[q]
      /\ ast'[o] \in {NULL, "loop"}
  BY <1>2, ReleaseReturns, Zenon
<1>6. TypeOwners' /\ TypeProcesses'
  BY <1>2, <1>5, Zenon DEF TypeOwners, TypeProcesses, PC
<1>7. Attached(o) /\ Attached(o)' /\ ~InCall(o)' /\ o \in lhb_owners /\ lhb_owners' = lhb_owners
  BY <1>1, <1>2, Zenon DEF Attached, InCall, TypeProcesses, OwnersInTable
<1>8. \A q \in Owners : q # o => pc'[q] = pc[q] /\ wreq'[q] = wreq[q] /\ ast'[q] = ast[q]
  BY <1>2, <1>5, Zenon DEF TypeProcesses
<1>9. OthersKept(o)
  BY <1>1, <1>3, <1>7, <1>8, Zenon DEF OthersKept
<1>10. \A s \in Requests : lrq_owner'[s] = o => ~Pending(s)'
  BY <1>1, <1>3, <1>7, NotWaiting, NullAssumption, Zenon
<1>11. OwnInOrder(o)
  BY <1>4, <1>5, <1>7, <1>10, NullAssumption, Zenon DEF OwnInOrder
<1> HIDE DEF IInv, Processes
<1> QED
  BY <1>3, <1>4, <1>6, <1>9, <1>11, ProcessesKept, Zenon

(* The other steps of a waiting process change neither the owner of a      *)
(* request nor what it waits for.                                          *)
WaitKeeps(o) ==
  /\ \A s \in Requests : lrq_owner'[s] = lrq_owner[s] /\ lrq_lock'[s] = lrq_lock[s]
  /\ \A s \in Requests : Pending(s)' => Pending(s)
  /\ own_pending' \in [Owners -> Requests \cup {NULL}]
  /\ own_flags' \in [Owners -> SUBSET OwnFlags]
  /\ lhb_owners' = lhb_owners
  /\ wreq' = wreq
  /\ \/ pc' = pc
     \/ pc' = [pc EXCEPT ![o] = "wait"]
     \/ pc' = [pc EXCEPT ![o] = "scan"]
     \/ pc' = [pc EXCEPT ![o] = "exit"] /\ ~Pending(wreq[o])'

(* A step of the loop of wait_for_request() that touches no request but    *)
(* its own keeps the invariant.                                            *)
LEMMA WaitGoesOn ==
  ASSUME IInv, Queues', NEW o \in Owners, pc[o] \in {"wait", "scan"}, WaitKeeps(o),
         own_signaled' \in [Owners -> BOOLEAN],
         ast' \in [Owners -> Requests \cup {NULL, "loop"}],
         \A q \in Owners : q # o => ast'[q] = ast[q],
         ast'[o] \in {NULL, "loop"},
         TypeMutex', \A q \in purging' : Dead(q), lhb_active' = NULL => purging' = {}
  PROVE  IInv'
<1> USE DEF IInv, Processes, WaitKeeps
<1>1. TypeOwners' /\ TypeProcesses'
  BY Zenon DEF TypeOwners, TypeProcesses, PC
<1>2. /\ pc'[o] \in {"wait", "scan", "exit"}
      /\ pc'[o] = "exit" => ~Pending(wreq[o])'
      /\ \A q \in Owners : q # o => pc'[q] = pc[q] /\ wreq'[q] = wreq[q] /\ ast'[q] = ast[q]
  BY Zenon DEF TypeProcesses
<1>3. Attached(o) /\ Attached(o)' /\ o \in lhb_owners
  BY <1>2, Zenon DEF Attached, OwnersInTable
<1>4. wreq[o] \in Requests /\ lrq_owner[wreq[o]] = o
  BY Zenon DEF WaitersOwn, InCall
<1>5. OthersKept(o)
  BY <1>2, Zenon DEF OthersKept, OwnersInTable
<1>6. \A s \in Requests : Pending(s)' /\ lrq_owner'[s] = o
                           => pc'[o] \in {"wait", "scan"} /\ wreq'[o] = s
  <2> SUFFICES ASSUME NEW s \in Requests, Pending(s)', lrq_owner'[s] = o
               PROVE  pc'[o] \in {"wait", "scan"} /\ wreq'[o] = s
    OBVIOUS
  <2>1. wreq[o] = s
    BY <1>3, NotWaiting, Zenon
  <2>2. wreq'[o] = s /\ wreq' = wreq
    BY <2>1, Zenon
  <2>3. CASE pc'[o] = "exit"
    BY <1>2, <2>1, <2>2, <2>3, Zenon DEF Pending
  <2> QED
    BY <1>2, <2>2, <2>3, Zenon
<1>7. \A q \in purging' : ~Attached(q)'
  <2> SUFFICES ASSUME NEW q \in purging' PROVE ~Attached(q)'
    OBVIOUS
  <2>1. q \in Owners /\ q # o
    BY Zenon DEF TypeMutex, Dead
  <2> QED
    BY <1>2, <2>1, Zenon DEF Dead, Attached
<1>8. OwnInOrder(o)
  BY <1>2, <1>3, <1>4, <1>6, <1>7, NullAssumption, Zenon DEF OwnInOrder
<1> HIDE DEF IInv, Processes, WaitKeeps
<1> QED
  BY <1>1, <1>5, <1>8, ProcessesKept, Zenon

(* EndSection() without purging and release(), as wait_for_request() uses  *)
(* them.                                                                   *)
LEMMA WaitReleases ==
  ASSUME IInv, Queues', NEW o \in Owners, pc[o] \in {"wait", "scan"}, WaitKeeps(o),
         EndSection(o, NULL, 0, {}), release(o, OwnBlocks(o), {})
  PROVE  IInv'
<1>1. TypeMutex' /\ purging' = {}
  BY SectionEnds
<1>2. /\ own_signaled' \in [Owners -> BOOLEAN]
      /\ ast' \in [Owners -> Requests \cup {NULL, "loop"}]
      /\ \A q \in Owners : q # o => ast'[q] = ast[q]
      /\ ast'[o] \in {NULL, "loop"}
  BY ReleaseReturns, Zenon DEF IInv, Processes
<1> QED
  BY <1>1, <1>2, WaitGoesOn, Zenon

(* The request a process waits for, while it waits.                        *)
LEMMA WaitedFor ==
  ASSUME IInv, NEW o \in Owners, pc[o] \in {"wait", "scan"}
  PROVE  wreq[o] \in Requests /\ lrq_owner[wreq[o]] = o /\ lrq_lock[wreq[o]] \in Locks
BY OwnedRequest, Zenon DEF IInv, Processes, WaitersOwn, InCall

(* LOCK_convert takes its rejected request back and keeps the invariant.   *)
LEMMA DenyConvertStep ==
  ASSUME IInv, NEW o \in Owners, deny_convert(o)
  PROVE  IInv'
<1>1. PICK w \in Requests : w = wreq[o] /\ lrq_owner[w] = o /\ pc[o] = "denied"
  BY Zenon DEF deny_convert, IInv, Processes, WaitersOwn, InCall
<1>2. /\ lrq_requested' = [lrq_requested EXCEPT ![w] = lrq_state[w]]
      /\ EndSection(o, lrq_lock[w], lbl_pending[lrq_lock[w]], {})
      /\ release(o, OwnBlocks(o), {})
      /\ pc' = [pc EXCEPT ![o] = "idle"] /\ wreq' = [wreq EXCEPT ![o] = NULL]
      /\ UNCHANGED <<lrq_lock, lrq_owner, lrq_state, lrq_flags, lrq_ast,
                     lblVars, own_pending, own_flags, lhb_owners>>
  BY <1>1, Zenon DEF deny_convert
<1>3. lrq_lock[w] \in Locks /\ lbl_pending[lrq_lock[w]] \in Nat
  BY <1>1, OwnedRequest, Zenon DEF IInv, Queues, Table, TypeLocks
<1>4. TypeMutex' /\ purging' = {}
  <2>1. EndSection(o, lrq_lock[w], lbl_pending[lrq_lock[w]], {}) /\ {} \in SUBSET Owners
    BY <1>2, Zenon
  <2> QED
    BY <1>3, <2>1, SectionEnds, Zenon
<1>5. /\ \A s \in Requests : lrq_owner'[s] = lrq_owner[s] /\ lrq_lock'[s] = lrq_lock[s]
      /\ \A s \in Requests : Pending(s)' <=> Pending(s)
  BY <1>2, Zenon DEF Pending
<1>6. /\ lrq_requested' \in [Requests -> Level]
      /\ lrq_flags' \in [Requests -> SUBSET LrqFlags]
      /\ lrq_ast' \in [Requests -> BOOLEAN]
  BY <1>1, <1>2, Zenon DEF IInv, Queues, Table, TypeRequests
<1>7. Queues'
  BY <1>2, <1>5, <1>6, QueuesKept, Zenon DEF IInv
<1> USE DEF IInv, Processes
<1>8. /\ own_signaled' \in [Owners -> BOOLEAN]
      /\ ast' \in [Owners -> Requests \cup {NULL, "loop"}]
      /\ \A q \in Owners : q # o => ast'[q] = ast[q]
      /\ ast'[o] \in {NULL, "loop"}
  BY <1>2, ReleaseReturns, Zenon
<1>9. TypeOwners' /\ TypeProcesses'
  BY <1>2, <1>8, Zenon DEF TypeOwners, TypeProcesses, PC
<1>10. Attached(o) /\ Attached(o)' /\ ~InCall(o)' /\ o \in lhb_owners /\ lhb_owners' = lhb_owners
  BY <1>1, <1>2, Zenon DEF Attached, InCall, TypeProcesses, OwnersInTable
<1>11. \A q \in Owners : q # o => pc'[q] = pc[q] /\ wreq'[q] = wreq[q] /\ ast'[q] = ast[q]
  BY <1>2, <1>8, Zenon DEF TypeProcesses
<1>12. OthersKept(o)
  BY <1>5, <1>10, <1>11, Zenon DEF OthersKept, OwnersInTable
<1>13. \A s \in Requests : lrq_owner'[s] = o => ~Pending(s)'
  BY <1>1, <1>5, <1>10, NotWaiting, Zenon
<1>14. OwnInOrder(o)
  BY <1>4, <1>8, <1>10, <1>13, NullAssumption, Zenon DEF OwnInOrder
<1> HIDE DEF IInv, Processes
<1> QED
  BY <1>4, <1>7, <1>9, <1>12, <1>14, ProcessesKept, Zenon

(* A waiter that finds its request decided once it has the mutex keeps the *)
(* invariant.                                                              *)
LEMMA WaitResolvedStep ==
  ASSUME IInv, NEW o \in Owners, wait_resolved(o) \/ scan_granted(o)
  PROVE  IInv'
<1>1. /\ pc[o] \in {"wait", "scan"} /\ ~Pending(wreq[o])
      /\ own_flags' \in {[own_flags EXCEPT ![o] = @ \ {"wakeup"}], own_flags}
      /\ pc' = [pc EXCEPT ![o] = "exit"]
      /\ EndSection(o, NULL, 0, {})
      /\ release(o, OwnBlocks(o), {})
      /\ UNCHANGED <<lrqVars, lblVars, own_pending, lhb_owners, wreq>>
  BY Zenon DEF wait_resolved, scan_granted, InScan
<1>2. Queues'
  BY <1>1, QueuesUnchanged, Zenon DEF IInv
<1>3. WaitKeeps(o)
  BY <1>1, Zenon DEF WaitKeeps, lrqVars, Pending, IInv, Processes, TypeOwners
<1> QED
  BY <1>1, <1>2, <1>3, WaitReleases, Zenon

(* A time out rejects the request, which is no longer counted as pending.  *)
LEMMA WaitTimeoutStep ==
  ASSUME IInv, NEW o \in Owners, wait_timeout(o)
  PROVE  IInv'
<1>1. PICK r \in Requests : r = wreq[o] /\ lrq_owner[r] = o /\ lrq_lock[r] \in Locks
  BY WaitedFor, Zenon DEF wait_timeout, StillPending
<1>2. /\ pc[o] = "wait" /\ Pending(r)
      /\ lrq_flags' = Reject(r)
      /\ lbl_pending' = [lbl_pending EXCEPT ![lrq_lock[r]] = @ - 1]
      /\ own_flags' = [own_flags EXCEPT ![o] = @ \ {"wakeup"}]
      /\ pc' = [pc EXCEPT ![o] = "exit"]
      /\ EndSection(o, NULL, 0, {})
      /\ release(o, OwnBlocks(o), {})
      /\ UNCHANGED <<lrq_lock, lrq_owner, lrq_requested, lrq_state, lrq_ast,
                     lbl_requests, lbl_counts, lbl_state, own_pending, lhb_owners, wreq>>
  BY <1>1, Zenon DEF wait_timeout, StillPending
<1>3. Queues' /\ ~Pending(r)' /\ \A s \in Requests : s # r => (Pending(s)' <=> Pending(s))
  BY <1>1, <1>2, QueuesReject, Zenon DEF IInv
<1>4. ~Pending(wreq[o])'
  BY <1>1, <1>2, <1>3, Zenon DEF Pending
<1>5. WaitKeeps(o)
  BY <1>2, <1>3, <1>4, Zenon DEF WaitKeeps, IInv, Processes, TypeOwners
<1> QED
  BY <1>2, <1>3, <1>5, WaitReleases, Zenon

(* probe_owners() selects only owners that are dead to be purged.          *)
LEMMA WaitProbeStep ==
  ASSUME IInv, NEW o \in Owners, wait_probe(o)
  PROVE  IInv'
<1> USE DEF IInv, Processes
<1>1. /\ pc[o] = "wait" /\ ast[o] = NULL
      /\ own_flags' = [own_flags EXCEPT ![o] = @ \ {"wakeup"}]
      /\ pc' = [pc EXCEPT ![o] = "scan"]
      /\ lhb_active' = o /\ posting' = NULL /\ cursor' = 1 /\ purging' = DeadOwners
      /\ UNCHANGED <<lrqVars, lblVars, own_pending, own_signaled, lhb_owners, wreq, ast>>
  BY Zenon DEF wait_probe, StillPending
<1>2. Queues'
  BY <1>1, QueuesUnchanged, Zenon
<1>3. WaitKeeps(o)
  BY <1>1, Zenon DEF WaitKeeps, lrqVars, Pending, TypeOwners
<1>4. TypeMutex' /\ \A q \in purging' : Dead(q)
  BY <1>1, Zenon DEF TypeMutex, DeadOwners, TypeOwners
<1>5. /\ own_signaled' \in [Owners -> BOOLEAN]
      /\ ast' \in [Owners -> Requests \cup {NULL, "loop"}]
      /\ \A q \in Owners : q # o => ast'[q] = ast[q]
      /\ ast'[o] \in {NULL, "loop"} /\ lhb_active' # NULL
  BY <1>1, NullAssumption, Zenon DEF TypeOwners, TypeProcesses
<1> HIDE DEF IInv, Processes
<1> QED
  BY <1>1, <1>2, <1>3, <1>4, <1>5, WaitGoesOn, Zenon

(* The steps that end with post_blockage().                                *)
LEMMA WaitRepostStep ==
  ASSUME IInv, NEW o \in Owners, wait_woken(o) \/ scan_repost(o)
  PROVE  IInv'
<1>1. PICK r \in Requests : r = wreq[o] /\ lrq_owner[r] = o /\ lrq_lock[r] \in Locks
  BY WaitedFor, Zenon DEF wait_woken, StillPending, scan_repost, InScan
<1>2. /\ pc[o] \in {"wait", "scan"}
      /\ own_flags' \in {[own_flags EXCEPT ![o] = @ \ {"wakeup"}],
                         [own_flags EXCEPT ![o] =
                            IF MustScan(o) /\ ~MaybeDeadlock(r) THEN @ \cup {"scanned"} ELSE @]}
      /\ pc' \in {pc, [pc EXCEPT ![o] = "wait"]}
      /\ post_blockage(o, lrq_lock[r], r, lrq_requested[r], lrq_flags)
      /\ UNCHANGED <<lrq_lock, lrq_owner, lrq_requested, lrq_state, lrq_ast, lblVars,
                     own_pending, lhb_owners, wreq>>
  BY <1>1, Zenon DEF wait_woken, StillPending, scan_repost, InScan
<1>3. lrq_flags \in [Requests -> SUBSET LrqFlags]
  BY Zenon DEF IInv, Queues, Table, TypeRequests
<1>4. /\ lrq_flags' \in [Requests -> SUBSET LrqFlags]
      /\ \A s \in Requests : "pending" \in lrq_flags'[s] <=> "pending" \in lrq_flags[s]
      /\ \A s \in Requests : lrq_lock[s] # lrq_lock[r] => lrq_flags'[s] = lrq_flags[s]
      /\ TypeMutex'
      /\ purging' \in SUBSET Owners
      /\ \A q \in purging' : Dead(q)
      /\ lhb_active' = NULL => purging' = {}
      /\ own_signaled' \in [Owners -> BOOLEAN]
      /\ ast' \in [Owners -> Requests \cup {NULL, "loop"}]
      /\ \A q \in Owners : q # o => ast'[q] = ast[q]
      /\ ast'[o] \in {NULL, "loop"}
  BY <1>1, <1>2, <1>3, BlockageEffect, Zenon
<1>5. /\ \A s \in Requests : Pending(s)' <=> Pending(s)
      /\ \A s \in Requests : lrq_lock[s] = NULL => lrq_flags'[s] = lrq_flags[s]
  BY <1>1, <1>4, NullAssumption, Zenon DEF Pending
<1>6. lrq_requested' \in [Requests -> Level] /\ lrq_ast' \in [Requests -> BOOLEAN]
  BY <1>2, Zenon DEF IInv, Queues, Table, TypeRequests
<1>7. Queues'
  BY <1>2, <1>4, <1>5, <1>6, QueuesKept, Zenon DEF IInv
<1>8. own_flags' \in [Owners -> SUBSET OwnFlags]
  BY <1>2 DEF IInv, Processes, TypeOwners, OwnFlags
<1>9. /\ lrq_owner' = lrq_owner /\ lrq_lock' = lrq_lock
      /\ own_pending' \in [Owners -> Requests \cup {NULL}]
      /\ lhb_owners' = lhb_owners /\ wreq' = wreq
  BY <1>2, Zenon DEF IInv, Processes, TypeOwners
<1>10. pc' = pc \/ pc' = [pc EXCEPT ![o] = "wait"]
  BY <1>2, Zenon
<1>11. WaitKeeps(o)
  BY <1>5, <1>8, <1>9, <1>10, Zenon DEF WaitKeeps
<1> QED
  BY <1>2, <1>4, <1>7, <1>11, WaitGoesOn, Zenon

(* The victim of a deadlock, which may belong to another process, is       *)
(* rejected and no longer counted as pending.                              *)
LEMMA ScanDeadlockStep ==
  ASSUME IInv, NEW o \in Owners, scan_deadlock(o)
  PROVE  IInv'
<1>1. PICK r \in PendingRequests :
        /\ lrq_flags' = Reject(r)
        /\ lbl_pending' = [lbl_pending EXCEPT ![lrq_lock[r]] = @ - 1]
        /\ own_pending' = [own_pending EXCEPT ![lrq_owner[r]] = NULL]
        /\ own_flags' = [own_flags EXCEPT ![lrq_owner[r]] =
              (@ \ {"scanned"}) \cup (IF r # wreq[o] THEN {"wakeup"} ELSE {})]
        /\ pc' = [pc EXCEPT ![o] = IF r = wreq[o] THEN "exit" ELSE "wait"]
  BY Zenon DEF scan_deadlock, reject_victim
<1>2. /\ pc[o] = "scan"
      /\ EndSection(o, NULL, 0, {})
      /\ release(o, OwnBlocks(o), {})
      /\ UNCHANGED <<lrq_lock, lrq_owner, lrq_requested, lrq_state, lrq_ast,
                     lbl_requests, lbl_counts, lbl_state, lhb_owners, wreq>>
  BY Zenon DEF scan_deadlock, InScan
<1>3. r \in Requests /\ Pending(r) /\ lrq_lock[r] \in Locks
  BY OwnedRequest, Zenon DEF PendingRequests
<1>4. Queues' /\ ~Pending(r)' /\ \A s \in Requests : s # r => (Pending(s)' <=> Pending(s))
  BY <1>1, <1>2, <1>3, QueuesReject, Zenon DEF IInv
<1>5. /\ own_pending' \in [Owners -> Requests \cup {NULL}]
      /\ own_flags' \in [Owners -> SUBSET OwnFlags]
  BY <1>1, Zenon DEF IInv, Processes, TypeOwners, OwnFlags
<1>6. \/ pc' = [pc EXCEPT ![o] = "wait"]
      \/ pc' = [pc EXCEPT ![o] = "exit"] /\ ~Pending(wreq[o])'
  <2>1. CASE r = wreq[o]
    BY <1>1, <1>2, <1>4, <2>1, Zenon DEF Pending
  <2>2. CASE r # wreq[o]
    BY <1>1, <2>2, Zenon
  <2> QED
    BY <2>1, <2>2, Zenon
<1>7. WaitKeeps(o)
  BY <1>2, <1>4, <1>5, <1>6, Zenon DEF WaitKeeps
<1> QED
  BY <1>2, <1>4, <1>7, WaitReleases, Zenon

(* Blocking ASTs.                                                          *)
LEMMA BlockingStep ==
  ASSUME IInv, NEW o \in Owners,
         blocking_action(o) \/ blocking_action_end(o) \/ signal_dropped(o) \/ ast_note(o)
  PROVE  IInv'
<1> USE DEF IInv, Processes
<1>1. /\ UNCHANGED <<lrq_lock, lrq_owner, lrq_requested, lrq_state, lrq_ast, lblVars,
                     own_pending, own_flags, lhb_owners, mutexVars, pc, wreq>>
      /\ own_signaled' \in {own_signaled, [own_signaled EXCEPT ![o] = FALSE]}
  BY Zenon DEF blocking_action, blocking_action_end, signal_dropped, ast_note, lrqVars, ownVars,
     procVars
<1>2. \/ lrq_flags' = lrq_flags
      \/ \E r \in Requests :
           /\ lrq_owner[r] = o
           /\ lrq_flags' = [lrq_flags EXCEPT ![r] = (@ \ {"blocking"}) \cup {"blocking_seen"}]
  BY Zenon DEF blocking_action, blocking_action_end, signal_dropped, ast_note, lrqVars, OwnBlocks
<1>3. /\ ast' \in [Owners -> Requests \cup {NULL, "loop"}]
      /\ \A q \in Owners : q # o => ast'[q] = ast[q]
      /\ ast'[o] \in Requests => lrq_owner[ast'[o]] = o
  <2>1. CASE blocking_action(o)
    BY <2>1, Zenon DEF blocking_action, OwnBlocks, TypeProcesses
  <2>2. CASE blocking_action_end(o) \/ ast_note(o)
    BY <2>2, NullAssumption, Zenon DEF blocking_action_end, ast_note, TypeProcesses
  <2>3. CASE signal_dropped(o)
    BY <2>3, Zenon DEF signal_dropped, procVars, TypeProcesses, WaitersOwn
  <2> QED
    BY <2>1, <2>2, <2>3, Zenon
<1>4. ~Attached(o) => ast'[o] = NULL
  <2>1. CASE signal_dropped(o)
    BY <2>1, Zenon DEF signal_dropped, procVars, WaitersOwn
  <2>2. CASE ast_note(o)
    BY <2>2, NullAssumption, Zenon DEF ast_note, InRoutine, WaitersOwn
  <2>3. CASE blocking_action(o) \/ blocking_action_end(o)
    BY <2>3, Zenon DEF blocking_action, blocking_action_end, Signaled, Attached
  <2> QED
    BY <2>1, <2>2, <2>3, Zenon
<1>5. /\ lrq_flags' \in [Requests -> SUBSET LrqFlags]
      /\ \A s \in Requests : Pending(s)' <=> Pending(s)
      /\ \A s \in Requests : lrq_lock[s] = NULL => lrq_flags'[s] = lrq_flags[s]
  <2>1. CASE lrq_flags' = lrq_flags
    BY <2>1, Zenon DEF Queues, Table, TypeRequests, Pending
  <2>2. ASSUME NEW r \in Requests, lrq_owner[r] = o,
               lrq_flags' = [lrq_flags EXCEPT ![r] = (@ \ {"blocking"}) \cup {"blocking_seen"}]
        PROVE  <1>5!:
    <3>1. lrq_lock[r] \in Locks
      BY <2>2, OwnedRequest, Zenon
    <3> QED
      BY <2>2, <3>1, NullAssumption, Zenon DEF Queues, Table, TypeRequests, Pending, LrqFlags
  <2> QED
    BY <1>2, <2>1, <2>2, Zenon
<1>6. lrq_requested' \in [Requests -> Level] /\ lrq_ast' \in [Requests -> BOOLEAN]
  BY <1>1, Zenon DEF Queues, Table, TypeRequests
<1>7. Queues'
  BY <1>1, <1>5, <1>6, QueuesKept, Zenon
<1>8. TypeOwners' /\ TypeMutex' /\ TypeProcesses'
  BY <1>1, <1>3, Zenon DEF TypeOwners, TypeMutex, TypeProcesses, mutexVars
<1>9. \A q \in Owners : (Attached(q)' <=> Attached(q)) /\ (InCall(q)' <=> InCall(q))
  BY <1>1, Zenon DEF Attached, InCall
<1>10. OwnersInTable' /\ PurgedAreGone'
  BY <1>1, Zenon DEF OwnersInTable, PurgedAreGone, Attached, mutexVars
<1>11. WaitersOwn'
  <2>1. lrq_owner' = lrq_owner /\ wreq' = wreq
    BY <1>1, Zenon
  <2> QED
    BY <1>3, <1>4, <1>9, <2>1, Zenon DEF WaitersOwn
<1>12. PendingIsWaited'
  BY <1>1, <1>5, Zenon DEF PendingIsWaited, Attached
<1> QED
  BY <1>7, <1>8, <1>10, <1>11, <1>12, Zenon

(* A blocking routine that releases, downgrades or only takes note keeps   *)
(* the invariant.                                                          *)
LEMMA RoutineStep ==
  ASSUME IInv, NEW o \in Owners, ast_release(o) \/ ast_downgrade(o)
  PROVE  IInv'
<1>1. PICK r \in Requests : /\ r = ast[o] /\ r # wreq[o]
                            /\ dequeue(o, r) \/ downgrade(o, r)
  BY Zenon DEF ast_release, ast_downgrade, InRoutine
<1>2. lrq_owner[r] = o /\ Attached(o)
  BY <1>1, NullAssumption, Zenon DEF IInv, Processes, WaitersOwn
<1> QED
  BY <1>1, <1>2, Dequeued, Downgraded, Zenon

(* Processes that come, leave and die.                                     *)
LEMMA ProcessStep ==
  ASSUME IInv, NEW o \in Owners, Process(o)
  PROVE  IInv'
<1> USE DEF IInv, Processes
<1>1. UNCHANGED <<lrqVars, lblVars, own_pending, own_flags, own_signaled>>
  BY Zenon DEF Process, LOCK_init_purge, LOCK_init, LOCK_fini, Crash, CrashHolder, Restart,
     ownVars
<1>2. Queues'
  BY <1>1, QueuesUnchanged, Zenon
<1>3. /\ lrq_owner' = lrq_owner /\ lrq_lock' = lrq_lock
      /\ \A s \in Requests : Pending(s)' <=> Pending(s)
  BY <1>1, Zenon DEF lrqVars, Pending
<1>4. CASE LOCK_init(o)
  <2>1. /\ pc[o] \in {"none", "init"} /\ o \notin lhb_owners
        /\ pc' = [pc EXCEPT ![o] = "idle"] /\ lhb_owners' = lhb_owners \cup {o}
        /\ EndSection(o, NULL, 0, DeadOwners) /\ wreq' = wreq /\ ast' = ast
    BY <1>4, Zenon DEF LOCK_init
  <2>2. DeadOwners \in SUBSET Owners /\ o \notin DeadOwners /\ \A q \in DeadOwners : Dead(q)
    BY <2>1, Zenon DEF DeadOwners, TypeOwners
  <2>3. TypeMutex' /\ purging' = DeadOwners /\ (lhb_active' = NULL => purging' = {})
    BY <2>1, <2>2, SectionEnds, Zenon
  <2>4. TypeOwners' /\ TypeProcesses'
    BY <1>1, <2>1, Zenon DEF TypeOwners, TypeProcesses, PC
  <2>5. /\ pc'[o] = "idle" /\ \A q \in Owners : q # o => pc'[q] = pc[q]
        /\ ast[o] = NULL
    BY <2>1, Zenon DEF TypeProcesses, WaitersOwn, Attached
  <2>6. OwnersInTable'
    BY <1>3, <2>1, <2>5, Zenon DEF OwnersInTable, Attached
  <2>7. WaitersOwn'
    BY <1>3, <2>1, <2>5, NullAssumption, Zenon DEF WaitersOwn, Attached, InCall
  <2>8. \A r \in Requests : Pending(r) => lrq_owner[r] \in Owners \ {o}
    BY <2>1, OwnedRequest, NullAssumption, Zenon DEF OwnersInTable
  <2>9. PendingIsWaited'
    <3> SUFFICES ASSUME NEW r \in Requests, Pending(r)', Attached(lrq_owner[r])'
                 PROVE  pc'[lrq_owner'[r]] \in {"wait", "scan"} /\ wreq'[lrq_owner'[r]] = r
      BY Zenon DEF PendingIsWaited, Pending, Attached
    <3>1. Pending(r) /\ lrq_owner'[r] = lrq_owner[r] /\ lrq_owner[r] \in Owners \ {o}
      BY <1>3, <2>8, Zenon
    <3>2. pc'[lrq_owner[r]] = pc[lrq_owner[r]] /\ wreq' = wreq
      BY <2>1, <2>5, <3>1, Zenon
    <3>3. Attached(lrq_owner[r])
      BY <3>1, <3>2, Zenon DEF Attached
    <3>4. pc[lrq_owner[r]] \in {"wait", "scan"} /\ wreq[lrq_owner[r]] = r
      BY <3>1, <3>3, Zenon DEF PendingIsWaited
    <3> QED
      BY <3>1, <3>2, <3>4, Zenon
  <2>10. PurgedAreGone'
    BY <2>2, <2>3, <2>5, Zenon DEF PurgedAreGone, Dead, Attached
  <2> QED
    BY <1>2, <2>3, <2>4, <2>6, <2>7, <2>9, <2>10, Zenon
<1>5. CASE LOCK_init_purge(o) \/ LOCK_fini(o)
  <2>1. /\ pc[o] \in {"none", "idle"} /\ pc' \in {[pc EXCEPT ![o] = "init"], [pc EXCEPT ![o] =
             "fini"]}
        /\ EndSection(o, NULL, 0, {o}) /\ wreq' = wreq /\ ast' = ast /\ lhb_owners' = lhb_owners
        /\ pc[o] = "idle" => ast[o] = NULL
    BY <1>5, Zenon DEF LOCK_init_purge, LOCK_fini, MayCall, ownVars
  <2>2. TypeMutex' /\ purging' = {o} /\ (lhb_active' = NULL => purging' = {})
    BY <2>1, SectionEnds
  <2>3. ast[o] = NULL /\ pc'[o] \in {"init", "fini"} /\ \A q \in Owners : q # o => pc'[q] = pc[q]
    BY <2>1, Zenon DEF WaitersOwn, Attached, TypeProcesses
  <2>4. TypeOwners' /\ TypeProcesses'
    BY <1>1, <2>1, Zenon DEF TypeOwners, TypeProcesses, PC
  <2>5. OwnersInTable'
    BY <1>3, <2>1, <2>3, Zenon DEF OwnersInTable, Attached
  <2>6. WaitersOwn'
    BY <1>3, <2>1, <2>3, NullAssumption, Zenon DEF WaitersOwn, Attached, InCall
  <2>7. \A r \in Requests : Pending(r) => lrq_owner[r] \in Owners
    BY OwnedRequest, NullAssumption, Zenon
  <2>8. PendingIsWaited'
    BY <1>3, <2>1, <2>3, <2>7, Zenon DEF PendingIsWaited, Attached
  <2>9. PurgedAreGone'
    BY <2>2, <2>3, Zenon DEF PurgedAreGone, Attached
  <2> QED
    BY <1>2, <2>2, <2>4, <2>5, <2>6, <2>8, <2>9, Zenon
<1>6. CASE Crash(o) \/ CrashHolder(o) \/ Restart(o)
  <2>1. /\ pc' \in {[pc EXCEPT ![o] = "dead"], [pc EXCEPT ![o] = "none"]}
        /\ lhb_owners' = lhb_owners
        /\ \/ wreq' = wreq /\ ast' = ast /\ pc[o] = "dead"
           \/ wreq' = [wreq EXCEPT ![o] = NULL] /\ ast' = [ast EXCEPT ![o] = NULL]
        /\ \/ UNCHANGED <<lhb_active, posting, cursor, purging>>
           \/ lhb_active' = NULL /\ posting' = NULL /\ cursor' = 1 /\ purging' = {}
    BY <1>6, Zenon DEF Crash, CrashHolder, Restart, mutexVars, ownVars
  <2>2. /\ pc'[o] \in {"dead", "none"} /\ ast'[o] = NULL
        /\ \A q \in Owners : q # o => pc'[q] = pc[q] /\ wreq'[q] = wreq[q] /\ ast'[q] = ast[q]
    BY <2>1, Zenon DEF WaitersOwn, Attached, TypeProcesses
  <2>3. TypeOwners' /\ TypeProcesses'
    BY <1>1, <2>1, Zenon DEF TypeOwners, TypeProcesses, PC
  <2>4. TypeMutex'
    BY <2>1 DEF TypeMutex
  <2>5. OwnersInTable'
    BY <1>3, <2>1, <2>2, Zenon DEF OwnersInTable, Attached
  <2>6. WaitersOwn'
    BY <1>3, <2>2, NullAssumption, SMTT(30) DEF WaitersOwn, Attached, InCall
  <2>7. \A r \in Requests : Pending(r) => lrq_owner[r] \in Owners
    BY OwnedRequest, NullAssumption, Zenon
  <2>8. PendingIsWaited'
    BY <1>3, <2>2, <2>7, Zenon DEF PendingIsWaited, Attached
  <2>9. \A q \in purging' : q \in purging /\ q \in Owners
    BY <2>1, Zenon DEF TypeMutex
  <2>10. PurgedAreGone'
    BY <2>1, <2>2, <2>9, Zenon DEF PurgedAreGone, Attached
  <2> QED
    BY <1>2, <2>3, <2>4, <2>5, <2>6, <2>8, <2>10, Zenon
<1> QED
  BY <1>4, <1>5, <1>6, Zenon DEF Process

-----------------------------------------------------------------------------
(* The empty table of init_lock_table() satisfies the invariant.           *)
LEMMA InitInvariant ==
  Init => IInv
<1> SUFFICES ASSUME Init PROVE IInv
  OBVIOUS
<1> USE DEF Init
<1>1. LCK_none \in Level
  BY DEF Level, LCK_none, LCK_EX
<1>2. TypeRequests
  BY <1>1, Zenon DEF TypeRequests
<1>3. TypeLocks
  BY <1>1 DEF TypeLocks
<1>4. \A l \in Locks : RequestsOf(l) = {}
  BY NullAssumption, Zenon DEF RequestsOf
<1>5. HolderCounts
  <2> SUFFICES ASSUME NEW l \in Locks, NEW v \in LCK_null .. LCK_EX
               PROVE  lbl_counts[l][v] = Cardinality({r \in RequestsOf(l) : lrq_state[r] = v})
    BY Zenon DEF HolderCounts
  <2>1. {r \in RequestsOf(l) : lrq_state[r] = v} = {}
    BY <1>4, Zenon
  <2>2. lbl_counts[l][v] = 0
    BY DEF Level, LCK_none, LCK_null, LCK_EX
  <2> QED
    BY <2>1, <2>2, FS_EmptySet, Zenon
<1>6. HighestLevel
  <2>1. lock_state([v \in Level |-> 0]) = LCK_none
    BY DEF lock_state, Level, LCK_none, LCK_null, LCK_EX
  <2> QED
    BY <2>1, Zenon DEF HighestLevel
<1>7. PendingCount
  BY <1>4, FS_EmptySet, Zenon DEF PendingCount
<1>8. GrantedCompatible /\ FreeRequests
  BY Zenon DEF GrantedCompatible, FreeRequests
<1>9. QueueOfLock
  BY <1>4 DEF QueueOfLock
<1>10. TypeOwners /\ TypeMutex /\ TypeProcesses
  BY Zenon DEF TypeOwners, TypeMutex, TypeProcesses, PC
<1>11. OwnersInTable /\ WaitersOwn /\ PurgedAreGone
  BY NullAssumption, Zenon DEF OwnersInTable, WaitersOwn, PurgedAreGone, Attached, InCall
<1>12. PendingIsWaited
  BY Zenon DEF PendingIsWaited, Pending
<1> QED
  BY <1>2, <1>3, <1>5, <1>6, <1>7, <1>8, <1>9, <1>10, <1>11, <1>12, Zenon
     DEF IInv, Queues, Processes, Table

(* Every step of every process keeps the invariant.                        *)
LEMMA StepInvariant ==
  IInv /\ [Next]_vars => IInv'
<1> SUFFICES ASSUME IInv, [Next]_vars PROVE IInv'
  OBVIOUS
<1>1. ASSUME NEW o \in Owners, Calls(o) PROVE IInv'
  BY <1>1, EnqStep, ConvertStep, ReleaseStep, Zenon DEF Calls
<1>2. ASSUME NEW o \in Owners, Loops(o) PROVE IInv'
  BY <1>2, PostGrantStep, PostBlockStep, PostEndStep, PurgeRequestStep, PurgeOwnerStep, Zenon DEF
     Loops
<1>3. ASSUME NEW o \in Owners, Waiting(o) PROVE IInv'
  BY <1>3, WaitExitStep, WaitResolvedStep, DenyEnqStep, DenyConvertStep, WaitTimeoutStep,
     WaitRepostStep, WaitProbeStep, ScanDeadlockStep, Zenon DEF Waiting
<1>4. ASSUME NEW o \in Owners, Blocking(o) PROVE IInv'
  BY <1>4, BlockingStep, RoutineStep, Zenon DEF Blocking
<1>5. ASSUME NEW o \in Owners, Process(o) PROVE IInv'
  BY <1>5, ProcessStep, Zenon
<1>6. CASE UNCHANGED vars
  <2>1. UNCHANGED <<lrqVars, lblVars, ownVars, mutexVars, procVars>>
    BY <1>6, Zenon DEF vars
  <2>2. Queues'
    BY <2>1, QueuesUnchanged, Zenon DEF IInv
  <2>3. TypeOwners' /\ TypeMutex' /\ TypeProcesses'
    BY <2>1, Zenon DEF IInv, Processes, TypeOwners, TypeMutex, TypeProcesses, ownVars, mutexVars,
       procVars
  <2>4. OwnersInTable' /\ WaitersOwn' /\ PurgedAreGone'
    BY <2>1, Zenon DEF IInv, Processes, OwnersInTable, WaitersOwn, PurgedAreGone, Attached,
       InCall,
       lrqVars, ownVars, mutexVars, procVars
  <2>5. PendingIsWaited'
    BY <2>1, Zenon DEF IInv, Processes, PendingIsWaited, Pending, Attached, lrqVars, procVars
  <2> QED
    BY <2>2, <2>3, <2>4, <2>5, Zenon DEF IInv, Processes
<1> QED
  BY <1>1, <1>2, <1>3, <1>4, <1>5, <1>6, Zenon DEF Next

(* The inductive invariant holds in every state of the lock manager.       *)
THEOREM Invariance ==
  Spec => []IInv
BY InitInvariant, StepInvariant, PTL DEF Spec

(* Every field of the lock table, the owner blocks and the processes keeps *)
(* its type; the counts of a lock block never drop below zero.             *)
THEOREM TypeCorrect ==
  Spec => []TypeOK
<1>1. IInv => TypeOK
  BY Zenon DEF IInv, Queues, Processes, Table, TypeOK
<1> QED
  BY <1>1, Invariance, PTL

(* Mutual exclusion: no two requests are ever granted levels on one lock   *)
(* that the compatibility table forbids together, for any number of        *)
(* processes, locks and requests, with or without LOCK_ordering, and       *)
(* whichever processes die, even while they hold the mutex.                *)
THEOREM MutualExclusion ==
  Spec => []GrantedCompatible
<1>1. IInv => GrantedCompatible
  BY Zenon DEF IInv, Queues, Table
<1> QED
  BY <1>1, Invariance, PTL

(* The counts, the state and the number of pending requests in a lock      *)
(* block always describe its queue, which every decision to grant relies   *)
(* on.                                                                     *)
THEOREM SummaryIsExact ==
  Spec => []SummaryOfQueue
<1>1. IInv => SummaryOfQueue
  BY Zenon DEF IInv, Queues, Table, SummaryOfQueue
<1> QED
  BY <1>1, Invariance, PTL

(* Queues, owners and waiters always point to each other; in particular    *)
(* purge_owner() never takes a request away from a process that is alive.  *)
THEOREM LinksHold ==
  Spec => []Links
<1>1. IInv => Links
  BY Zenon DEF IInv, Queues, Processes, Table, Links
<1> QED
  BY <1>1, Invariance, PTL
=============================================================================
