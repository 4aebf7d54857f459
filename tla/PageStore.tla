----------------------------- MODULE PageStore ------------------------------
(* What the page cache expects of the storage below it, backup or not: a   *)
(* page is read as it was last written, and a crash loses the caches only. *)
EXTENDS Naturals

CONSTANTS Processes, Pages, NULL

VARIABLES
  stable,          \* version of a page that a read returns
  cache,           \* version that a process has in its cache, or NULL
  dirty,           \* pages that a process has changed and not written
  changes          \* the last version

Init ==
  /\ stable = [g \in Pages |-> 0]
  /\ cache = [p \in Processes |-> [g \in Pages |-> NULL]]
  /\ dirty = [p \in Processes |-> {}]
  /\ changes = 0

Clean(g) == \A p \in Processes : g \notin dirty[p]

(* Everything but page g of process p is left alone; clean pages may go.   *)
OthersKept(p, g) ==
  \A q \in Processes, h \in Pages :
    <<q, h>> # <<p, g>> =>
      \/ cache'[q][h] = cache[q][h]
      \/ h \notin dirty[q] /\ cache'[q][h] = NULL

Read(p, g) ==
  /\ cache[p][g] = NULL /\ Clean(g)
  /\ cache'[p][g] = stable[g]
  /\ OthersKept(p, g)
  /\ UNCHANGED <<stable, dirty, changes>>

(* Page g becomes a dirty page of process p, who has the only copy then. *)
Dirty(p, g) ==
  /\ \A q \in Processes \ {p} : g \notin dirty[q] /\ cache'[q][g] = NULL
  /\ OthersKept(p, g)
  /\ dirty' = [dirty EXCEPT ![p] = @ \cup {g}]
  /\ UNCHANGED stable

(* A change makes a new version of an up-to-date copy. *)
Change(p, g) ==
  /\ cache[p][g] # NULL
  /\ Clean(g) => cache[p][g] = stable[g]
  /\ changes' = changes + 1
  /\ cache'[p][g] = changes'
  /\ Dirty(p, g)

(* The page is to be written again, as it is. *)
Mark(p, g) ==
  /\ cache'[p][g] = IF g \in dirty[p] THEN cache[p][g] ELSE stable[g]
  /\ Dirty(p, g)
  /\ UNCHANGED changes

Write(p, g) ==
  /\ g \in dirty[p]
  /\ stable' = [stable EXCEPT ![g] = cache[p][g]]
  /\ dirty' \in {dirty, [dirty EXCEPT ![p] = @ \ {g}]}
  /\ UNCHANGED <<cache, changes>>

Evict ==
  /\ \A q \in Processes, h \in Pages :
       cache'[q][h] = cache[q][h] \/ (h \notin dirty[q] /\ cache'[q][h] = NULL)
  /\ UNCHANGED <<stable, dirty, changes>>

Crash(S) ==
  /\ cache' = [p \in Processes |-> IF p \in S THEN [g \in Pages |-> NULL] ELSE cache[p]]
  /\ dirty' = [p \in Processes |-> IF p \in S THEN {} ELSE dirty[p]]
  /\ UNCHANGED <<stable, changes>>

Next ==
  \/ \E p \in Processes, g \in Pages :
       Read(p, g) \/ Change(p, g) \/ Mark(p, g) \/ Write(p, g)
  \/ \E S \in SUBSET Processes : Crash(S)
  \/ Evict

Spec == Init /\ [][Next]_<<stable, cache, dirty, changes>>
=============================================================================
