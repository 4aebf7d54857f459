----------------------------- MODULE DeltaTable -----------------------------
(* What the physical backup takes the table of the difference file for: a  *)
(* sequence of pages that only grows, in which every process knows the     *)
(* places of some.                                                         *)
EXTENDS Naturals, Sequences

CONSTANTS Processes, Pages

VARIABLES
  items,           \* the pages, in the order they were given a place
  known            \* per process: pages and the places it takes them to have

Init ==
  /\ items = <<>>
  /\ known = [p \in Processes |-> <<>>]

Place(g) == CHOOSE i \in DOMAIN items : items[i] = g

Add(g) ==
  /\ \A i \in DOMAIN items : items[i] # g
  /\ items' = Append(items, g)
  /\ UNCHANGED known

(* The process learns of more pages, and where they really are. *)
Learn(p) ==
  /\ DOMAIN known[p] \subseteq DOMAIN known'[p]
  /\ \A g \in DOMAIN known'[p] :
       /\ \E i \in DOMAIN items : items[i] = g
       /\ known'[p][g] = Place(g)
  /\ \A q \in Processes \ {p} : known'[q] = known[q]
  /\ UNCHANGED items

Forget(p) ==
  /\ known' = [known EXCEPT ![p] = <<>>]
  /\ UNCHANGED items

Next ==
  \/ \E g \in Pages : Add(g)
  \/ \E p \in Processes : Learn(p) \/ Forget(p)

Spec == Init /\ [][Next]_<<items, known>>
=============================================================================
