------------------------------- MODULE RWLock -------------------------------
(* What GlobalRWLock promises to its users, the physical backup among      *)
(* them: a reader/writer lock over the logical owners of all processes,    *)
(* taken in one step, and a copy of the protected object in each process   *)
(* that is fresh for as long as somebody there uses the lock.              *)
EXTENDS LockLevels

CONSTANTS Processes, Owners, Home

VARIABLES
  use,             \* what an owner has locked the object for
  fresh            \* processes whose copy is the object as last written

LCK_read == LCK_PR
LCK_write == LCK_EX

Users(p) == {o \in Owners : Home[o] = p /\ use[o] # LCK_none}

Init ==
  /\ use = [o \in Owners |-> LCK_none]
  /\ fresh = {}

(* A writer gets in when nobody else uses the lock; the copies that other  *)
(* processes keep are void from then on, because it may write.             *)
Lock(o, v) ==
  /\ use[o] = LCK_none
  /\ \A n \in Owners : IF v = LCK_write THEN use[n] = LCK_none ELSE use[n] # LCK_write
  /\ use' = [use EXCEPT ![o] = v]
  /\ fresh' = IF v = LCK_write THEN {Home[o]} ELSE fresh \cup {Home[o]}

(* The last user of a process may take the copy along. *)
Unlock(o) ==
  /\ use[o] # LCK_none
  /\ use' = [use EXCEPT ![o] = LCK_none]
  /\ \/ fresh' = fresh
     \/ Users(Home[o]) = {o} /\ fresh' = fresh \ {Home[o]}

Drop(p) ==
  /\ Users(p) = {}
  /\ fresh' = fresh \ {p}
  /\ UNCHANGED use

HandOver(o, new) ==
  /\ Home[o] = Home[new]
  /\ use[o] # LCK_none /\ use[new] = LCK_none
  /\ use' = [use EXCEPT ![o] = LCK_none, ![new] = use[o]]
  /\ UNCHANGED fresh

Next ==
  \/ \E o \in Owners, v \in {LCK_read, LCK_write} : Lock(o, v)
  \/ \E o \in Owners : Unlock(o)
  \/ \E p \in Processes : Drop(p)
  \/ \E o, new \in Owners : HandOver(o, new)

Spec == Init /\ [][Next]_<<use, fresh>>
=============================================================================
