----------------------------- MODULE LockLevels -----------------------------
(***************************************************************************)
(* The lock levels of the lock manager (lock.h) and the compatibility      *)
(* table that every component using the lock manager relies on (lock.cpp). *)
(***************************************************************************)
EXTENDS Integers

LCK_none == 0
LCK_null == 1
LCK_SR == 2
LCK_PR == 3
LCK_SW == 4
LCK_PW == 5
LCK_EX == 6

Level == LCK_none .. LCK_EX

(* The rows of the table "compatibility", one per level from LCK_none to   *)
(* LCK_EX, each as the set of levels whose entry is 1.                     *)
compatibility ==
  <<Level,
    Level,
    Level \ {LCK_EX},
    {LCK_none, LCK_null, LCK_SR, LCK_PR},
    {LCK_none, LCK_null, LCK_SR, LCK_SW},
    {LCK_none, LCK_null, LCK_SR},
    {LCK_none, LCK_null}>>

COMPATIBLE(st1, st2) == st2 \in compatibility[st1 + 1]

MAX(st1, st2) == IF st1 >= st2 THEN st1 ELSE st2
=============================================================================
