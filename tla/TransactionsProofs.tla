------------------------ MODULE TransactionsProofs --------------------------
(***************************************************************************)
(* The inductive invariant of Transactions, the steps that keep it, and    *)
(* the theorems.                                                           *)
(*                                                                         *)
(* The invariant says who may write a state.  A transaction's own process  *)
(* writes it under the lock on its number, or after the reconnection to a  *)
(* transaction in limbo.  Somebody else, in TRA_wait(), sees the lock free,*)
(* then the state active, then writes "dead".  In between nobody takes the *)
(* lock, because locks are only taken on new numbers.                      *)
(***************************************************************************)
EXTENDS Transactions, WellFoundedInduction, TLAPS

TraFields == {"number", "top", "oldest", "oldest_active", "mode", "states",
              "write", "prepared", "sub"}
LocFields == {"n", "active", "oldest_active", "ost", "s", "last", "held", "oldest",
              "state", "commit", "then", "caller"}

TypeOK ==
  /\ hdr \in [next : 0 .. MAX_TRA_NUMBER, oit : Nat \ {0}, oat : Nat, ost : Nat]
  /\ tip \in [Numbers -> {"active", "limbo", "dead", "committed"}]
  /\ data \in [Started -> Processes \cup {"none", "disk"}]
  /\ lock \in [Started -> Nat]
  /\ dbb \in [Processes -> [oit : Nat, oat : Nat, ost : Nat]]
  /\ DOMAIN tra = Processes /\ DOMAIN pc = Processes /\ DOMAIN loc = Processes
  /\ \A p \in Processes : DOMAIN (tra[p]) = TraFields /\ DOMAIN (loc[p]) = LocFields

-----------------------------------------------------------------------------
(* What a process is in the middle of: a read of inventory pages returns   *)
(* to loc.then, TRA_wait() to loc.caller.                                  *)
Reading(p) ==
  pc[p] \in {"cache", "inventory"} \/ (pc[p] = "fetch" /\ loc[p].caller = "idle")
Waiting(p) ==
  \/ pc[p] \in {"look", "kill"}
  \/ pc[p] = "fetch" /\ loc[p].caller # "idle"
  \/ Reading(p) /\ loc[p].then = "look"
Phase(p) ==
  IF Waiting(p) THEN loc[p].caller ELSE IF Reading(p) THEN loc[p].then ELSE pc[p]

Idle(p) == pc[p] \in {"idle", "detached"}
Retaining(p) == pc[p] \in {"retain", "retain_release"}
Writer(p) == tra[p].mode \in {"snapshot", "read_committed"}

(* The numbers whose locks p holds, or which it has reconnected to.        *)
Nums(p) == {n \in Started : n = tra[p].number \/ (Retaining(p) /\ n = loc[p].n)}

(* The state of p's own transaction.                                       *)
Own(p) ==
  LET n == tra[p].number
  IN /\ n \in 1 .. hdr.next
     /\ \/ /\ Writer(p) /\ lock[n] # 0
           /\ Phase(p) \notin {"precommit", "unlock"}
           /\ IF Phase(p) \in {"release", "retain_release"}
                THEN Final(tip[n])
                ELSE /\ tip[n] \in {"active", "limbo"}
                     /\ ~tra[p].prepared => tip[n] = "active"
        \/ /\ tra[p].mode = "read_only"
           /\ IF Phase(p) \in {"unlock", "active", "release"}
                THEN tip[n] = "committed" ELSE tip[n] = "active" /\ lock[n] # 0
        \/ /\ tra[p].mode = "reconnected" /\ pc[p] \in {"active", "release"}
           /\ IF pc[p] = "active" THEN tip[n] = "limbo" ELSE Final(tip[n])

(* The number under which p retains its context.                           *)
Successor(p) ==
  /\ Writer(p) /\ loc[p].state \in {"committed", "dead"}
  /\ loc[p].n \in 1 .. hdr.next /\ loc[p].n # tra[p].number
  /\ lock[loc[p].n] # 0 /\ tip[loc[p].n] = "active"

(* The transaction p waits for has no lock; at the point of being declared *)
(* dead it is still marked active, unless another process was faster.      *)
Awaited(p) ==
  /\ loc[p].caller \in {"scan", "active", "sweeping"}
  /\ loc[p].n \in 1 .. hdr.next /\ lock[loc[p].n] = 0
  /\ pc[p] = "kill" => tip[loc[p].n] \in {"active", "dead"}

(* The values that end up in lock words and on the header page.            *)
Marks(p) ==
  /\ tra[p].mode # "reconnected" =>
       tra[p].top \in Nat \ {0} /\ tra[p].oldest \in Nat \ {0} /\ tra[p].oldest_active \in Nat
  /\ Phase(p) = "scan" => loc[p].active \in Nat \ {0}
  /\ pc[p] \in {"query", "finish"} => loc[p].oldest_active \in Nat \ {0}

(* Where a read of pages returns to; one page is read for a state only.    *)
ReturnsTo(p) ==
  /\ loc[p].then \in {"scan", "look", "active", "sweeping"}
  /\ pc[p] = "fetch" => loc[p].then \in {"active", "sweeping"}

Local(p) ==
  /\ Idle(p) => tra[p].number = 0
  /\ ~Idle(p) => Own(p) /\ Marks(p)
  /\ Retaining(p) => Successor(p)
  /\ Waiting(p) => Awaited(p)
  /\ Reading(p) => ReturnsTo(p)

(* Two processes never hold, or decide, the same transaction.              *)
Disjoint == \A p, q \in Processes : p # q => Nums(p) \cap Nums(q) = {}

Unstarted == \A n \in Started : n > hdr.next => tip[n] = "active" /\ data[n] = "none"

(* Records of n cached by p may be lost: n is dead, or runs in p and has   *)
(* not come to the point of no return.                                     *)
Losable(p, n) ==
  \/ tip[n] = "dead"
  \/ /\ tip[n] = "active" /\ n = tra[p].number /\ Writer(p)
     /\ ~(pc[p] = "retain" /\ loc[p].state = "committed")
Cached == \A n \in Started : \A p \in Processes : data[n] = p => Losable(p, n)

IInv == /\ TypeOK /\ Disjoint /\ Unstarted /\ Cached
        /\ \A p \in Processes : Local(p)

-----------------------------------------------------------------------------
(* What a step of p may do: it leaves the variables of the others alone,   *)
(* changes a state that is not final, its own or an abandoned one, takes   *)
(* locks only on new numbers and gives up none but its own.                *)

Frame(p) == \A q \in Processes \ {p} : tra'[q] = tra[q] /\ pc'[q] = pc[q] /\ loc'[q] = loc[q]

StateStep(p) == \A n \in Started :
  /\ tip'[n] # tip[n] =>
       /\ n <= hdr.next /\ ~Final(tip[n])
       /\ \/ n = tra[p].number /\ (lock[n] # 0 \/ tip[n] = "limbo")
          \/ tip[n] = "active" /\ tip'[n] = "dead" /\ (lock[n] = 0 \/ \A q \in Processes : Idle(q))
  /\ lock'[n] # lock[n] => n \in Nums(p) \/ n > hdr.next
  /\ lock[n] = 0 /\ lock'[n] # 0 => n > hdr.next

NumsStep(p) == \A n \in Nums(p)' :
  n \in Nums(p) \/ \A q \in Processes \ {p} : n \notin Nums(q)

DataStep(p) == \A n \in Started :
  /\ data'[n] # data[n] => n <= hdr.next /\ data'[n] \in {"none", "disk", p}
  /\ data'[n] = p => Losable(p, n)'

Step(p) ==
  /\ TypeOK' /\ hdr.next <= hdr'.next
  /\ Frame(p) /\ StateStep(p) /\ NumsStep(p) /\ DataStep(p) /\ Local(p)'

(* The numbers up to the next one are those of started transactions.       *)
LEMMA Bounds ==
  ASSUME IInv
  PROVE  /\ hdr.next \in Nat /\ 1 .. hdr.next \subseteq Started
         /\ \A n \in Started :
              /\ n \in Nat \ {0} /\ (n > hdr.next <=> ~(n <= hdr.next))
              /\ n <= hdr.next => n \in 1 .. hdr.next
<1>1. hdr.next \in 0 .. MAX_TRA_NUMBER
  BY Zenon DEF IInv, TypeOK
<1> QED BY <1>1, NumbersAssumption DEF Started

(* A step of p leaves what another process relies on: the state and the    *)
(* lock of its numbers, and what it has seen of the one it waits for.      *)
LEMMA OthersKeepLocal ==
  ASSUME IInv, NEW p \in Processes, Step(p), NEW q \in Processes \ {p}
  PROVE  Local(q)'
<1> USE DEF Step
<1>1. tra'[q] = tra[q] /\ pc'[q] = pc[q] /\ loc'[q] = loc[q] /\ Local(q)
  BY Zenon DEF Frame, IInv
<1>2. /\ Idle(q)' = Idle(q) /\ Reading(q)' = Reading(q) /\ Waiting(q)' = Waiting(q)
      /\ Retaining(q)' = Retaining(q) /\ Phase(q)' = Phase(q) /\ Writer(q)' = Writer(q)
  BY <1>1, Zenon DEF Idle, Reading, Waiting, Retaining, Phase, Writer
<1>3. hdr.next \in 0 .. MAX_TRA_NUMBER /\ hdr'.next \in 0 .. MAX_TRA_NUMBER /\ hdr.next <= hdr'.next
  BY Zenon DEF IInv, TypeOK
<1>4. 1 .. hdr.next \subseteq Started /\ 1 .. hdr.next \subseteq 1 .. hdr'.next
  BY <1>3, NumbersAssumption DEF Started
<1>5. ASSUME ~Idle(q), NEW n \in Nums(q), n \in 1 .. hdr.next
      PROVE  /\ lock'[n] = lock[n]
             /\ tip'[n] # tip[n] => tip[n] = "active" /\ lock[n] = 0
  <2>1. n \in Started /\ ~(n > hdr.next) /\ n \notin Nums(p)
    BY <1>3, <1>4, <1>5 DEF IInv, Disjoint
  <2>2. n # tra[p].number
    BY <2>1, Zenon DEF Nums
  <2> QED BY <1>5, <2>1, <2>2, Zenon DEF StateStep
<1>6. ASSUME ~Idle(q) PROVE Own(q)'
  <2>1. Own(q) BY <1>1, <1>6, Zenon DEF Local
  <2> DEFINE n == tra[q].number
  <2>2. n \in 1 .. hdr.next /\ n \in Nums(q)
    BY <2>1, <1>4, Zenon DEF Own, Nums
  <2>3. lock'[n] = lock[n] /\ (tip'[n] # tip[n] => tip[n] = "active" /\ lock[n] = 0)
    BY <2>2, <1>5, <1>6, Zenon
  <2>4. n \in 1 .. hdr'.next
    BY <2>2, <1>4, Zenon
  <2> QED BY <2>1, <2>3, <2>4, <1>1, <1>2, Zenon DEF Own, Final
<1>7. ASSUME ~Idle(q) PROVE Marks(q)'
  BY <1>1, <1>2, <1>7, Zenon DEF Local, Marks
<1>8. ASSUME Retaining(q) PROVE Successor(q)'
  <2>1. Successor(q) /\ ~Idle(q) BY <1>1, <1>8, Zenon DEF Local, Retaining, Idle
  <2> DEFINE n == loc[q].n
  <2>2. n \in 1 .. hdr.next /\ n \in Nums(q)
    BY <2>1, <1>4, <1>8, Zenon DEF Successor, Nums
  <2>3. lock'[n] = lock[n] /\ (tip'[n] # tip[n] => tip[n] = "active" /\ lock[n] = 0)
    BY <2>1, <2>2, <1>5, Zenon
  <2>4. n \in 1 .. hdr'.next
    BY <2>2, <1>4, Zenon
  <2> QED BY <2>1, <2>3, <2>4, <1>1, <1>2, Zenon DEF Successor
<1>9. ASSUME Waiting(q) PROVE Awaited(q)'
  <2>1. Awaited(q) BY <1>1, <1>9, Zenon DEF Local
  <2> DEFINE n == loc[q].n
  <2>2. n \in 1 .. hdr.next /\ n \in Started /\ ~(n > hdr.next) /\ lock[n] = 0
    BY <2>1, <1>3, <1>4 DEF Awaited
  <2>3. lock'[n] = 0 /\ n \in 1 .. hdr'.next
    BY <2>2, <1>4, Zenon DEF StateStep
  <2>4. pc[q] = "kill" => tip'[n] \in {"active", "dead"}
    BY <2>1, <2>2, Zenon DEF StateStep, Awaited
  <2> QED BY <2>1, <2>3, <2>4, <1>1, Zenon DEF Awaited
<1> QED BY <1>1, <1>2, <1>6, <1>7, <1>8, <1>9, Zenon DEF Local, ReturnsTo

(* What every action is shown to do is enough to keep the invariant.       *)
LEMMA StepKeepsInvariant ==
  ASSUME IInv, NEW p \in Processes, Step(p)
  PROVE  IInv'
<1> USE DEF Step
<1>1. \A q \in Processes : Local(q)'
  BY OthersKeepLocal, Zenon
<1>2. \A q \in Processes \ {p} : Nums(q)' = Nums(q)
  BY Zenon DEF Nums, Frame, Retaining
<1>3. Disjoint'
  BY <1>2 DEF IInv, Disjoint, NumsStep
<1>4. Unstarted'
  <2> SUFFICES ASSUME NEW n \in Started, n > hdr'.next
               PROVE  tip'[n] = "active" /\ data'[n] = "none"
    BY Zenon DEF Unstarted
  <2>1. n > hdr.next /\ ~(n <= hdr.next)
    <3>1. hdr'.next \in Nat
      BY DEF TypeOK
    <3> QED BY <3>1, Bounds
  <2> QED BY <2>1, Zenon DEF IInv, Unstarted, StateStep, DataStep
<1>5. Cached'
  <2> SUFFICES ASSUME NEW n \in Started, NEW q \in Processes \ {p}, data'[n] = q
               PROVE  Losable(q, n)'
    BY Zenon DEF Cached, DataStep
  <2>1. data[n] = q
    BY NumbersAssumption, Zenon DEF DataStep
  <2>2. Losable(q, n)
    BY <2>1, Zenon DEF IInv, Cached
  <2>3. tip'[n] # tip[n] => tip'[n] = "dead" \/ n = tra[p].number
    BY Zenon DEF StateStep
  <2>4. n = tra[q].number => n # tra[p].number
    BY Zenon DEF IInv, Disjoint, Nums
  <2> QED BY <2>2, <2>3, <2>4, Zenon DEF Losable, StateStep, Final, Frame, Writer
<1> QED BY <1>1, <1>3, <1>4, <1>5, Zenon DEF IInv

-----------------------------------------------------------------------------
(* The steps that change no state and neither take nor give up a lock.     *)

Starts == {"scan", "query", "finish", "sweep", "sweeping", "sweep_flush", "sweep_header"}

Quiet(p) ==
  /\ TypeOK' /\ Frame(p)
  /\ hdr'.next = hdr.next /\ tip' = tip
  /\ \A n \in Started :
       /\ data'[n] # data[n] => n <= hdr.next /\ data'[n] \in {"none", "disk"}
       /\ lock'[n] # lock[n] => n = tra[p].number /\ lock[n] # 0 /\ lock'[n] # 0
  /\ tra'[p].number = tra[p].number /\ tra'[p].mode = tra[p].mode
  /\ tra'[p].prepared = tra[p].prepared
  /\ ~Idle(p) /\ ~Idle(p)' /\ ~Retaining(p) /\ ~Retaining(p)'
  /\ pc[p] \in {"active", "release"} => tra[p].mode # "reconnected"
  /\ \/ Phase(p)' = Phase(p)
     \/ Phase(p) \in Starts /\ Phase(p)' \in Starts \cup {Ready(p)}
  /\ Marks(p)'
  /\ Waiting(p)' => Awaited(p)'
  /\ Reading(p)' => ReturnsTo(p)'

(* A step that changes neither a state nor a lock nor the numbers of p.    *)
LEMMA QuietStep ==
  ASSUME IInv, NEW p \in Processes, Quiet(p)
  PROVE  Step(p)
<1> USE DEF Quiet
<1>1. Own(p) /\ tra[p].number \in 1 .. hdr.next /\ Local(p)
  BY Zenon DEF IInv, Local, Own
<1>2. StateStep(p)
  BY Zenon DEF StateStep, Nums
<1>3. NumsStep(p)
  BY Zenon DEF NumsStep, Nums
<1>4. DataStep(p)
  <2> SUFFICES ASSUME NEW n \in Started, data'[n] = p PROVE Losable(p, n)'
    BY Zenon DEF DataStep
  <2>1. data[n] = p
    BY NumbersAssumption, Zenon
  <2> QED BY <2>1, ZenonT(30) DEF IInv, Cached, Losable, Retaining, Writer
<1>5. tra[p].number \in Started
  BY <1>1, Bounds, Zenon
<1>6. lock[tra[p].number] # 0 => lock'[tra[p].number] # 0
  BY <1>5, Zenon
<1>7. tra[p].mode # "reconnected"
  BY <1>1, Zenon DEF Own, Writer
<1>8. Own(p)'
  BY <1>1, <1>6, <1>7, ZenonT(30) DEF Own, Writer, Starts, Ready
<1> QED BY <1>2, <1>3, <1>4, <1>8 DEF Step, Local, IInv, TypeOK

-----------------------------------------------------------------------------
(* Smallest and largest numbers.  A set of naturals has a smallest one     *)
(* because "less than" is well-founded.                                    *)

(* Min, of FiniteSetsExt, of a set of numbers that may be infinite.        *)
LEMMA MinNat ==
  ASSUME NEW S \in SUBSET Nat, S # {}
  PROVE  Min(S) \in S /\ \A y \in S : Min(S) <= y
<1> DEFINE R == OpToRel(<, Nat)
<1>1. IsWellFoundedOn(R, Nat)
  BY NatLessThanWellFounded, Zenon
<1>2. \A y, x \in Nat : y < x => <<y, x>> \in R
  BY Zenon DEF OpToRel
<1> HIDE DEF R
<1>3. PICK x \in S : \A y \in S : ~(<<y, x>> \in R)
  BY <1>1, WFMin, Zenon
<1>4. ASSUME NEW y \in S PROVE x <= y
  <2>1. y \in Nat /\ x \in Nat
    BY Zenon
  <2>2. ~(y < x)
    BY <1>2, <1>3, <2>1, Zenon
  <2> QED BY <2>1, <2>2
<1> QED BY <1>4, Zenon DEF Min

(* Max of two numbers, as TRA_start() takes it of the header's fields.     *)
LEMMA MaxPair ==
  ASSUME NEW a \in Nat, NEW b \in Nat
  PROVE  Max({a, b}) \in Nat /\ Max({a, b}) >= a /\ Max({a, b}) >= b
BY DEF Max

(* Min of two numbers, as TRA_start() lowers its oldest transaction.       *)
LEMMA MinPair ==
  ASSUME NEW a \in Int, NEW b \in Int
  PROVE  Min({a, b}) \in {a, b}
BY DEF Min

(* What a process knows of its own transaction from TRA_start() on.        *)
LEMMA Running ==
  ASSUME IInv, NEW p \in Processes, ~Idle(p)
  PROVE  /\ Own(p) /\ Marks(p) /\ tra[p].number \in 1 .. hdr.next /\ tra[p].number \in Started
         /\ pc[p] \notin {"active", "release"} => tra[p].mode # "reconnected"
         /\ Waiting(p) => Awaited(p)
         /\ Reading(p) => ReturnsTo(p)
<1>1. Own(p) /\ Marks(p) /\ tra[p].number \in 1 .. hdr.next
  BY Zenon DEF IInv, Local, Own
<1>2. tra[p].number \in Started
  BY <1>1, Bounds, Zenon
<1> QED BY <1>1, <1>2, Zenon DEF IInv, Local, Own, Writer

(* cache_transactions() only moves the cache to new pages.                 *)
LEMMA cache_transactions_Step ==
  ASSUME IInv, NEW p \in Processes, cache_transactions(p)
  PROVE  Step(p)
<1>1. At(p, "cache") /\ ~Idle(p) /\ ~Retaining(p) /\ Reading(p)
  BY Zenon DEF cache_transactions, At, Idle, Retaining, Reading
<1>2. /\ loc'[p].then = loc[p].then /\ loc'[p].caller = loc[p].caller
      /\ loc'[p].n = loc[p].n /\ loc'[p].active = loc[p].active
      /\ pc'[p] = "inventory" /\ TypeOK' /\ Frame(p)
  BY ZenonT(30) DEF cache_transactions, IInv, TypeOK, LocFields, Goto, Frame
<1>3. UNCHANGED <<hdr, tip, data, lock, tra>>
  BY Zenon DEF cache_transactions
<1>4. /\ Phase(p)' = Phase(p) /\ Waiting(p)' = Waiting(p)
      /\ Reading(p)' /\ ~Idle(p)' /\ ~Retaining(p)'
  BY <1>1, <1>2, Zenon DEF Phase, Waiting, Reading, Idle, Retaining, At
<1>5. Marks(p)' /\ (Waiting(p)' => Awaited(p)') /\ ReturnsTo(p)'
  BY <1>1, <1>2, <1>3, <1>4, Running, Zenon DEF Marks, Awaited, ReturnsTo, At
<1>6. Quiet(p)
  BY <1>1, <1>2, <1>3, <1>4, <1>5, Running, Zenon DEF Quiet, At
<1> QED BY <1>6, QuietStep, Zenon

(* TRA_get_inventory() only fills the cache from the page.                 *)
LEMMA TRA_get_inventory_Step ==
  ASSUME IInv, NEW p \in Processes, TRA_get_inventory(p)
  PROVE  Step(p)
<1>1. At(p, "inventory") /\ ~Idle(p) /\ ~Retaining(p) /\ Reading(p)
  BY ZenonT(30) DEF TRA_get_inventory, At, Idle, Retaining, Reading
<1>2. /\ loc'[p].caller = loc[p].caller
      /\ loc'[p].n = loc[p].n /\ loc'[p].active = loc[p].active
      /\ \/ pc'[p] = "inventory" /\ loc'[p].then = loc[p].then
         \/ pc'[p] = loc[p].then
      /\ DOMAIN loc' = Processes /\ DOMAIN pc' = Processes
      /\ \A q \in Processes : DOMAIN (loc'[q]) = LocFields
      /\ \A q \in Processes \ {p} : pc'[q] = pc[q] /\ loc'[q] = loc[q]
  BY DEF TRA_get_inventory, IInv, TypeOK, LocFields, Goto
<1>3. /\ tra'[p].number = tra[p].number /\ tra'[p].mode = tra[p].mode
      /\ tra'[p].prepared = tra[p].prepared /\ tra'[p].top = tra[p].top
      /\ tra'[p].oldest = tra[p].oldest /\ tra'[p].oldest_active = tra[p].oldest_active
      /\ DOMAIN tra' = Processes /\ \A q \in Processes : DOMAIN (tra'[q]) = TraFields
      /\ \A q \in Processes \ {p} : tra'[q] = tra[q]
  BY ZenonT(30) DEF TRA_get_inventory, IInv, TypeOK, TraFields
<1>4. UNCHANGED <<hdr, tip, data, lock, dbb>>
  BY Zenon DEF TRA_get_inventory
<1>5. TypeOK' /\ Frame(p)
  BY <1>2, <1>3, <1>4, Zenon DEF IInv, TypeOK, Frame
<1>6. /\ loc[p].then \in {"scan", "look", "active", "sweeping"}
      /\ Marks(p) /\ (Waiting(p) => Awaited(p))
  BY <1>1, Running, Zenon DEF ReturnsTo
<1>7. /\ Phase(p)' = Phase(p) /\ (Waiting(p)' => Waiting(p))
      /\ ~Idle(p)' /\ ~Retaining(p)'
  BY <1>1, <1>2, <1>6, Zenon DEF Phase, Waiting, Reading, Idle, Retaining, At
<1>8. Marks(p)' /\ (Waiting(p)' => Awaited(p)')
  BY <1>1, <1>2, <1>3, <1>4, <1>6, <1>7, Zenon DEF Marks, Awaited, At
<1>9. Reading(p)' => ReturnsTo(p)'
  BY <1>2, <1>6, Zenon DEF Reading, ReturnsTo
<1>10. Quiet(p)
  BY <1>1, <1>3, <1>4, <1>5, <1>6, <1>7, <1>8, <1>9, Zenon DEF Quiet, At
<1> QED BY <1>10, QuietStep, Zenon

(* TRA_start() looks for an active transaction, lock by lock.              *)
LEMMA start_scan_Step ==
  ASSUME IInv, NEW p \in Processes, start_scan(p)
  PROVE  Step(p)
<1>1. /\ pc[p] = "scan" /\ ~Idle(p) /\ ~Retaining(p) /\ Phase(p) = "scan"
      /\ tra[p].mode # "reconnected"
  BY Running, Zenon DEF start_scan, At, Idle, Retaining, Reading, Waiting, Phase
<1>2. UNCHANGED <<hdr, tip, data, lock, dbb>>
  BY Zenon DEF start_scan
<1> DEFINE t == tra[p]
           active == {n \in loc[p].active .. t.number - 1 : StartState(p, n) = "active"}
           first == Min(active)
           word == IF lock[first] = 0 THEN first ELSE lock[first]
           oldest_active == Min({t.number, word})
<1>3. /\ t.number \in 1 .. hdr.next /\ t.number \in Started /\ t.oldest_active \in Nat
      /\ t.top \in Nat \ {0} /\ t.oldest \in Nat \ {0} /\ loc[p].active \in Nat \ {0}
      /\ hdr.next \in Nat
  BY <1>1, Running, SMTT(30) DEF Marks, IInv, TypeOK
<1>4. active # {} => /\ first \in 1 .. hdr.next /\ first \in Nat \ {0} /\ first \in Started
                     /\ oldest_active \in Nat
  <2> SUFFICES ASSUME active # {}
               PROVE  /\ first \in 1 .. hdr.next /\ first \in Nat \ {0} /\ first \in Started
                      /\ oldest_active \in Nat
    BY Zenon
  <2>1. first \in active
    <3>1. active \in SUBSET Nat BY <1>3
    <3> HIDE DEF active
    <3> QED BY <3>1, MinNat, Zenon
  <2>2. first \in loc[p].active .. t.number - 1
    BY <2>1, Zenon
  <2> HIDE DEF first
  <2>3. first \in 1 .. hdr.next /\ first \in Nat \ {0} /\ first \in Started
    BY <2>2, <1>3, Bounds
  <2>4. word \in Nat
    BY <2>3, Zenon DEF IInv, TypeOK
  <2>5. oldest_active \in {t.number, word}
    BY <2>4, <1>3, MinPair, SMTT(30)
  <2> QED BY <2>3, <2>4, <2>5, <1>3, SMTT(30)
<1> HIDE DEF active, first, oldest_active
<1>5. CASE /\ active = {}
           /\ loc' = [loc EXCEPT ![p].oldest_active = t.number]
           /\ Goto(p, "finish") /\ UNCHANGED tra
  <2>1. TypeOK' /\ Frame(p) /\ pc'[p] = "finish" /\ loc'[p].oldest_active = t.number
    BY <1>2, <1>5, Zenon DEF IInv, TypeOK, LocFields, Frame, Goto
  <2>2. /\ ~Idle(p)' /\ ~Retaining(p)' /\ Phase(p)' = "finish" /\ ~Waiting(p)' /\ ~Reading(p)'
        /\ Marks(p)'
    BY <2>1, <1>3, <1>5 DEF Idle, Retaining, Phase, Waiting, Reading, Marks
  <2>3. Quiet(p)
    BY <2>1, <2>2, <1>1, <1>2, <1>5, Zenon DEF Quiet, Starts
  <2> QED BY <2>3, QuietStep, Zenon
<1>6. CASE /\ active # {} /\ lock[first] = 0
           /\ loc' = [loc EXCEPT ![p].n = first, ![p].active = first + 1, ![p].caller = "scan"]
           /\ Goto(p, "look") /\ UNCHANGED tra
  <2>1. /\ TypeOK' /\ Frame(p) /\ pc'[p] = "look"
        /\ loc'[p].n = first /\ loc'[p].active = first + 1 /\ loc'[p].caller = "scan"
    BY <1>2, <1>6, ZenonT(30) DEF IInv, TypeOK, LocFields, Frame, Goto
  <2>2. /\ ~Idle(p)' /\ ~Retaining(p)' /\ Phase(p)' = "scan" /\ ~Reading(p)'
    BY <2>1, Zenon DEF Idle, Retaining, Phase, Waiting, Reading
  <2>3. Marks(p)' /\ Awaited(p)'
    BY <2>1, <1>2, <1>3, <1>4, <1>6, SMTT(30) DEF Marks, Awaited
  <2>4. Quiet(p)
    BY <2>1, <2>2, <2>3, <1>1, <1>2, <1>6, Zenon DEF Quiet
  <2> QED BY <2>4, QuietStep, Zenon
<1>7. CASE /\ active # {}
           /\ tra' = [tra EXCEPT ![p].oldest_active = oldest_active]
           /\ loc' = [loc EXCEPT ![p].oldest_active = first]
           /\ Goto(p, IF oldest_active = loc[p].ost THEN "finish" ELSE "query")
  <2>1. /\ DOMAIN loc' = Processes /\ DOMAIN pc' = Processes
        /\ \A q \in Processes : DOMAIN (loc'[q]) = LocFields
        /\ \A q \in Processes \ {p} : pc'[q] = pc[q] /\ loc'[q] = loc[q]
        /\ pc'[p] \in {"query", "finish"} /\ loc'[p].oldest_active = first
    BY <1>7, Zenon DEF IInv, TypeOK, LocFields, Goto
  <2>2. /\ DOMAIN tra' = Processes /\ \A q \in Processes : DOMAIN (tra'[q]) = TraFields
        /\ \A q \in Processes \ {p} : tra'[q] = tra[q]
        /\ tra'[p].number = t.number /\ tra'[p].mode = t.mode /\ tra'[p].prepared = t.prepared
        /\ tra'[p].top = t.top /\ tra'[p].oldest = t.oldest
        /\ tra'[p].oldest_active = oldest_active
    BY <1>7, Zenon DEF IInv, TypeOK, TraFields
  <2>3. TypeOK' /\ Frame(p)
    BY <2>1, <2>2, <1>2, Zenon DEF IInv, TypeOK, Frame
  <2>4. /\ ~Idle(p)' /\ ~Retaining(p)' /\ Phase(p)' \in {"query", "finish"}
        /\ ~Waiting(p)' /\ ~Reading(p)'
    BY <2>1, Zenon DEF Idle, Retaining, Phase, Waiting, Reading
  <2>5. Marks(p)'
    BY <2>1, <2>2, <2>4, <1>3, <1>4, <1>7, Zenon DEF Marks
  <2>6. Quiet(p)
    BY <2>2, <2>3, <2>4, <2>5, <1>1, <1>2, Zenon DEF Quiet, Starts
  <2> QED BY <2>6, QuietStep, Zenon
<1> QED BY <1>5, <1>6, <1>7, Zenon DEF start_scan, active, first, oldest_active

(* TRA_start() asks for the smallest word of all the locks.                *)
LEMMA start_query_Step ==
  ASSUME IInv, NEW p \in Processes, start_query(p)
  PROVE  Step(p)
<1>1. /\ pc[p] = "query" /\ ~Idle(p) /\ ~Retaining(p) /\ Phase(p) = "query"
      /\ tra[p].mode # "reconnected"
  BY Running, Zenon DEF start_query, At, Idle, Retaining, Reading, Waiting, Phase
<1>2. UNCHANGED <<hdr, tip, data, lock, dbb, loc>>
  BY Zenon DEF start_query
<1> DEFINE S == {tra[p].oldest_active} \cup {lock[n] : n \in {m \in Started : lock[m] # 0}}
<1>3. /\ tra[p].oldest_active \in Nat /\ tra[p].top \in Nat \ {0}
      /\ tra[p].oldest \in Nat \ {0} /\ loc[p].oldest_active \in Nat \ {0}
  BY <1>1, Running, Zenon DEF Marks
<1>4. S \in SUBSET Nat /\ S # {}
  <2>1. lock \in [Started -> Nat]
    BY Zenon DEF IInv, TypeOK
  <2>2. {lock[n] : n \in {m \in Started : lock[m] # 0}} \subseteq Nat
    BY <2>1, Zenon
  <2>3. tra[p].oldest_active \in S
    BY Zenon
  <2> QED BY <1>3, <2>2, <2>3, Zenon
<1> HIDE DEF S
<1>5. Min(S) \in Nat
  BY <1>4, MinNat, Zenon
<1>6. /\ DOMAIN tra' = Processes /\ \A q \in Processes : DOMAIN (tra'[q]) = TraFields
      /\ \A q \in Processes \ {p} : tra'[q] = tra[q] /\ pc'[q] = pc[q]
      /\ DOMAIN pc' = Processes /\ pc'[p] = "finish"
      /\ tra'[p].number = tra[p].number /\ tra'[p].mode = tra[p].mode
      /\ tra'[p].prepared = tra[p].prepared
      /\ tra'[p].top = tra[p].top /\ tra'[p].oldest = tra[p].oldest
      /\ tra'[p].oldest_active = Min(S)
  BY Zenon DEF start_query, Goto, IInv, TypeOK, TraFields, S
<1>7. TypeOK' /\ Frame(p)
  BY <1>2, <1>6, Zenon DEF IInv, TypeOK, Frame
<1>8. /\ ~Idle(p)' /\ ~Retaining(p)' /\ Phase(p)' = "finish" /\ ~Waiting(p)' /\ ~Reading(p)'
      /\ Marks(p)'
  BY <1>2, <1>3, <1>5, <1>6, Zenon DEF Idle, Retaining, Phase, Waiting, Reading, Marks
<1>9. Quiet(p)
  BY <1>1, <1>2, <1>6, <1>7, <1>8, Zenon DEF Quiet, Starts
<1> QED BY <1>9, QuietStep, Zenon

(* The lock keeps a word other than zero.                                  *)
LEMMA start_finish_Step ==
  ASSUME IInv, NEW p \in Processes, start_finish(p)
  PROVE  Step(p)
<1>1. /\ pc[p] = "finish" /\ ~Idle(p) /\ ~Retaining(p) /\ Phase(p) = "finish"
      /\ tra[p].mode # "reconnected"
  BY Running, Zenon DEF start_finish, At, Idle, Retaining, Reading, Waiting, Phase
<1>2. UNCHANGED <<hdr, tip, data, tra>>
  BY Zenon DEF start_finish
<1> DEFINE t == tra[p]
           open == {n \in t.oldest .. t.number - 1 : StartState(p, n) # "committed"}
           oldest == IF open = {} THEN t.number ELSE Min(open)
<1>3. /\ t.number \in 1 .. hdr.next /\ t.number \in Started /\ t.oldest_active \in Nat
      /\ t.top \in Nat \ {0} /\ t.oldest \in Nat \ {0} /\ loc[p].oldest_active \in Nat \ {0}
      /\ t.number \in Nat \ {0}
  BY <1>1, Running DEF Marks, Started
<1>4. oldest \in Nat \ {0}
  <2>1. open \in SUBSET Nat /\ \A n \in open : n # 0
    BY <1>3
  <2> HIDE DEF open
  <2> QED BY <2>1, <1>3, MinNat, Zenon
<1>5. lock[t.number] # 0
  BY <1>1, Running, Zenon DEF Own
<1>6. lock' = [lock EXCEPT ![t.number] =
                 IF t.mode = "snapshot" THEN loc[p].oldest_active ELSE t.number]
  BY Zenon DEF start_finish
<1>7. /\ lock' \in [Started -> Nat]
      /\ \A n \in Started :
           lock'[n] # lock[n] => n = t.number /\ lock[n] # 0 /\ lock'[n] # 0
  BY <1>3, <1>5, <1>6, Zenon DEF IInv, TypeOK
<1> HIDE DEF oldest
<1>8. Max({dbb[p].ost, t.oldest_active}) \in Nat
  BY <1>3, MaxPair, Zenon DEF IInv, TypeOK
<1>9. dbb' = [dbb EXCEPT ![p] = [oit |-> oldest - 1, oat |-> loc[p].oldest_active,
                                 ost |-> Max({dbb[p].ost, t.oldest_active})]]
  BY Zenon DEF start_finish, oldest, IInv, TypeOK
<1>10. dbb' \in [Processes -> [oit : Nat, oat : Nat, ost : Nat]]
  BY <1>3, <1>4, <1>8, <1>9 DEF IInv, TypeOK
<1>11. /\ DOMAIN loc' = Processes /\ DOMAIN pc' = Processes
       /\ \A q \in Processes : DOMAIN (loc'[q]) = LocFields
       /\ \A q \in Processes \ {p} : pc'[q] = pc[q] /\ loc'[q] = loc[q]
       /\ pc'[p] \in {"sweep", Ready(p)}
  BY Zenon DEF start_finish, Done, Goto, IInv, TypeOK, NoLocals, LocFields
<1>12. TypeOK' /\ Frame(p)
  BY <1>2, <1>7, <1>10, <1>11, Zenon DEF IInv, TypeOK, Frame
<1>13. /\ ~Idle(p)' /\ ~Retaining(p)' /\ ~Waiting(p)' /\ ~Reading(p)'
       /\ Phase(p)' \in {"sweep", Ready(p)} /\ Marks(p)'
  BY <1>2, <1>3, <1>11, Zenon DEF Ready, Idle, Retaining, Phase, Waiting, Reading, Marks
<1>14. Quiet(p)
  BY <1>1, <1>2, <1>7, <1>12, <1>13, Zenon DEF Quiet, Starts
<1> QED BY <1>14, QuietStep, Zenon

-----------------------------------------------------------------------------
(* CCH_flush(): p has no record cached any more.                           *)
LEMMA Flush ==
  ASSUME IInv, NEW p \in Processes, CCH_flush(p)
  PROVE  /\ data' \in [Started -> Processes \cup {"none", "disk"}]
         /\ \A n \in Started :
              /\ data'[n] # p
              /\ data'[n] # data[n] => n <= hdr.next /\ data'[n] \in {"none", "disk"}
<1>1. \A n \in Started : data[n] # "none" => n <= hdr.next
  BY Bounds, Zenon DEF IInv, Unstarted
<1>2. p # "none" /\ p # "disk"
  BY NumbersAssumption, Zenon
<1> QED BY <1>1, <1>2, Zenon DEF CCH_flush, IInv, TypeOK

(* The steps of a sweep.                                                   *)
Sweeps(p) ==
  \/ sweep_begin(p) \/ sweep_records(p) \/ sweep_fails(p) \/ sweep_flush(p) \/ sweep_header(p)

(* TRA_sweep() changes versions and the header, but no state.              *)
LEMMA sweep_Step ==
  ASSUME IInv, NEW p \in Processes, Sweeps(p)
  PROVE  Step(p)
<1>1. /\ pc[p] \in {"sweep", "sweeping", "sweep_flush", "sweep_header"}
      /\ pc' = [pc EXCEPT ![p] = pc'[p]]
      /\ pc'[p] \in {"sweeping", "sweep_flush", "sweep_header", Ready(p)}
      /\ UNCHANGED <<tip, lock, dbb, tra, loc>>
  BY Zenon DEF Sweeps, sweep_begin, sweep_records, sweep_fails, sweep_flush, sweep_header, At,
     Goto,
         IInv, TypeOK
<1>2. /\ ~Idle(p) /\ ~Retaining(p) /\ Phase(p) = pc[p] /\ Phase(p) \in Starts
      /\ ~Idle(p)' /\ ~Retaining(p)' /\ ~Waiting(p)' /\ ~Reading(p)'
      /\ Phase(p)' \in Starts \cup {Ready(p)} /\ Phase(p)' # "scan"
      /\ pc'[p] \notin {"query", "finish"}
  BY <1>1, Zenon DEF Starts, Ready, Idle, Retaining, Phase, Waiting, Reading
<1>3. Frame(p)
  BY <1>1, Zenon DEF Frame, IInv, TypeOK
<1>4. Marks(p) /\ tra[p].mode # "reconnected"
  BY <1>1, <1>2, Running, Zenon
<1>5. Marks(p)'
  BY <1>1, <1>2, <1>4, Zenon DEF Marks
<1>6. /\ data' \in [Started -> Processes \cup {"none", "disk"}]
      /\ \A n \in Started :
           data'[n] # data[n] => n <= hdr.next /\ data'[n] \in {"none", "disk"}
  <2>1. CASE sweep_records(p)
    <3>1. \A n \in Started : data[n] # "none" => n <= hdr.next
      BY Bounds, Zenon DEF IInv, Unstarted
    <3> QED BY <2>1, <3>1, Zenon DEF sweep_records, IInv, TypeOK
  <2>2. CASE sweep_flush(p)
    BY <2>2, Flush, Zenon DEF sweep_flush
  <2>3. CASE UNCHANGED data
    BY <2>3, Zenon DEF IInv, TypeOK
  <2> QED BY <2>1, <2>2, <2>3, Zenon DEF Sweeps, sweep_begin, sweep_fails, sweep_header
<1>7. /\ hdr' \in [next : 0 .. MAX_TRA_NUMBER, oit : Nat \ {0}, oat : Nat, ost : Nat]
      /\ hdr'.next = hdr.next
  <2>1. CASE UNCHANGED hdr
    BY <2>1, Zenon DEF IInv, TypeOK
  <2>2. CASE sweep_header(p)
    <3> DEFINE t == tra[p]
               limbo == {n \in t.oldest .. t.top - 1 : StartState(p, n) = "limbo"}
               active == Min(limbo \cup {t.top})
               oit == Min({active, t.oldest_active - 1})
    <3>1. t.top \in Nat \ {0} /\ t.oldest \in Nat \ {0} /\ t.oldest_active \in Nat
      BY <1>4, Zenon DEF Marks
    <3>2. active \in Nat \ {0}
      <4>1. limbo \cup {t.top} \in SUBSET Nat /\ \A n \in limbo \cup {t.top} : n # 0
        BY <3>1
      <4> HIDE DEF limbo
      <4> QED BY <4>1, MinNat, Zenon
    <3> HIDE DEF active
    <3>3. oit \in {active, t.oldest_active - 1}
      BY <3>1, <3>2, MinPair, SMTT(30)
    <3> HIDE DEF oit
    <3>4. hdr.oit < t.oldest_active - 1 => oit \in Nat \ {0}
      BY <3>1, <3>2, <3>3 DEF IInv, TypeOK
    <3>5. hdr' = IF hdr.oit < t.oldest_active - 1 THEN [hdr EXCEPT !.oit = oit] ELSE hdr
      BY <2>2, Zenon DEF sweep_header, active, oit
    <3> QED BY <3>4, <3>5, Zenon DEF IInv, TypeOK
  <2> QED BY <2>1, <2>2, Zenon DEF Sweeps, sweep_begin, sweep_records, sweep_fails, sweep_flush
<1>8. TypeOK'
  BY <1>1, <1>6, <1>7, Zenon DEF IInv, TypeOK
<1>9. Quiet(p)
  BY <1>1, <1>2, <1>3, <1>4, <1>5, <1>6, <1>7, <1>8, Zenon DEF Quiet
<1> QED BY <1>9, QuietStep, Zenon

(* TPC_snapshot_state() takes the state from the cache or has it read.     *)
LEMMA TPC_snapshot_state_Step ==
  ASSUME IInv, NEW p \in Processes, NEW m \in Others(p), TPC_snapshot_state(p, m)
  PROVE  Step(p)
<1>1. /\ pc[p] \in {"active", "sweeping"} /\ ~Idle(p) /\ ~Retaining(p) /\ ~Waiting(p) /\ ~Reading(p)
      /\ Phase(p) = pc[p] /\ tra[p].mode # "reconnected"
      /\ UNCHANGED <<hdr, tip, data, lock, dbb, tra>>
  BY Zenon DEF TPC_snapshot_state, Idle, Retaining, Reading, Waiting, Phase
<1>2. Marks(p)
  BY <1>1, Running, Zenon
<1>3. PICK r \in {[NoLocals EXCEPT !.s = TPC_initialize_tpc(tpc[p], m).from, !.then = pc[p]],
                  [NoLocals EXCEPT !.n = m, !.then = pc[p]]} :
           loc' = [loc EXCEPT ![p] = r]
  BY Zenon DEF TPC_snapshot_state
<1>4. /\ TypeOK' /\ Frame(p) /\ pc'[p] \in {"cache", "fetch"}
      /\ loc'[p].then = pc[p] /\ loc'[p].caller = "idle"
  <2>1. DOMAIN r = LocFields /\ r.then = pc[p] /\ r.caller = "idle"
    BY <1>3, Zenon DEF NoLocals, LocFields
  <2>2. pc' \in {[pc EXCEPT ![p] = "cache"], [pc EXCEPT ![p] = "fetch"]}
    BY Zenon DEF TPC_snapshot_state, Goto
  <2> QED BY <1>1, <1>3, <2>1, <2>2 DEF IInv, TypeOK, Frame
<1>5. /\ Phase(p)' = pc[p] /\ ~Idle(p)' /\ ~Retaining(p)' /\ ~Waiting(p)' /\ ReturnsTo(p)'
  BY <1>1, <1>4, Zenon DEF Phase, Idle, Retaining, Waiting, Reading, ReturnsTo
<1>6. Marks(p)'
  BY <1>1, <1>2, <1>4, <1>5, Zenon DEF Marks
<1>7. Quiet(p)
  BY <1>1, <1>4, <1>5, <1>6, Zenon DEF Quiet
<1> QED BY <1>7, QuietStep, Zenon

(* The records of n show that n has been started.                          *)
LEMMA TRA_wait_Step ==
  ASSUME IInv, NEW p \in Processes, NEW m \in Others(p), TRA_wait(p, m)
  PROVE  Step(p)
<1>1. /\ pc[p] \in {"active", "sweeping"} /\ ~Idle(p) /\ ~Retaining(p) /\ Phase(p) = pc[p]
      /\ tra[p].mode # "reconnected"
      /\ UNCHANGED <<hdr, tip, data, lock, dbb, tra>>
  BY Zenon DEF TRA_wait, MustWait, At, Idle, Retaining, Reading, Waiting, Phase
<1>2. Marks(p)
  BY <1>1, Running, Zenon
<1>3. m \in 1 .. hdr.next /\ lock[m] = 0
  BY Bounds, Zenon DEF TRA_wait, Others, HasVersions, IInv, Unstarted
<1>4. /\ TypeOK' /\ Frame(p) /\ pc'[p] = "look"
      /\ loc'[p].n = m /\ loc'[p].caller = pc[p]
  BY <1>1, Zenon DEF TRA_wait, IInv, TypeOK, LocFields, Frame, Goto
<1>5. /\ Phase(p)' = pc[p] /\ ~Idle(p)' /\ ~Retaining(p)' /\ ~Reading(p)'
  BY <1>4, Zenon DEF Phase, Idle, Retaining, Waiting, Reading
<1>6. Marks(p)' /\ Awaited(p)'
  BY <1>1, <1>2, <1>3, <1>4, <1>5, Zenon DEF Marks, Awaited
<1>7. Quiet(p)
  BY <1>1, <1>4, <1>5, <1>6, Zenon DEF Quiet
<1> QED BY <1>7, QuietStep, Zenon

(* What the return from TRA_wait() leaves alone, after either of its ends. *)
LEMMA Returns ==
  ASSUME IInv, NEW p \in Processes, pc[p] \in {"look", "fetch", "kill"}, Waiting(p),
         NEW n, NEW state, NEW c, WaitReturns(p, n, state, c)
  PROVE  /\ DOMAIN tra' = Processes /\ DOMAIN pc' = Processes /\ DOMAIN loc' = Processes
         /\ \A q \in Processes : DOMAIN (tra'[q]) = TraFields /\ DOMAIN (loc'[q]) = LocFields
         /\ Frame(p)
         /\ tra'[p].number = tra[p].number /\ tra'[p].mode = tra[p].mode
         /\ tra'[p].prepared = tra[p].prepared
         /\ Phase(p)' = Phase(p) /\ pc'[p] \in {"scan", "active", "sweeping"}
         /\ Marks(p)'
<1>1. tra' \in {[tra EXCEPT ![p].states[n] = state], tra}
  BY Zenon DEF WaitReturns
<1>2. /\ DOMAIN tra' = Processes /\ \A q \in Processes : DOMAIN (tra'[q]) = TraFields
      /\ \A q \in Processes \ {p} : tra'[q] = tra[q]
      /\ tra'[p].number = tra[p].number /\ tra'[p].mode = tra[p].mode
      /\ tra'[p].prepared = tra[p].prepared /\ tra'[p].top = tra[p].top
      /\ tra'[p].oldest = tra[p].oldest /\ tra'[p].oldest_active = tra[p].oldest_active
  BY <1>1 DEF IInv, TypeOK, TraFields
<1>3. /\ DOMAIN pc' = Processes /\ DOMAIN loc' = Processes
      /\ \A q \in Processes : DOMAIN (loc'[q]) = LocFields
      /\ \A q \in Processes \ {p} : pc'[q] = pc[q] /\ loc'[q] = loc[q]
      /\ IF loc[p].caller = "scan" THEN pc'[p] = "scan" /\ loc'[p].active = loc[p].active
                                   ELSE pc'[p] = loc[p].caller
  <2>1. CASE loc[p].caller = "scan"
    <3>1. /\ pc' = [pc EXCEPT ![p] = "scan"]
          /\ loc' = [loc EXCEPT ![p].n = 0, ![p].caller = "idle",
               ![p].state = IF state = "committed" THEN state ELSE @]
      BY <2>1, Zenon DEF WaitReturns, Goto
    <3> QED BY <2>1, <3>1, Zenon DEF IInv, TypeOK, LocFields
  <2>2. CASE loc[p].caller # "scan"
    <3>1. /\ pc' = [pc EXCEPT ![p] = loc[p].caller]
          /\ loc' = [loc EXCEPT ![p] = NoLocals]
      BY <2>2, Zenon DEF WaitReturns, Done, Goto
    <3> QED BY <2>2, <3>1, Zenon DEF IInv, TypeOK, NoLocals, LocFields
  <2> QED BY <2>1, <2>2, Zenon
<1>4. Frame(p)
  BY <1>2, <1>3, Zenon DEF Frame
<1>5. Awaited(p) /\ Marks(p) /\ Phase(p) = loc[p].caller
  BY Running, Zenon DEF Idle, Waiting, Phase
<1>6. pc'[p] = loc[p].caller /\ pc'[p] \in {"scan", "active", "sweeping"}
  BY <1>3, <1>5, Zenon DEF Awaited
<1>7. Phase(p)' = Phase(p)
  BY <1>5, <1>6, Zenon DEF Phase, Waiting, Reading
<1>8. Marks(p)'
  BY <1>2, <1>3, <1>5, <1>6, <1>7, Zenon DEF Marks
<1> QED BY <1>2, <1>3, <1>4, <1>6, <1>7, <1>8, Zenon

(* A return from TRA_wait() that has changed nothing on the pages.         *)
LEMMA WaitReturns_Step ==
  ASSUME IInv, NEW p \in Processes, pc[p] \in {"look", "fetch"}, Waiting(p),
         NEW n, NEW state, NEW c, WaitReturns(p, n, state, c),
         UNCHANGED <<hdr, tip, data, lock, dbb>>
  PROVE  Step(p)
<1>1. ~Idle(p) /\ ~Retaining(p)
  BY Zenon DEF Idle, Retaining
<1>2. TypeOK'
  BY Returns, Zenon DEF IInv, TypeOK
<1>3. ~Idle(p)' /\ ~Retaining(p)' /\ ~Waiting(p)' /\ ~Reading(p)'
  BY Returns, Zenon DEF Idle, Retaining, Waiting, Reading
<1>4. Quiet(p)
  BY <1>1, <1>2, <1>3, Returns, Zenon DEF Quiet
<1> QED BY <1>4, QuietStep, Zenon

(* The next step of TRA_wait(), for the same transaction.                  *)
LEMMA WaitGoesOn_Step ==
  ASSUME IInv, NEW p \in Processes, pc[p] \in {"look", "fetch"}, Waiting(p),
         pc'[p] \in {"cache", "fetch", "kill"}, pc'[p] = "cache" => loc'[p].then = "look",
         pc'[p] = "kill" => tip[loc[p].n] \in {"active", "dead"},
         loc'[p].n = loc[p].n, loc'[p].caller = loc[p].caller, loc'[p].active = loc[p].active,
         TypeOK', Frame(p), UNCHANGED <<hdr, tip, data, lock, dbb, tra>>
  PROVE  Step(p)
<1>1. ~Idle(p) /\ ~Retaining(p) /\ ~Idle(p)' /\ ~Retaining(p)' /\ Phase(p) = loc[p].caller
  BY Zenon DEF Idle, Retaining, Phase
<1>2. Marks(p) /\ Awaited(p) /\ tra[p].mode # "reconnected"
  BY <1>1, Running, Zenon
<1>3. Waiting(p)' /\ Phase(p)' = Phase(p) /\ (Reading(p)' => ReturnsTo(p)')
  BY <1>1, <1>2, Zenon DEF Awaited, Waiting, Reading, Phase, ReturnsTo
<1>4. Marks(p)' /\ Awaited(p)'
  BY <1>1, <1>2, <1>3, Zenon DEF Marks, Awaited
<1>5. Quiet(p)
  BY <1>1, <1>2, <1>3, <1>4, Zenon DEF Quiet
<1> QED BY <1>5, QuietStep, Zenon

(* A transaction whose lock is free is not declared dead before its state  *)
(* has been read from the inventory page.                                  *)
LEMMA TRA_get_state_Step ==
  ASSUME IInv, NEW p \in Processes, TRA_get_state(p)
  PROVE  Step(p)
<1>1. pc[p] = "look" /\ Waiting(p) /\ UNCHANGED <<hdr, tip, data, lock, dbb>>
  BY Zenon DEF TRA_get_state, At, Waiting
<1>2. lock[loc[p].n] = 0
  BY <1>1, Running, Zenon DEF Awaited, Idle
<1>3. CASE /\ loc' = [loc EXCEPT ![p].s = CacheEnd(tpc[p]), ![p].then = "look"]
           /\ Goto(p, "cache") /\ UNCHANGED tra
  <2>1. /\ TypeOK' /\ Frame(p) /\ pc'[p] = "cache" /\ loc'[p].then = "look"
        /\ loc'[p].n = loc[p].n /\ loc'[p].caller = loc[p].caller
        /\ loc'[p].active = loc[p].active
    BY <1>1, <1>3, ZenonT(30) DEF IInv, TypeOK, LocFields, Frame, Goto
  <2> QED BY <2>1, <1>1, <1>3, WaitGoesOn_Step, Zenon
<1>4. CASE Goto(p, "fetch") /\ UNCHANGED <<tra, loc>>
  <2>1. TypeOK' /\ Frame(p) /\ pc'[p] = "fetch"
    BY <1>1, <1>4, Zenon DEF IInv, TypeOK, Frame, Goto
  <2> QED BY <2>1, <1>1, <1>4, WaitGoesOn_Step, Zenon
<1>5. CASE \E state, c : WaitReturns(p, loc[p].n, state, c)
  BY <1>1, <1>5, WaitReturns_Step, Zenon
<1> QED BY <1>2, <1>3, <1>4, <1>5, Zenon DEF TRA_get_state

(* A transaction without lock is declared dead only if the inventory page  *)
(* itself says active.                                                     *)
LEMMA TRA_fetch_state_Step ==
  ASSUME IInv, NEW p \in Processes, TRA_fetch_state(p)
  PROVE  Step(p)
<1>1. pc[p] = "fetch" /\ UNCHANGED <<hdr, tip, data, lock, dbb>> /\ ~Idle(p) /\ ~Retaining(p)
  BY Zenon DEF TRA_fetch_state, At, Idle, Retaining
<1>2. CASE loc[p].caller = "idle"
  <2>1. /\ Reading(p) /\ ReturnsTo(p) /\ Marks(p) /\ tra[p].mode # "reconnected"
    BY <1>1, <1>2, Running, Zenon DEF Reading
  <2>2. loc[p].then \in {"active", "sweeping"} /\ ~Waiting(p) /\ Phase(p) = loc[p].then
    BY <1>1, <1>2, <2>1, Zenon DEF ReturnsTo, Waiting, Phase
  <2>3. /\ UNCHANGED tra /\ pc' = [pc EXCEPT ![p] = loc[p].then]
        /\ loc' = [loc EXCEPT ![p] = NoLocals]
    BY <1>2, Zenon DEF TRA_fetch_state, Done, Goto
  <2>4. TypeOK' /\ Frame(p) /\ pc'[p] = loc[p].then
    BY <1>1, <2>3, Zenon DEF IInv, TypeOK, Frame, NoLocals, LocFields
  <2>5. /\ ~Idle(p)' /\ ~Retaining(p)' /\ ~Waiting(p)' /\ ~Reading(p)' /\ Phase(p)' = Phase(p)
    BY <2>2, <2>4, Zenon DEF Idle, Retaining, Waiting, Reading, Phase
  <2>6. Marks(p)'
    BY <2>1, <2>2, <2>3, <2>4, <2>5, Zenon DEF Marks
  <2>7. Quiet(p)
    BY <1>1, <2>1, <2>3, <2>4, <2>5, <2>6, Zenon DEF Quiet
  <2> QED BY <2>7, QuietStep, Zenon
<1>3. CASE loc[p].caller # "idle" /\ tip[loc[p].n] = "active"
  <2>1. Waiting(p) /\ Goto(p, "kill") /\ UNCHANGED <<tra, loc>>
    BY <1>1, <1>3, Zenon DEF TRA_fetch_state, Waiting
  <2>2. TypeOK' /\ Frame(p) /\ pc'[p] = "kill"
    BY <1>1, <2>1, Zenon DEF IInv, TypeOK, Frame, Goto
  <2> QED BY <2>1, <2>2, <1>1, <1>3, WaitGoesOn_Step, Zenon
<1>4. CASE loc[p].caller # "idle" /\ tip[loc[p].n] # "active"
  <2>1. Waiting(p) /\ \E state, c : WaitReturns(p, loc[p].n, state, c)
    BY <1>1, <1>4, Zenon DEF TRA_fetch_state, Waiting
  <2> QED BY <2>1, <1>1, WaitReturns_Step, Zenon
<1> QED BY <1>2, <1>3, <1>4, Zenon

-----------------------------------------------------------------------------
(* The steps that change a state or a lock. *)
(* The transactions that can be started have a place on the pages.         *)
LEMMA StartedNumbers == Started \subseteq Numbers
BY NumbersAssumption DEF Started, Numbers, PageStart, Page

(* A process owns numbers of started transactions only.                    *)
LEMMA NumsStarted ==
  ASSUME IInv, NEW q \in Processes
  PROVE  Nums(q) \subseteq 1 .. hdr.next
<1>1. Local(q) /\ (Retaining(q) => ~Idle(q))
  BY Zenon DEF IInv, Retaining, Idle
<1>2. tra[q].number = 0 \/ tra[q].number \in 1 .. hdr.next
  BY <1>1, Zenon DEF Local, Own
<1>3. Retaining(q) => loc[q].n \in 1 .. hdr.next
  BY <1>1, Zenon DEF Local, Successor
<1> QED BY <1>2, <1>3 DEF Nums, Started

(* A process without a transaction owns no number.                         *)
LEMMA IdleFacts ==
  ASSUME IInv, NEW p \in Processes, Idle(p)
  PROVE  /\ tra[p].number = 0 /\ Nums(p) = {}
         /\ \A n \in Started : data[n] = p => tip[n] = "dead"
<1>1. tra[p].number = 0 /\ ~Retaining(p)
  BY Zenon DEF IInv, Local, Idle, Retaining
<1> QED BY <1>1 DEF Nums, Started, IInv, Cached, Losable

(* A state set by the transaction's own process.                           *)
LEMMA SetOwn ==
  ASSUME IInv, NEW p \in Processes, ~Idle(p),
         NEW state \in {"limbo", "dead", "committed"},
         TRA_set_state(p, tra[p].number, state)
  PROVE  /\ tip' \in [Numbers -> {"active", "limbo", "dead", "committed"}]
         /\ tip'[tra[p].number] = state
         /\ \A n \in Started : n # tra[p].number => tip'[n] = tip[n]
<1>1. tra[p].number \in Numbers
  BY Running, StartedNumbers, Zenon
<1> QED BY <1>1, StartedNumbers, Zenon DEF TRA_set_state, IInv, TypeOK

(* wait_kill(): the victim's state is what it was when its lock was free.  *)
LEMMA wait_kill_Step ==
  ASSUME IInv, NEW p \in Processes, wait_kill(p)
  PROVE  Step(p)
<1> DEFINE m == loc[p].n
<1>1. /\ pc[p] = "kill" /\ ~Idle(p) /\ ~Retaining(p) /\ Waiting(p)
      /\ Phase(p) = loc[p].caller
      /\ UNCHANGED <<hdr, data, lock, dbb>> /\ tip' = [tip EXCEPT ![m] = "dead"]
  BY Zenon DEF wait_kill, At, Idle, Retaining, Waiting, Phase
<1>2. \E c : WaitReturns(p, m, "dead", c)
  BY Zenon DEF wait_kill
<1>3. /\ Own(p) /\ Awaited(p) /\ tra[p].mode # "reconnected" /\ tra[p].number \in Started
  BY <1>1, Running, Zenon
<1>4. m \in 1 .. hdr.next /\ m \in Started /\ lock[m] = 0 /\ tip[m] \in {"active", "dead"}
  BY <1>1, <1>3, Bounds, Zenon DEF Awaited
<1>5. /\ tip' \in [Numbers -> {"active", "limbo", "dead", "committed"}] /\ tip'[m] = "dead"
      /\ \A n \in Started : n # m => tip'[n] = tip[n]
  BY <1>1, <1>4, StartedNumbers, Zenon DEF IInv, TypeOK
<1>6. /\ TypeOK' /\ Frame(p) /\ Marks(p)' /\ Phase(p)' = Phase(p) /\ pc'[p] \in {"scan", "active", "sweeping"}
      /\ tra'[p].number = tra[p].number /\ tra'[p].mode = tra[p].mode
      /\ tra'[p].prepared = tra[p].prepared
  BY <1>1, <1>2, <1>5, Returns, Zenon DEF IInv, TypeOK
<1>7. ~Idle(p)' /\ ~Retaining(p)' /\ ~Waiting(p)' /\ ~Reading(p)'
  BY <1>6, Zenon DEF Idle, Retaining, Waiting, Reading
<1>8. StateStep(p)
  BY <1>1, <1>4, <1>5, SMTT(30) DEF StateStep, Final
<1>9. NumsStep(p)
  BY <1>1, <1>6, <1>7, ZenonT(30) DEF NumsStep, Nums
<1>10. DataStep(p)
  BY <1>1, <1>5, <1>6, SMTT(30) DEF DataStep, IInv, Cached, Losable, Writer
<1>11. Own(p)'
  <2>1. tra[p].number # m
    BY <1>3, <1>4, <1>1, Zenon DEF Own, Awaited
  <2> QED BY <2>1, <1>1, <1>3, <1>5, <1>6, SMTT(30) DEF Own, Writer
<1> QED BY <1>1, <1>6, <1>7, <1>8, <1>9, <1>10, <1>11, SMTT(30) DEF Step, Local, IInv, TypeOK

-----------------------------------------------------------------------------
(* TRA_start() and the steps of a read only, read committed transaction.   *)

(* bump_transaction_id() gives a number that nobody owns.                  *)
LEMMA Bump ==
  ASSUME IInv, NEW p \in Processes, bump_transaction_id(p)
  PROVE  /\ hdr' \in [next : 0 .. MAX_TRA_NUMBER, oit : Nat \ {0}, oat : Nat, ost : Nat]
         /\ hdr'.next = hdr.next + 1 /\ hdr'.next > hdr.next /\ hdr'.next \in Started
         /\ hdr'.next \in 1 .. hdr'.next
         /\ \A q \in Processes : hdr'.next \notin Nums(q)
         /\ tip[hdr'.next] = "active"
<1>1. /\ hdr.next \in 0 .. MAX_TRA_NUMBER /\ hdr.next < MAX_TRA_NUMBER
      /\ hdr.oit \in Nat \ {0} /\ hdr.oat \in Nat /\ hdr.ost \in Nat
      /\ dbb[p].oit \in Nat /\ dbb[p].oat \in Nat /\ dbb[p].ost \in Nat
  BY Zenon DEF bump_transaction_id, IInv, TypeOK
<1>2. /\ Max({hdr.oit, dbb[p].oit}) \in Nat \ {0} /\ Max({hdr.oat, dbb[p].oat}) \in Nat
      /\ Max({hdr.ost, dbb[p].ost}) \in Nat
  BY <1>1, MaxPair, SMTT(30)
<1>3. /\ hdr' \in [next : 0 .. MAX_TRA_NUMBER, oit : Nat \ {0}, oat : Nat, ost : Nat]
      /\ hdr'.next = hdr.next + 1
  BY <1>1, <1>2, NumbersAssumption, SMTT(30) DEF bump_transaction_id
<1>4. hdr'.next > hdr.next /\ hdr'.next \in Started /\ hdr'.next \in 1 .. hdr'.next
  BY <1>1, <1>3, NumbersAssumption, SMTT(30) DEF Started
<1>5. \A q \in Processes : hdr'.next \notin Nums(q)
  BY <1>1, <1>3, NumsStarted, SMTT(30)
<1> QED BY <1>3, <1>4, <1>5, Zenon DEF IInv, Unstarted

(* TRA_start() takes the lock on its new number, which is still active.    *)
LEMMA TRA_start_Step ==
  ASSUME IInv, NEW p \in Processes, NEW mode \in Modes, TRA_start(p, mode)
  PROVE  Step(p)
<1> DEFINE number == hdr'.next
           active == Max({hdr'.oat, hdr'.oit})
<1>1. /\ Idle(p) /\ bump_transaction_id(p)
      /\ UNCHANGED <<tip, data, dbb>>
      /\ lock' = [lock EXCEPT ![number] = StartWord(mode, active, number)]
  BY Zenon DEF TRA_start, At, Idle
<1>2. /\ hdr' \in [next : 0 .. MAX_TRA_NUMBER, oit : Nat \ {0}, oat : Nat, ost : Nat]
      /\ number = hdr.next + 1 /\ number > hdr.next /\ number \in Started
      /\ number \in 1 .. number
      /\ \A q \in Processes : number \notin Nums(q)
      /\ tip[number] = "active"
  BY <1>1, Bump, Zenon
<1>3. active \in Nat \ {0} /\ hdr'.oit \in Nat \ {0} /\ number \in Nat \ {0}
  BY <1>2, MaxPair, SMTT(30) DEF Started
<1> HIDE DEF active
<1>4. /\ lock' \in [Started -> Nat] /\ lock'[number] # 0
      /\ \A n \in Started : n # number => lock'[n] = lock[n]
  BY <1>1, <1>2, <1>3, Zenon DEF StartWord, IInv, TypeOK
<1>5. /\ DOMAIN tra' = Processes /\ \A q \in Processes : DOMAIN (tra'[q]) = TraFields
      /\ \A q \in Processes \ {p} : tra'[q] = tra[q]
      /\ tra'[p].number = number /\ tra'[p].top = number /\ tra'[p].oldest = hdr'.oit
      /\ tra'[p].oldest_active = number /\ tra'[p].mode = mode /\ tra'[p].prepared = FALSE
  <2>1. tra' = [tra EXCEPT ![p] =
             [NoTransaction EXCEPT !.number = number, !.top = number, !.oldest = hdr'.oit,
                                   !.oldest_active = number, !.mode = mode]]
    BY Zenon DEF TRA_start
  <2> QED BY <2>1, Zenon DEF IInv, TypeOK, TraFields, NoTransaction
<1>6. /\ DOMAIN loc' = Processes /\ DOMAIN pc' = Processes
      /\ \A q \in Processes : DOMAIN (loc'[q]) = LocFields
      /\ \A q \in Processes \ {p} : pc'[q] = pc[q] /\ loc'[q] = loc[q]
      /\ loc'[p].active = active
      /\ \/ pc'[p] \in {"inventory", "cache"} /\ loc'[p].then = "scan"
         \/ pc'[p] = "scan"
  <2> DEFINE locals == [NoLocals EXCEPT !.active = active, !.ost = hdr'.ost]
             cache == TPC_initialize_tpc(tpc[p], number)
  <2>1. \/ /\ Goto(p, "inventory")
           /\ loc' = [loc EXCEPT ![p] = [locals EXCEPT
                !.s = Page(hdr'.oit), !.last = Page(number), !.then = "scan"]]
        \/ /\ Goto(p, "cache")
           /\ loc' = [loc EXCEPT ![p] = [locals EXCEPT !.s = cache.from, !.then = "scan"]]
        \/ /\ Goto(p, "scan") /\ loc' = [loc EXCEPT ![p] = locals]
    BY Zenon DEF TRA_start, active
  <2>2. PICK r, l :
          /\ DOMAIN r = LocFields /\ r.active = active
          /\ (l \in {"inventory", "cache"} /\ r.then = "scan") \/ l = "scan"
          /\ loc' = [loc EXCEPT ![p] = r] /\ pc' = [pc EXCEPT ![p] = l]
    <3>1. CASE /\ Goto(p, "inventory")
               /\ loc' = [loc EXCEPT ![p] = [locals EXCEPT
                    !.s = Page(hdr'.oit), !.last = Page(number), !.then = "scan"]]
      <4> DEFINE r == [locals EXCEPT !.s = Page(hdr'.oit), !.last = Page(number), !.then = "scan"]
      <4>1. DOMAIN r = LocFields /\ r.active = active /\ r.then = "scan"
        BY Zenon DEF NoLocals, LocFields
      <4> QED BY <3>1, <4>1, Zenon DEF Goto
    <3>2. CASE /\ Goto(p, "cache")
               /\ loc' = [loc EXCEPT ![p] = [locals EXCEPT !.s = cache.from, !.then = "scan"]]
      <4> DEFINE r == [locals EXCEPT !.s = cache.from, !.then = "scan"]
      <4>1. DOMAIN r = LocFields /\ r.active = active /\ r.then = "scan"
        BY Zenon DEF NoLocals, LocFields
      <4> QED BY <3>2, <4>1, Zenon DEF Goto
    <3>3. CASE Goto(p, "scan") /\ loc' = [loc EXCEPT ![p] = locals]
      <4>1. DOMAIN locals = LocFields /\ locals.active = active
        BY Zenon DEF NoLocals, LocFields
      <4> QED BY <3>3, <4>1, Zenon DEF Goto
    <3> QED BY <2>1, <3>1, <3>2, <3>3, Zenon
  <2> QED BY <2>2, Zenon DEF IInv, TypeOK
<1>7. TypeOK' /\ Frame(p)
  BY <1>1, <1>2, <1>4, <1>5, <1>6, Zenon DEF IInv, TypeOK, Frame
<1>8. ~Idle(p)' /\ ~Retaining(p)' /\ ~Waiting(p)' /\ Phase(p)' = "scan"
  BY <1>6, Zenon DEF Idle, Retaining, Waiting, Reading, Phase
<1>9. StateStep(p)
  BY <1>1, <1>2, <1>4, Zenon DEF StateStep
<1>10. NumsStep(p)
  BY <1>2, <1>5, <1>8, ZenonT(30) DEF NumsStep, Nums
<1>11. DataStep(p)
  BY <1>1, IdleFacts, Zenon DEF DataStep, Losable
<1>12. Own(p)'
  BY <1>1, <1>2, <1>4, <1>5, <1>8, NumbersAssumption, Zenon DEF Own, Writer
<1>13. Marks(p)'
  BY <1>3, <1>5, <1>6, Zenon DEF Marks
<1>14. Reading(p)' => ReturnsTo(p)'
  BY <1>6, Zenon DEF Reading, ReturnsTo
<1>15. hdr.next <= hdr'.next
  BY <1>2 DEF IInv, TypeOK
<1> QED BY <1>7, <1>8, <1>9, <1>10, <1>11, <1>12, <1>13, <1>14, <1>15, ZenonT(30) DEF Step, Local

(* A read-only read-committed transaction is committed as it starts.       *)
LEMMA start_precommit_Step ==
  ASSUME IInv, NEW p \in Processes, start_precommit(p)
  PROVE  Step(p)
<1>1. /\ pc[p] = "precommit" /\ ~Idle(p) /\ ~Retaining(p) /\ Phase(p) = "precommit"
      /\ TRA_set_state(p, tra[p].number, "committed")
      /\ UNCHANGED <<hdr, data, lock, dbb, tra, loc>> /\ pc' = [pc EXCEPT ![p] = "unlock"]
  BY Zenon DEF start_precommit, At, Goto, Idle, Retaining, Waiting, Reading, Phase
<1>2. /\ Own(p) /\ Marks(p) /\ tra[p].number \in 1 .. hdr.next /\ tra[p].mode = "read_only"
      /\ tip[tra[p].number] = "active" /\ lock[tra[p].number] # 0
  BY <1>1, Running, Zenon DEF Own
<1>3. /\ tip' \in [Numbers -> {"active", "limbo", "dead", "committed"}]
      /\ tip'[tra[p].number] = "committed"
      /\ \A n \in Started : n # tra[p].number => tip'[n] = tip[n]
  BY <1>1, SetOwn, Zenon
<1>4. TypeOK' /\ Frame(p) /\ pc'[p] = "unlock"
  BY <1>1, <1>3, Zenon DEF IInv, TypeOK, Frame
<1>5. ~Idle(p)' /\ ~Retaining(p)' /\ ~Waiting(p)' /\ ~Reading(p)' /\ Phase(p)' = "unlock"
  BY <1>4, Zenon DEF Idle, Retaining, Waiting, Reading, Phase
<1>6. StateStep(p) /\ NumsStep(p)
  BY <1>1, <1>2, <1>3, <1>5, SMTT(30) DEF StateStep, NumsStep, Nums, Final
<1>7. DataStep(p)
  BY <1>1, <1>2, <1>3, SMTT(30) DEF DataStep, IInv, Cached, Losable, Writer
<1>8. Own(p)' /\ Marks(p)'
  BY <1>1, <1>2, <1>3, <1>5, SMTT(30) DEF Own, Marks
<1> QED BY <1>1, <1>4, <1>5, <1>6, <1>7, <1>8 DEF Step, Local, IInv, TypeOK

(* Once precommitted, a transaction needs its lock no more.                *)
LEMMA start_unlock_Step ==
  ASSUME IInv, NEW p \in Processes, start_unlock(p)
  PROVE  Step(p)
<1>1. /\ pc[p] = "unlock" /\ ~Idle(p) /\ ~Retaining(p) /\ Phase(p) = "unlock"
      /\ UNCHANGED <<hdr, tip, data, dbb, tra, loc>> /\ pc' = [pc EXCEPT ![p] = "active"]
      /\ lock' = [lock EXCEPT ![tra[p].number] = 0]
  BY Zenon DEF start_unlock, At, Goto, Idle, Retaining, Waiting, Reading, Phase
<1>2. /\ Own(p) /\ Marks(p) /\ tra[p].number \in 1 .. hdr.next /\ tra[p].number \in Started
      /\ tra[p].mode = "read_only" /\ tip[tra[p].number] = "committed"
  BY <1>1, Running, Zenon DEF Own
<1>3. /\ lock' \in [Started -> Nat] /\ lock'[tra[p].number] = 0
      /\ \A n \in Started : n # tra[p].number => lock'[n] = lock[n]
  BY <1>1, <1>2, Zenon DEF IInv, TypeOK
<1>4. TypeOK' /\ Frame(p) /\ pc'[p] = "active"
  BY <1>1, <1>3, Zenon DEF IInv, TypeOK, Frame
<1>5. ~Idle(p)' /\ ~Retaining(p)' /\ ~Waiting(p)' /\ ~Reading(p)' /\ Phase(p)' = "active"
  BY <1>4, Zenon DEF Idle, Retaining, Waiting, Reading, Phase
<1>6. StateStep(p) /\ NumsStep(p)
  BY <1>1, <1>2, <1>3, <1>5, Zenon DEF StateStep, NumsStep, Nums
<1>7. DataStep(p)
  BY <1>1, <1>2, <1>4, Zenon DEF DataStep, IInv, Cached, Losable, Writer
<1>8. Own(p)' /\ Marks(p)'
  BY <1>1, <1>2, <1>5 DEF Own, Marks
<1> QED BY <1>1, <1>4, <1>5, <1>6, <1>7, <1>8 DEF Step, Local, IInv, TypeOK

-----------------------------------------------------------------------------
(* Records, and the end of a transaction.                                  *)

(* What a process knows between the calls on its transaction.              *)
LEMMA ActiveFacts ==
  ASSUME IInv, NEW p \in Processes, pc[p] = "active"
  PROVE  /\ ~Idle(p) /\ ~Retaining(p) /\ ~Waiting(p) /\ ~Reading(p) /\ Phase(p) = "active"
         /\ Own(p) /\ Marks(p) /\ tra[p].number \in 1 .. hdr.next /\ tra[p].number \in Started
         /\ tra[p].mode = "read_only" => tip[tra[p].number] = "committed"
         /\ tra[p].mode # "read_only" =>
              /\ tip[tra[p].number] \in {"active", "limbo"}
              /\ lock[tra[p].number] # 0 \/ tip[tra[p].number] = "limbo"
<1>1. ~Idle(p) /\ ~Retaining(p) /\ ~Waiting(p) /\ ~Reading(p) /\ Phase(p) = "active"
  BY Zenon DEF Idle, Retaining, Waiting, Reading, Phase
<1>2. Own(p) /\ Marks(p) /\ tra[p].number \in 1 .. hdr.next /\ tra[p].number \in Started
  BY <1>1, Running, Zenon
<1> QED BY <1>1, <1>2, Zenon DEF Own, Writer

(* VIO_store() caches a record under the number of a live transaction.     *)
LEMMA VIO_store_Step ==
  ASSUME IInv, NEW p \in Processes, VIO_store(p)
  PROVE  Step(p)
<1>1. /\ pc[p] = "active" /\ Writer(p) /\ ~tra[p].prepared
      /\ data' = [data EXCEPT ![tra[p].number] = p]
      /\ UNCHANGED <<hdr, tip, lock, dbb, pc, loc>>
      /\ tra' = [tra EXCEPT ![p].write = TRUE]
  BY Zenon DEF VIO_store, At, Writer
<1>2. /\ DOMAIN tra' = Processes /\ \A q \in Processes : DOMAIN (tra'[q]) = TraFields
      /\ \A q \in Processes \ {p} : tra'[q] = tra[q]
      /\ tra'[p].number = tra[p].number /\ tra'[p].mode = tra[p].mode
      /\ tra'[p].prepared = tra[p].prepared /\ tra'[p].top = tra[p].top
      /\ tra'[p].oldest = tra[p].oldest /\ tra'[p].oldest_active = tra[p].oldest_active
  BY <1>1, Zenon DEF IInv, TypeOK, TraFields
<1>3. /\ data' \in [Started -> Processes \cup {"none", "disk"}]
      /\ \A n \in Started : n # tra[p].number => data'[n] = data[n]
      /\ data'[tra[p].number] = p
  BY <1>1, ActiveFacts, Zenon DEF IInv, TypeOK
<1>4. TypeOK' /\ Frame(p)
  BY <1>1, <1>2, <1>3, Zenon DEF IInv, TypeOK, Frame
<1>5. tip[tra[p].number] = "active"
  BY <1>1, ActiveFacts, Zenon DEF Own, Writer
<1>6. /\ ~Idle(p)' /\ ~Retaining(p)' /\ ~Waiting(p)' /\ ~Reading(p)' /\ Phase(p)' = Phase(p)
      /\ Writer(p)'
  BY <1>1, <1>2, ActiveFacts, Zenon DEF Idle, Retaining, Waiting, Reading, Phase, Writer
<1>7. StateStep(p) /\ NumsStep(p)
  BY <1>1, <1>2, <1>6, ActiveFacts, Zenon DEF StateStep, NumsStep, Nums
<1>8. DataStep(p)
  <2> SUFFICES ASSUME NEW n \in Started, data'[n] = p PROVE Losable(p, n)'
    BY <1>3, ActiveFacts, <1>1 DEF DataStep, IInv, TypeOK
  <2>1. CASE n = tra[p].number
    BY <2>1, <1>1, <1>2, <1>5, <1>6, Zenon DEF Losable
  <2>2. CASE n # tra[p].number
    <3>1. Losable(p, n) BY <2>2, <1>3, Zenon DEF IInv, Cached
    <3> QED BY <2>2, <3>1, <1>1, Zenon DEF Losable
  <2> QED BY <2>1, <2>2, Zenon
<1>9. Own(p)' /\ Marks(p)'
  BY <1>1, <1>2, <1>5, <1>6, ActiveFacts, SMTT(30) DEF Own, Marks
<1> QED BY <1>1, <1>4, <1>6, <1>7, <1>8, <1>9 DEF Step, Local, IInv, TypeOK

(* Undone versions are gone; what else p had cached stays or is on disk.   *)
LEMMA Undone ==
  ASSUME IInv, NEW p \in Processes, Undo(p)
  PROVE  /\ data' \in [Started -> Processes \cup {"none", "disk"}]
         /\ \A n \in Started :
              /\ data'[n] # data[n] => n <= hdr.next /\ data'[n] \in {"none", "disk"}
              /\ data'[n] = p => n # tra[p].number /\ ~tra[p].write
<1>1. p # "none" /\ p # "disk"
  BY NumbersAssumption, Zenon
<1>2. \A n \in Started : data[n] # "none" => n <= hdr.next
  BY Bounds, Zenon DEF IInv, Unstarted
<1> QED BY <1>1, <1>2 DEF Undo, IInv, TypeOK

(* What TRA_commit(), TRA_rollback() and their variants have in common.    *)
LEMMA Ending ==
  ASSUME IInv, NEW p \in Processes, NEW state \in {"committed", "dead"},
         pc[p] = "active", pc' = [pc EXCEPT ![p] = "release"], EndState(p, state),
         UNCHANGED <<hdr, lock, dbb, tra, loc>>,
         data' \in [Started -> Processes \cup {"none", "disk"}],
         \A n \in Started :
           /\ data'[n] # data[n] => n <= hdr.next /\ data'[n] \in {"none", "disk"}
           /\ data'[n] = p => state = "dead"
  PROVE  Step(p)
<1>1. /\ tip' \in [Numbers -> {"active", "limbo", "dead", "committed"}]
      /\ \A n \in Started : n # tra[p].number => tip'[n] = tip[n]
      /\ IF tra[p].mode = "read_only" THEN tip' = tip ELSE tip'[tra[p].number] = state
  BY SetOwn, ActiveFacts DEF EndState, IInv, TypeOK
<1>2. TypeOK' /\ Frame(p) /\ pc'[p] = "release"
  BY <1>1, Zenon DEF IInv, TypeOK, Frame
<1>3. ~Idle(p)' /\ ~Retaining(p)' /\ ~Waiting(p)' /\ ~Reading(p)' /\ Phase(p)' = "release"
  BY <1>2, Zenon DEF Idle, Retaining, Waiting, Reading, Phase
<1>4. StateStep(p)
  <2> SUFFICES ASSUME NEW n \in Started, tip'[n] # tip[n]
               PROVE  /\ n <= hdr.next /\ ~Final(tip[n])
                      /\ n = tra[p].number /\ (lock[n] # 0 \/ tip[n] = "limbo")
    BY Zenon DEF StateStep
  <2>1. n = tra[p].number /\ tra[p].mode # "read_only"
    BY <1>1, Zenon
  <2> QED BY <2>1, ActiveFacts DEF Final
<1>5. NumsStep(p)
  BY <1>3, ActiveFacts, Zenon DEF NumsStep, Nums
<1>6. DataStep(p)
  <2> SUFFICES ASSUME NEW n \in Started, data'[n] = p PROVE Losable(p, n)'
    BY Zenon DEF DataStep
  <2>1. data[n] = p /\ state = "dead"
    BY NumbersAssumption, Zenon
  <2>2. Losable(p, n)
    BY <2>1, Zenon DEF IInv, Cached
  <2>3. tip'[n] = "dead"
    BY <1>1, <2>1, <2>2, ActiveFacts, ZenonT(30) DEF Losable, Writer
  <2> QED BY <2>3, Zenon DEF Losable
<1>7. Own(p)'
  BY <1>1, <1>2, <1>3, ActiveFacts, SMTT(30) DEF Own, Writer, Final
<1>8. Marks(p)'
  BY <1>2, <1>3, ActiveFacts, Zenon DEF Marks
<1>9. hdr.next <= hdr'.next
  BY Bounds
<1> QED BY <1>2, <1>3, <1>4, <1>5, <1>6, <1>7, <1>8, <1>9, Zenon DEF Step, Local

(* TRA_commit() and TRA_rollback() set the state of their own transaction. *)
LEMMA Ends_Step ==
  ASSUME IInv, NEW p \in Processes,
         TRA_commit(p) \/ TRA_rollback_undo(p) \/ TRA_rollback_dead(p)
  PROVE  Step(p)
<1>1. CASE TRA_commit(p)
  BY <1>1, Flush, Ending, Zenon DEF TRA_commit, At, Goto
<1>2. CASE TRA_rollback_undo(p)
  <2>1. tra[p].write /\ Undo(p)
    BY <1>2, Zenon DEF TRA_rollback_undo
  <2> QED BY <1>2, <2>1, Undone, Ending, Zenon DEF TRA_rollback_undo, At, Goto
<1>3. CASE TRA_rollback_dead(p)
  BY <1>3, Ending, Zenon DEF TRA_rollback_dead, At, Goto, IInv, TypeOK
<1> QED BY <1>1, <1>2, <1>3, Zenon

(* TRA_prepare() flushes the records before it sets the limbo state.       *)
LEMMA TRA_prepare_Step ==
  ASSUME IInv, NEW p \in Processes, TRA_prepare(p)
  PROVE  Step(p)
<1>1. /\ pc[p] = "active" /\ Writer(p) /\ ~tra[p].prepared /\ CCH_flush(p)
      /\ TRA_set_state(p, tra[p].number, "limbo")
      /\ UNCHANGED <<hdr, lock, dbb, pc, loc>>
      /\ tra' = [tra EXCEPT ![p].prepared = TRUE]
  BY Zenon DEF TRA_prepare, EndState, At, Writer
<1>2. /\ DOMAIN tra' = Processes /\ \A q \in Processes : DOMAIN (tra'[q]) = TraFields
      /\ \A q \in Processes \ {p} : tra'[q] = tra[q]
      /\ tra'[p].number = tra[p].number /\ tra'[p].mode = tra[p].mode
      /\ tra'[p].prepared = TRUE /\ tra'[p].top = tra[p].top
      /\ tra'[p].oldest = tra[p].oldest /\ tra'[p].oldest_active = tra[p].oldest_active
  BY <1>1, Zenon DEF IInv, TypeOK, TraFields
<1>3. /\ tip' \in [Numbers -> {"active", "limbo", "dead", "committed"}]
      /\ tip'[tra[p].number] = "limbo"
      /\ \A n \in Started : n # tra[p].number => tip'[n] = tip[n]
  BY <1>1, SetOwn, ActiveFacts, Zenon
<1>4. TypeOK' /\ Frame(p)
  BY <1>1, <1>2, <1>3, Flush, Zenon DEF IInv, TypeOK, Frame
<1>5. /\ ~Idle(p)' /\ ~Retaining(p)' /\ ~Waiting(p)' /\ ~Reading(p)' /\ Phase(p)' = Phase(p)
      /\ Writer(p)'
  BY <1>1, <1>2, ActiveFacts, Zenon DEF Idle, Retaining, Waiting, Reading, Phase, Writer
<1>6. tra[p].mode # "read_only"
  BY <1>1, Zenon DEF Writer
<1>7. StateStep(p) /\ NumsStep(p)
  BY <1>1, <1>2, <1>3, <1>5, <1>6, ActiveFacts DEF StateStep, NumsStep, Nums, Final
<1>8. DataStep(p)
  BY <1>1, Flush, Zenon DEF DataStep
<1>9. Own(p)' /\ Marks(p)'
  BY <1>1, <1>2, <1>3, <1>5, ActiveFacts, SMTT(30) DEF Own, Marks, Writer
<1> QED BY <1>1, <1>4, <1>5, <1>7, <1>8, <1>9 DEF Step, Local, IInv, TypeOK

(* After the release, what p still has cached belongs to dead transactions.*)
LEMMA TRA_release_transaction_Step ==
  ASSUME IInv, NEW p \in Processes, TRA_release_transaction(p)
  PROVE  Step(p)
<1>1. /\ pc[p] = "release" /\ ~Idle(p) /\ ~Retaining(p) /\ Phase(p) = "release"
      /\ UNCHANGED <<hdr, tip, data, dbb>> /\ pc' = [pc EXCEPT ![p] = "idle"]
      /\ loc' = [loc EXCEPT ![p] = NoLocals] /\ tra' = [tra EXCEPT ![p] = NoTransaction]
      /\ lock' = [lock EXCEPT ![tra[p].number] = 0]
  BY Zenon DEF TRA_release_transaction, At, Done, Goto, Idle, Retaining, Waiting, Reading, Phase
<1>2. /\ tra[p].number \in Started /\ Final(tip[tra[p].number])
  BY <1>1, Running, Zenon DEF Own, Final
<1>3. /\ lock' \in [Started -> Nat] /\ lock'[tra[p].number] = 0
      /\ \A n \in Started : n # tra[p].number => lock'[n] = lock[n]
  BY <1>1, <1>2, Zenon DEF IInv, TypeOK
<1>4. TypeOK' /\ Frame(p) /\ pc'[p] = "idle" /\ tra'[p].number = 0
  BY <1>1, <1>3, Zenon DEF IInv, TypeOK, Frame, NoTransaction, NoLocals, TraFields, LocFields
<1>5. Idle(p)' /\ ~Retaining(p)' /\ ~Waiting(p)' /\ ~Reading(p)'
  BY <1>4, Zenon DEF Idle, Retaining, Waiting, Reading
<1>6. StateStep(p) /\ NumsStep(p)
  BY <1>1, <1>2, <1>3, <1>4, <1>5 DEF StateStep, NumsStep, Nums, Started
<1>7. DataStep(p)
  BY <1>1, <1>2, Zenon DEF DataStep, IInv, Cached, Losable, Final
<1> QED BY <1>1, <1>4, <1>5, <1>6, <1>7 DEF Step, Local, IInv, TypeOK

(* TRA_reconnect() takes over a transaction in limbo that nobody has.      *)
LEMMA TRA_reconnect_Step ==
  ASSUME IInv, NEW p \in Processes, NEW m \in Started, TRA_reconnect(p, m)
  PROVE  Step(p)
<1>1. /\ pc[p] = "idle" /\ Idle(p) /\ tip[m] = "limbo"
      /\ \A q \in Processes : tra[q].number # m
      /\ UNCHANGED <<hdr, tip, data, lock, dbb, loc>> /\ pc' = [pc EXCEPT ![p] = "active"]
      /\ tra' = [tra EXCEPT ![p] = [NoTransaction EXCEPT
           !.number = m, !.mode = "reconnected", !.write = TRUE, !.prepared = TRUE]]
  BY Zenon DEF TRA_reconnect, At, Goto, Idle
<1>2. /\ DOMAIN tra' = Processes /\ \A q \in Processes : DOMAIN (tra'[q]) = TraFields
      /\ \A q \in Processes \ {p} : tra'[q] = tra[q]
      /\ tra'[p].number = m /\ tra'[p].mode = "reconnected"
  BY <1>1, Zenon DEF IInv, TypeOK, NoTransaction, TraFields
<1>3. TypeOK' /\ Frame(p) /\ pc'[p] = "active"
  BY <1>1, <1>2, Zenon DEF IInv, TypeOK, Frame
<1>4. ~Idle(p)' /\ ~Retaining(p)' /\ ~Waiting(p)' /\ ~Reading(p)' /\ Phase(p)' = "active"
  BY <1>3, Zenon DEF Idle, Retaining, Waiting, Reading, Phase
<1>5. m \in 1 .. hdr.next
  BY <1>1, Bounds, Zenon DEF IInv, Unstarted
<1>6. \A q \in Processes : m \notin Nums(q)
  BY <1>1, Zenon DEF Nums, IInv, Local, Successor
<1>7. StateStep(p) /\ NumsStep(p)
  BY <1>1, <1>2, <1>4, <1>6 DEF StateStep, NumsStep, Nums
<1>8. DataStep(p)
  BY <1>1, IdleFacts, Zenon DEF DataStep, Losable
<1>9. Own(p)' /\ Marks(p)'
  BY <1>1, <1>2, <1>3, <1>4, <1>5, Zenon DEF Own, Marks
<1> QED BY <1>1, <1>3, <1>4, <1>7, <1>8, <1>9, SMTT(30) DEF Step, Local, IInv, TypeOK

-----------------------------------------------------------------------------
(* Retaining: the new number is locked before the old one is released.     *)

(* retain_context() locks a new number while it still has the old one.     *)
LEMMA retain_context_Step ==
  ASSUME IInv, NEW p \in Processes, NEW end \in {"commit", "undo", "dead"},
         retain_context(p, end)
  PROVE  Step(p)
<1> DEFINE m == hdr'.next
           state == IF end = "dead" THEN "dead" ELSE "committed"
<1>1. /\ pc[p] = "active" /\ Writer(p) /\ bump_transaction_id(p)
      /\ lock' = [lock EXCEPT ![m] = lock[tra[p].number]]
      /\ pc' = [pc EXCEPT ![p] = "retain"]
      /\ loc' = [loc EXCEPT ![p].state = state, ![p].commit = (end = "commit"), ![p].n = m]
      /\ UNCHANGED <<tip, dbb, tra>>
  BY Zenon DEF retain_context, At, Writer, Goto
<1>2. /\ hdr' \in [next : 0 .. MAX_TRA_NUMBER, oit : Nat \ {0}, oat : Nat, ost : Nat]
      /\ m = hdr.next + 1 /\ m > hdr.next /\ m \in Started /\ m \in 1 .. m
      /\ \A q \in Processes : m \notin Nums(q)
      /\ tip[m] = "active"
  BY <1>1, Bump, Zenon
<1>3. /\ tra[p].number \in 1 .. hdr.next /\ tra[p].number \in Started
      /\ Own(p) /\ Marks(p) /\ lock[tra[p].number] # 0
      /\ tra[p].mode \in {"snapshot", "read_committed"}
  BY <1>1, ActiveFacts, Zenon DEF Own, Writer
<1>4. m # tra[p].number /\ tra[p].number \in 1 .. m /\ hdr.next <= m
  BY <1>2, <1>3 DEF IInv, TypeOK
<1>5. /\ lock' \in [Started -> Nat] /\ lock'[m] = lock[tra[p].number]
      /\ \A n \in Started : n # m => lock'[n] = lock[n]
  BY <1>1, <1>2, <1>3, Zenon DEF IInv, TypeOK
<1>6. /\ data' \in [Started -> Processes \cup {"none", "disk"}]
      /\ \A n \in Started :
           /\ data'[n] # data[n] => n <= hdr.next /\ data'[n] \in {"none", "disk"}
           /\ data'[n] = p => end = "dead" \/ n # tra[p].number
  <2>1. CASE end = "commit"
    BY <2>1, Flush DEF retain_context
  <2>2. CASE end = "undo"
    BY <2>2, Undone DEF retain_context
  <2>3. CASE end = "dead"
    <3>1. UNCHANGED data
      BY <2>3 DEF retain_context
    <3> QED BY <2>3, <3>1, Zenon DEF IInv, TypeOK
  <2> QED BY <2>1, <2>2, <2>3, Zenon
<1>7. /\ DOMAIN loc' = Processes /\ DOMAIN pc' = Processes
      /\ \A q \in Processes : DOMAIN (loc'[q]) = LocFields
      /\ \A q \in Processes \ {p} : pc'[q] = pc[q] /\ loc'[q] = loc[q]
      /\ pc'[p] = "retain" /\ loc'[p].state = state /\ loc'[p].n = m
  BY <1>1, Zenon DEF IInv, TypeOK, LocFields
<1>8. TypeOK' /\ Frame(p)
  BY <1>1, <1>2, <1>5, <1>6, <1>7, Zenon DEF IInv, TypeOK, Frame
<1>9. /\ ~Idle(p)' /\ Retaining(p)' /\ ~Waiting(p)' /\ ~Reading(p)' /\ Phase(p)' = "retain"
      /\ Writer(p)'
  BY <1>1, <1>7, Zenon DEF Idle, Retaining, Waiting, Reading, Phase, Writer
<1>10. StateStep(p) /\ NumsStep(p)
  BY <1>1, <1>2, <1>5, <1>7, SMTT(30) DEF StateStep, NumsStep, Nums
<1>11. DataStep(p)
  <2> SUFFICES ASSUME NEW n \in Started, data'[n] = p PROVE Losable(p, n)'
    BY <1>6, Zenon DEF DataStep
  <2>1. data[n] = p /\ (end = "dead" \/ n # tra[p].number)
    BY <1>6, NumbersAssumption, Zenon
  <2>2. Losable(p, n)
    BY <2>1, Zenon DEF IInv, Cached
  <2> QED BY <2>1, <2>2, <1>1, <1>7 DEF Losable, Writer
<1>12. Own(p)'
  BY <1>1, <1>3, <1>4, <1>5, <1>9, ActiveFacts, Zenon DEF Own, Writer
<1>13. Marks(p)' /\ Successor(p)'
  BY <1>1, <1>2, <1>3, <1>4, <1>5, <1>7, <1>9, ZenonT(30) DEF Marks, Successor
<1> QED BY <1>4, <1>8, <1>9, <1>10, <1>11, <1>12, <1>13, Zenon DEF Step, Local

(* retain_context() sets the state of the old number.                      *)
LEMMA retain_set_state_Step ==
  ASSUME IInv, NEW p \in Processes, retain_set_state(p)
  PROVE  Step(p)
<1>1. /\ pc[p] = "retain" /\ ~Idle(p) /\ Retaining(p) /\ Phase(p) = "retain"
      /\ TRA_set_state(p, tra[p].number, loc[p].state)
      /\ UNCHANGED <<hdr, data, lock, dbb, tra, loc>>
      /\ pc' = [pc EXCEPT ![p] = "retain_release"]
  BY Zenon DEF retain_set_state, At, Goto, Idle, Retaining, Waiting, Reading, Phase
<1>2. /\ Own(p) /\ Marks(p) /\ Successor(p)
      /\ tra[p].number \in 1 .. hdr.next /\ tra[p].number \in Started
  BY <1>1, Running, Zenon DEF IInv, Local
<1>3. /\ Writer(p) /\ lock[tra[p].number] # 0 /\ tip[tra[p].number] \in {"active", "limbo"}
      /\ loc[p].state \in {"committed", "dead"} /\ loc[p].n \in Started
      /\ tra[p].mode # "reconnected"
  BY <1>1, <1>2, Bounds, Zenon DEF Own, Successor, Writer
<1>4. /\ tip' \in [Numbers -> {"active", "limbo", "dead", "committed"}]
      /\ tip'[tra[p].number] = loc[p].state
      /\ \A n \in Started : n # tra[p].number => tip'[n] = tip[n]
  BY <1>1, <1>3, SetOwn, Zenon
<1>5. TypeOK' /\ Frame(p) /\ pc'[p] = "retain_release"
  BY <1>1, <1>4, Zenon DEF IInv, TypeOK, Frame
<1>6. /\ ~Idle(p)' /\ Retaining(p)' /\ ~Waiting(p)' /\ ~Reading(p)'
      /\ Phase(p)' = "retain_release" /\ Writer(p)'
  BY <1>1, <1>3, <1>5, ZenonT(30) DEF Idle, Retaining, Waiting, Reading, Phase, Writer
<1>7. StateStep(p) /\ NumsStep(p)
  BY <1>1, <1>2, <1>3, <1>4, <1>6, SMTT(30) DEF StateStep, NumsStep, Nums, Final
<1>8. DataStep(p)
  <2> SUFFICES ASSUME NEW n \in Started, data[n] = p PROVE Losable(p, n)'
    BY <1>1, Zenon DEF DataStep
  <2>1. Losable(p, n)
    BY Zenon DEF IInv, Cached
  <2> QED BY <2>1, <1>1, <1>3, <1>4, Zenon DEF Losable
<1>9. Own(p)' /\ Marks(p)' /\ Successor(p)'
  BY <1>1, <1>2, <1>3, <1>4, <1>5, <1>6, ZenonT(30) DEF Own, Marks, Successor, Final
<1> QED BY <1>1, <1>5, <1>6, <1>7, <1>8, <1>9, SMTT(30) DEF Step, Local, IInv, TypeOK

(* retain_context() releases the old number, whose state is final.         *)
LEMMA retain_release_Step ==
  ASSUME IInv, NEW p \in Processes, retain_release(p)
  PROVE  Step(p)
<1>1. /\ pc[p] = "retain_release" /\ ~Idle(p) /\ Retaining(p) /\ Phase(p) = "retain_release"
      /\ UNCHANGED <<hdr, tip, data, dbb>> /\ pc' = [pc EXCEPT ![p] = "active"]
      /\ lock' = [lock EXCEPT ![tra[p].number] = 0]
      /\ loc' = [loc EXCEPT ![p] = NoLocals]
  BY Zenon DEF retain_release, At, Done, Goto, Idle, Retaining, Waiting, Reading, Phase
<1>2. /\ Own(p) /\ Marks(p) /\ Successor(p)
      /\ tra[p].number \in 1 .. hdr.next /\ tra[p].number \in Started
  BY <1>1, Running, Zenon DEF IInv, Local
<1>3. /\ Writer(p) /\ Final(tip[tra[p].number])
      /\ loc[p].n \in Started /\ loc[p].n \in 1 .. hdr.next /\ loc[p].n # tra[p].number
      /\ lock[loc[p].n] # 0 /\ tip[loc[p].n] = "active" /\ tra[p].mode # "reconnected"
  BY <1>1, <1>2, Bounds, Zenon DEF Own, Successor, Writer
<1>4. /\ DOMAIN tra' = Processes /\ \A q \in Processes : DOMAIN (tra'[q]) = TraFields
      /\ \A q \in Processes \ {p} : tra'[q] = tra[q]
      /\ tra'[p].number = loc[p].n /\ tra'[p].mode = tra[p].mode
      /\ tra'[p].prepared = FALSE /\ tra'[p].top = tra[p].top
      /\ tra'[p].oldest = tra[p].oldest /\ tra'[p].oldest_active = tra[p].oldest_active
  BY DEF retain_release, IInv, TypeOK, TraFields
<1>5. /\ lock' \in [Started -> Nat] /\ lock'[tra[p].number] = 0
      /\ \A n \in Started : n # tra[p].number => lock'[n] = lock[n]
  BY <1>1, <1>2, Zenon DEF IInv, TypeOK
<1>6. TypeOK' /\ Frame(p) /\ pc'[p] = "active"
  BY <1>1, <1>4, <1>5, Zenon DEF IInv, TypeOK, Frame, NoLocals, LocFields
<1>7. /\ ~Idle(p)' /\ ~Retaining(p)' /\ ~Waiting(p)' /\ ~Reading(p)' /\ Phase(p)' = "active"
      /\ Writer(p)'
  BY <1>3, <1>4, <1>6, Zenon DEF Idle, Retaining, Waiting, Reading, Phase, Writer
<1>8. StateStep(p) /\ NumsStep(p)
  BY <1>1, <1>2, <1>3, <1>4, <1>5, <1>7, Zenon DEF StateStep, NumsStep, Nums
<1>9. DataStep(p)
  BY <1>1, <1>3, ZenonT(30) DEF DataStep, IInv, Cached, Losable, Final
<1>10. Own(p)' /\ Marks(p)'
  <2>1. /\ hdr' = hdr /\ tip' = tip /\ pc'[p] = "active"
        /\ tra'[p].number = loc[p].n /\ lock'[loc[p].n] # 0
    BY <1>1, <1>3, <1>4, <1>5, <1>6, Zenon
  <2>2. Own(p)'
    BY <1>3, <1>4, <1>7, <2>1, Zenon DEF Own
  <2>3. Marks(p)'
    BY <1>2, <1>3, <1>4, <1>7, <2>1, ZenonT(30) DEF Marks
  <2> QED
    BY <2>2, <2>3, Zenon
<1>11. hdr.next <= hdr'.next
  BY <1>1, Bounds
<1> QED BY <1>6, <1>7, <1>8, <1>9, <1>10, <1>11, Zenon DEF Step, Local

-----------------------------------------------------------------------------
(* Death of a process, and the next attachment.                            *)

(* A death frees the locks of p and loses what only p had cached.          *)
LEMMA crash_Step ==
  ASSUME IInv, NEW p \in Processes, crash(p)
  PROVE  Step(p)
<1>1. /\ UNCHANGED <<hdr, tip, dbb>> /\ pc' = [pc EXCEPT ![p] = "detached"]
      /\ loc' = [loc EXCEPT ![p] = NoLocals] /\ tra' = [tra EXCEPT ![p] = NoTransaction]
      /\ lock' = [n \in Started |->
           IF n \in {tra[p].number} \cup (IF pc[p] \in {"retain", "retain_release"}
                                            THEN {loc[p].n} ELSE {})
             THEN 0 ELSE lock[n]]
  BY Zenon DEF crash, Done, Goto
<1>2. /\ data' \in [Started -> Processes \cup {"none", "disk"}]
      /\ \A n \in Started :
           /\ data'[n] # data[n] => n <= hdr.next /\ data'[n] \in {"none", "disk"}
           /\ data'[n] # p
  <2>1. CASE CCH_flush(p)
    BY <2>1, Flush, Zenon
  <2>2. CASE data' = [n \in Started |-> IF data[n] = p THEN "none" ELSE data[n]]
    <3>1. \A n \in Started : data[n] # "none" => n <= hdr.next
      BY Bounds, Zenon DEF IInv, Unstarted
    <3>2. p # "none"
      BY NumbersAssumption, Zenon
    <3> QED BY <2>2, <3>1, <3>2, Zenon DEF IInv, TypeOK
  <2> QED BY <2>1, <2>2, Zenon DEF crash
<1>3. /\ lock' \in [Started -> Nat]
      /\ \A n \in Started : lock'[n] # lock[n] => n \in Nums(p) /\ lock'[n] = 0
  BY <1>1, Zenon DEF IInv, TypeOK, Nums, Retaining
<1>4. TypeOK' /\ Frame(p) /\ pc'[p] = "detached" /\ tra'[p].number = 0
  BY <1>1, <1>2, <1>3, Zenon DEF IInv, TypeOK, Frame, NoTransaction, NoLocals, TraFields, LocFields
<1>5. Idle(p)' /\ ~Retaining(p)' /\ ~Waiting(p)' /\ ~Reading(p)'
  BY <1>4, Zenon DEF Idle, Retaining, Waiting, Reading
<1>6. StateStep(p) /\ NumsStep(p)
  BY <1>1, <1>3, <1>4, <1>5, SMTT(30) DEF StateStep, NumsStep, Nums, Started
<1>7. DataStep(p)
  BY <1>2, ZenonT(30) DEF DataStep
<1> QED BY <1>1, <1>4, <1>5, <1>6, <1>7, SMTT(30) DEF Step, Local, IInv, TypeOK

(* TRA_cleanup() finds everybody else detached.                            *)
LEMMA attach_Step ==
  ASSUME IInv, NEW p \in Processes, attach(p)
  PROVE  Step(p)
<1>1. /\ pc[p] = "detached" /\ Idle(p)
      /\ UNCHANGED <<hdr, data, lock, tra, loc>> /\ pc' = [pc EXCEPT ![p] = "idle"]
      /\ dbb' = [dbb EXCEPT ![p] = [oit |-> hdr.oit, oat |-> hdr.oat, ost |-> hdr.ost]]
  BY Zenon DEF attach, At, Goto, Idle
<1>2. /\ tip' \in [Numbers -> {"active", "limbo", "dead", "committed"}]
      /\ \A n \in Started : tip'[n] # tip[n] =>
           /\ n <= hdr.next /\ tip[n] = "active" /\ tip'[n] = "dead"
           /\ \A q \in Processes : Idle(q)
  <2>1. CASE UNCHANGED tip
    BY <2>1, Zenon DEF IInv, TypeOK
  <2>2. CASE /\ \A q \in Processes : At(q, "detached")
             /\ tip' = [n \in Numbers |-> IF n \in hdr.oat .. hdr.next /\ tip[n] = "active"
                                            THEN IF n = 0 THEN "committed" ELSE "dead"
                                            ELSE tip[n]]
    <3>1. \A q \in Processes : Idle(q)
      BY <2>2, Zenon DEF At, Idle
    <3>2. tip' \in [Numbers -> {"active", "limbo", "dead", "committed"}]
      BY <2>2, Zenon DEF IInv, TypeOK
    <3>3. hdr.oat \in Nat /\ hdr.next \in Nat
      BY DEF IInv, TypeOK
    <3>4. \A n \in Started : tip'[n] # tip[n] =>
            n <= hdr.next /\ tip[n] = "active" /\ tip'[n] = "dead"
      BY <2>2, <3>3, StartedNumbers DEF Started
    <3> QED BY <3>1, <3>2, <3>4, Zenon
  <2> QED BY <2>1, <2>2, Zenon DEF attach
<1>3. dbb' \in [Processes -> [oit : Nat, oat : Nat, ost : Nat]]
  BY <1>1, Zenon DEF IInv, TypeOK
<1>4. TypeOK' /\ Frame(p) /\ pc'[p] = "idle"
  BY <1>1, <1>2, <1>3, Zenon DEF IInv, TypeOK, Frame
<1>5. Idle(p)' /\ ~Retaining(p)' /\ ~Waiting(p)' /\ ~Reading(p)'
  BY <1>4, Zenon DEF Idle, Retaining, Waiting, Reading
<1>6. StateStep(p)
  BY <1>1, <1>2, Zenon DEF StateStep, Final
<1>7. NumsStep(p)
  BY <1>1, <1>5, IdleFacts, Zenon DEF NumsStep, Nums, Started
<1>8. DataStep(p)
  BY <1>1, <1>2, IdleFacts, Zenon DEF DataStep, Losable
<1>9. tra'[p].number = 0
  BY <1>1, IdleFacts, Zenon
<1> QED BY <1>1, <1>4, <1>5, <1>6, <1>7, <1>8, <1>9, SMTT(30) DEF Step, Local, IInv, TypeOK

-----------------------------------------------------------------------------
(* The results.                                                            *)

(* A database just created satisfies the invariant.                        *)
LEMMA Initially == Init => IInv
<1> SUFFICES ASSUME Init PROVE IInv
  BY Zenon
<1>1. TypeOK
  BY NumbersAssumption DEF Init, TypeOK, NoTransaction, NoLocals, TraFields, LocFields
<1>2. \A p \in Processes : tra[p].number = 0 /\ pc[p] = "idle"
  BY Zenon DEF Init, NoTransaction
<1>3. \A p \in Processes : Local(p)
  BY <1>2, Zenon DEF Local, Idle, Retaining, Waiting, Reading
<1>4. Disjoint
  BY <1>2 DEF Disjoint, Nums, Retaining, Started
<1>5. Unstarted
  BY StartedNumbers, Zenon DEF Init, Unstarted
<1>6. Cached
  BY NumbersAssumption, Zenon DEF Init, Cached
<1> QED BY <1>1, <1>3, <1>4, <1>5, <1>6, Zenon DEF IInv

(* Every action is a step that one process may take.                       *)
LEMMA NextIsStep ==
  ASSUME IInv, Next, ~UNCHANGED vars
  PROVE  \E p \in Processes : Step(p)
<1>1. PICK p \in Processes :
        StartAction(p) \/ RunAction(p) \/ EndAction(p) \/ crash(p) \/ attach(p)
  BY Zenon DEF Next
<1>2. CASE StartAction(p)
  <2>1. ~TRA_start_refused(p)
    BY Zenon DEF TRA_start_refused
  <2> QED BY <1>2, <2>1, TRA_start_Step, cache_transactions_Step, TRA_get_inventory_Step,
             start_scan_Step, start_query_Step, start_finish_Step, start_precommit_Step,
             start_unlock_Step, sweep_Step, Zenon DEF StartAction, Sweeps
<1>3. CASE RunAction(p)
  BY <1>3, TPC_snapshot_state_Step, TRA_wait_Step, TRA_get_state_Step, TRA_fetch_state_Step,
     wait_kill_Step, VIO_store_Step, Zenon DEF RunAction
<1>4. CASE EndAction(p)
  BY <1>4, Ends_Step, TRA_prepare_Step, TRA_release_transaction_Step, TRA_reconnect_Step,
     retain_context_Step, retain_set_state_Step, retain_release_Step, Zenon DEF EndAction
<1> QED BY <1>1, <1>2, <1>3, <1>4, crash_Step, attach_Step, Zenon

(* Stuttering keeps the invariant.                                         *)
LEMMA Unchanged ==
  ASSUME IInv, UNCHANGED vars
  PROVE  IInv'
<1> USE DEF IInv, vars
<1>1. TypeOK' /\ Unstarted'
  BY Zenon DEF TypeOK, Unstarted
<1>2. Disjoint'
  BY Zenon DEF Disjoint, Nums, Retaining
<1>3. Cached'
  BY ZenonT(30) DEF Cached, Losable, Writer
<1>4. ASSUME NEW p \in Processes PROVE Local(p)'
  <2>1. /\ Idle(p)' = Idle(p) /\ Reading(p)' = Reading(p) /\ Waiting(p)' = Waiting(p)
        /\ Retaining(p)' = Retaining(p) /\ Phase(p)' = Phase(p) /\ Writer(p)' = Writer(p)
    BY Zenon DEF Idle, Reading, Waiting, Retaining, Phase, Writer
  <2>2. Own(p) => Own(p)'
    BY <2>1, Zenon DEF Own
  <2>3. (Marks(p) => Marks(p)') /\ (Successor(p) => Successor(p)') /\ (Awaited(p) => Awaited(p)')
    BY <2>1, Zenon DEF Marks, Successor, Awaited
  <2>4. Local(p) /\ loc' = loc /\ tra' = tra
    BY Zenon
  <2>5. ReturnsTo(p) => ReturnsTo(p)'
    BY Zenon DEF ReturnsTo
  <2> HIDE DEF IInv, vars
  <2> QED
    BY <2>1, <2>2, <2>3, <2>4, <2>5, Zenon DEF Local
<1> QED BY <1>1, <1>2, <1>3, <1>4, Zenon

(* The inductive invariant: a process that may still write the state of    *)
(* its transaction holds the lock on the number, or has reconnected to it  *)
(* in limbo, and whoever TRA_wait() is about to declare dead has no lock.  *)
THEOREM Invariance == Spec => []IInv
<1>1. ASSUME IInv, [Next]_vars PROVE IInv'
  BY <1>1, NextIsStep, StepKeepsInvariant, Unchanged, Zenon
<1> QED BY <1>1, Initially, PTL DEF Spec

(* A state committed or dead on the inventory page never changes: no call  *)
(* of TRA_wait(), which reads lock and state before it writes "dead",      *)
(* and no commit, rollback, retaining, reconnection to a transaction in    *)
(* limbo or TRA_cleanup() overwrites it, with any number of processes, any *)
(* page size, any modes and any bounds.                                    *)
THEOREM StatesAreFinal == Spec => FinalStates
<1>1. ASSUME IInv, [Next]_vars
      PROVE  [\A n \in Started : Final(tip[n]) => tip'[n] = tip[n]]_vars
  BY <1>1, NextIsStep, Zenon DEF Step, StateStep
<1> QED BY <1>1, Invariance, PTL DEF Spec, FinalStates

(* When TRA_set_state() marks a transaction committed, CCH_flush() or the  *)
(* undo has left none of its records in the cache of a process.            *)
THEOREM CommitIsDurable == Spec => []CommittedIsDurable
<1>1. IInv => CommittedIsDurable
  BY Zenon DEF IInv, Cached, Losable, CommittedIsDurable
<1> QED BY <1>1, Invariance, PTL
=============================================================================
