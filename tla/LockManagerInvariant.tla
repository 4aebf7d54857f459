------------------------ MODULE LockManagerInvariant ------------------------
(***************************************************************************)
(* What the operations of LockManager do to the lock table, for any number *)
(* of owners, locks and requests: how the counts of a lock block, its      *)
(* state and its queue follow a grant, a release and a new request.  Then  *)
(* the inductive invariant, what a step has to keep of it, and the calls   *)
(* LOCK_enq, LOCK_convert, LOCK_downgrade and LOCK_deq.                    *)
(***************************************************************************)
EXTENDS LockManager, FiniteSetTheorems, TLAPS

-----------------------------------------------------------------------------
(* Sequences                                                               *)

(* The elements of a sequence. *)
LEMMA ElementOf ==
  ASSUME NEW S, NEW seq \in Seq(S), NEW n \in 1 .. Len(seq)
  PROVE  seq[n] \in S
OBVIOUS

(* A sequence is a function on the places up to its length. *)
LEMMA LengthOf ==
  ASSUME NEW S, NEW seq \in Seq(S)
  PROVE  Len(seq) \in Nat /\ seq \in [1 .. Len(seq) -> S] /\ DOMAIN seq = 1 .. Len(seq)
OBVIOUS

(* ... and such a function is a sequence. *)
LEMMA IsSequence ==
  ASSUME NEW S, NEW n \in Nat, NEW seq \in [1 .. n -> S]
  PROVE  seq \in Seq(S)
OBVIOUS

-----------------------------------------------------------------------------
(* Levels                                                                  *)

(* A level that fits the highest of a set of compatible levels (the state  *)
(* of the lock) fits all of them: the reason why lbl_state is enough.      *)
LEMMA HighestDecides ==
  \A t, m, v \in Level :
    /\ COMPATIBLE(t, m)
    /\ v <= m
    /\ v = m \/ COMPATIBLE(v, m)
    => COMPATIBLE(t, v)
BY DEF COMPATIBLE, compatibility, Level, LCK_none, LCK_null, LCK_SR, LCK_PR,
          LCK_SW, LCK_PW, LCK_EX

(* The compatibility table is symmetric, and no level conflicts with none. *)
LEMMA TableIsSymmetric ==
  /\ \A s, t \in Level : COMPATIBLE(s, t) => COMPATIBLE(t, s)
  /\ \A t \in Level : COMPATIBLE(t, LCK_none) /\ COMPATIBLE(LCK_none, t)
BY DEF COMPATIBLE, compatibility, Level, LCK_none, LCK_null, LCK_SR, LCK_PR,
          LCK_SW, LCK_PW, LCK_EX

(* lock_state() is the highest level with a count.                         *)
LEMMA LockStateIsHighest ==
  ASSUME NEW counts \in [Level -> Nat]
  PROVE  /\ lock_state(counts) \in Level
         /\ \A v \in LCK_null .. LCK_EX : counts[v] > 0 => v <= lock_state(counts)
         /\ lock_state(counts) # LCK_none => counts[lock_state(counts)] > 0
<1> DEFINE Max(v) == counts[v] > 0 /\ \A w \in LCK_null .. LCK_EX : counts[w] > 0 => w <= v
<1>1. CASE \E v \in LCK_null .. LCK_EX : counts[v] > 0
  <2>1. \E v \in LCK_null .. LCK_EX : Max(v)
    BY <1>1 DEF Level, LCK_none, LCK_null, LCK_EX
  <2>2. lock_state(counts) = CHOOSE v \in LCK_null .. LCK_EX : Max(v)
    BY <1>1, Zenon DEF lock_state
  <2>3. lock_state(counts) \in LCK_null .. LCK_EX /\ Max(lock_state(counts))
    BY <2>1, <2>2, Zenon
  <2> QED
    BY <2>3 DEF Level, LCK_none, LCK_null, LCK_EX
<1>2. CASE ~ \E v \in LCK_null .. LCK_EX : counts[v] > 0
  BY <1>2 DEF lock_state, Level, LCK_none, LCK_null, LCK_EX
<1> QED
  BY <1>1, <1>2, Zenon

-----------------------------------------------------------------------------
(* Counting the holders of a lock                                          *)

(* Every set of requests is finite.                                        *)
LEMMA CountType ==
  ASSUME NEW S \in SUBSET Requests
  PROVE  IsFiniteSet(S) /\ Cardinality(S) \in Nat
BY FS_Subset, FS_CardinalityType, RequestsAssumption, Zenon

(* Taking one request out of a set of requests, or putting one in.         *)
LEMMA CountOne ==
  ASSUME NEW S \in SUBSET Requests, NEW r \in Requests
  PROVE  /\ r \in S => Cardinality(S \ {r}) = Cardinality(S) - 1
         /\ r \in S => Cardinality(S) > 0
         /\ r \notin S => Cardinality(S \cup {r}) = Cardinality(S) + 1
<1>1. IsFiniteSet(S) /\ Cardinality(S) \in Nat
  BY CountType, Zenon
<1>2. r \in S => Cardinality(S \ {r}) = Cardinality(S) - 1
  BY <1>1, FS_RemoveElement, Zenon
<1>3. r \in S => Cardinality(S) # 0
  BY <1>1, FS_EmptySet, Zenon
<1>4. r \notin S => Cardinality(S \cup {r}) = Cardinality(S) + 1
  BY <1>1, FS_AddElement, Zenon
<1> QED
  BY <1>1, <1>2, <1>3, <1>4

(* A set of requests with a positive count has a member.                   *)
LEMMA CountPositive ==
  ASSUME NEW S \in SUBSET Requests, Cardinality(S) > 0
  PROVE  \E r \in Requests : r \in S
<1>1. S # {}
  BY FS_EmptySet
<1> QED
  BY <1>1, Zenon

(* CountsWithout(l, r) counts the other requests of the lock.              *)
LEMMA CountsWithoutRequest ==
  ASSUME TypeRequests, TypeLocks, HolderCounts,
         NEW l \in Locks, NEW r \in Requests,
         lrq_lock[r] = l \/ lrq_state[r] = LCK_none
  PROVE  /\ CountsWithout(l, r) \in [Level -> Nat]
         /\ \A v \in LCK_null .. LCK_EX :
              CountsWithout(l, r)[v] =
                Cardinality({s \in RequestsOf(l) \ {r} : lrq_state[s] = v})
<1> DEFINE H(v) == {s \in RequestsOf(l) : lrq_state[s] = v}
           G(v) == {s \in RequestsOf(l) \ {r} : lrq_state[s] = v}
<1>1. \A v \in LCK_null .. LCK_EX : lbl_counts[l][v] = Cardinality(H(v))
  BY Zenon DEF HolderCounts
<1>2. lbl_counts[l] \in [Level -> Nat]
  BY Zenon DEF TypeLocks
<1>3. CASE lrq_state[r] = LCK_none
  <2>1. \A v \in LCK_null .. LCK_EX : G(v) = H(v)
    BY <1>3 DEF LCK_none, LCK_null, LCK_EX
  <2> QED
    BY <1>1, <1>2, <1>3, <2>1, Zenon DEF CountsWithout
<1>4. CASE lrq_state[r] # LCK_none /\ lrq_lock[r] = l
  <2> DEFINE w == lrq_state[r]
  <2>1. w \in LCK_null .. LCK_EX /\ w \in Level
    BY <1>4 DEF TypeRequests, Level, LCK_none, LCK_null, LCK_EX
  <2>2. CountsWithout(l, r) = [lbl_counts[l] EXCEPT ![w] = @ - 1]
    BY <1>4, Zenon DEF CountsWithout, Dec
  <2>3. r \in H(w) /\ H(w) \in SUBSET Requests /\ G(w) = H(w) \ {r}
    BY <1>4, Zenon DEF RequestsOf
  <2>4. Cardinality(G(w)) = Cardinality(H(w)) - 1 /\ Cardinality(H(w)) > 0
    BY <2>3, CountOne, Zenon
  <2>5. \A v \in LCK_null .. LCK_EX : v # w => G(v) = H(v)
    OBVIOUS
  <2>6. CountsWithout(l, r) \in [Level -> Nat]
    BY <1>1, <1>2, <2>1, <2>2, <2>4
  <2>7. \A v \in LCK_null .. LCK_EX : CountsWithout(l, r)[v] = Cardinality(G(v))
    <3> SUFFICES ASSUME NEW v \in LCK_null .. LCK_EX
                 PROVE  CountsWithout(l, r)[v] = Cardinality(G(v))
      OBVIOUS
    <3>1. v \in Level
      BY DEF Level, LCK_none, LCK_null, LCK_EX
    <3>2. CASE v = w
      BY <1>1, <1>2, <2>1, <2>2, <2>4, <3>1, <3>2, Zenon
    <3>3. CASE v # w
      <4>1. CountsWithout(l, r)[v] = lbl_counts[l][v]
        BY <1>2, <2>1, <2>2, <3>1, <3>3, Zenon
      <4> QED
        BY <1>1, <2>5, <3>3, <4>1, Zenon
    <3> QED
      BY <3>2, <3>3, Zenon
  <2> QED
    BY <2>6, <2>7, Zenon
<1> QED
  BY <1>3, <1>4, Zenon

(* A level that fits StateWithout(l, r) fits every other request of lock l.*)
LEMMA FitsAllOthers ==
  ASSUME TypeRequests, TypeLocks, HolderCounts, HighestLevel, GrantedCompatible,
         NEW l \in Locks, NEW r \in Requests,
         lrq_lock[r] = l \/ lrq_state[r] = LCK_none,
         NEW t \in Level, COMPATIBLE(t, StateWithout(l, r))
  PROVE  \A s \in RequestsOf(l) \ {r} : COMPATIBLE(t, lrq_state[s])
<1> DEFINE C == CountsWithout(l, r)
           m == lock_state(C)
           G(v) == {s \in RequestsOf(l) \ {r} : lrq_state[s] = v}
<1>1. C \in [Level -> Nat] /\ \A v \in LCK_null .. LCK_EX : C[v] = Cardinality(G(v))
  BY CountsWithoutRequest, Zenon
<1>2. /\ m \in Level
      /\ \A v \in LCK_null .. LCK_EX : C[v] > 0 => v <= m
      /\ m # LCK_none => C[m] > 0
  BY <1>1, LockStateIsHighest, Zenon
<1>3. StateWithout(l, r) = m
  BY Zenon DEF StateWithout, CountsWithout, HighestLevel
<1> SUFFICES ASSUME NEW s \in RequestsOf(l) \ {r}
             PROVE  COMPATIBLE(t, lrq_state[s])
  OBVIOUS
<1> DEFINE v == lrq_state[s]
<1>4. s \in Requests /\ lrq_lock[s] = l /\ v \in Level
  BY Zenon DEF RequestsOf, TypeRequests
<1>5. CASE v = LCK_none
  BY <1>5, TableIsSymmetric, Zenon
<1>6. CASE v # LCK_none
  <2>1. v \in LCK_null .. LCK_EX
    BY <1>4, <1>6 DEF Level, LCK_none, LCK_null, LCK_EX
  <2>2. s \in G(v) /\ G(v) \in SUBSET Requests
    BY <1>4, Zenon DEF RequestsOf
  <2>3. Cardinality(G(v)) > 0
    BY <1>4, <2>2, CountOne, Zenon
  <2>4. C[v] > 0 /\ v <= m
    BY <1>1, <1>2, <2>1, <2>3, Zenon
  <2>5. m \in LCK_null .. LCK_EX /\ C[m] > 0
    BY <1>2, <2>1, <2>4 DEF Level, LCK_none, LCK_null, LCK_EX
  <2>6. G(m) \in SUBSET Requests /\ Cardinality(G(m)) > 0
    BY <1>1, <2>5, Zenon DEF RequestsOf
  <2>7. PICK p \in Requests : p \in G(m)
    BY <2>6, CountPositive, Zenon
  <2>8. lrq_lock[p] = l /\ lrq_state[p] = m
    BY <2>7, Zenon DEF RequestsOf
  <2>9. v = m \/ COMPATIBLE(v, m)
    <3>1. CASE s = p
      BY <2>8, <3>1, Zenon
    <3>2. CASE s # p
      BY <1>4, <2>8, <3>2, NullAssumption, Zenon DEF GrantedCompatible
    <3> QED
      BY <3>1, <3>2, Zenon
  <2> QED
    BY <1>2, <1>3, <1>4, <2>4, <2>9, HighestDecides, Zenon
<1> QED
  BY <1>5, <1>6, Zenon

-----------------------------------------------------------------------------
(* What grant() and release_request() do to the lock table                 *)

(* What the decisions to grant are taken from.                             *)
Table == /\ TypeRequests
         /\ TypeLocks
         /\ HolderCounts
         /\ HighestLevel
         /\ GrantedCompatible
         /\ FreeRequests

(* A request of lock l, or a new one, is granted a level that fits.        *)
LEMMA GrantEffect ==
  ASSUME Table,
         NEW l \in Locks, NEW r \in Requests, NEW v \in Level,
         lrq_lock[r] = l \/ lrq_lock[r] = NULL,
         lrq_lock' = [lrq_lock EXCEPT ![r] = l],
         COMPATIBLE(v, StateWithout(l, r)),
         grant(l, r, v)
  PROVE  /\ lrq_requested' \in [Requests -> Level]
         /\ lrq_state' \in [Requests -> Level]
         /\ lbl_counts' \in [Locks -> [Level -> Nat]]
         /\ lbl_state' \in [Locks -> Level]
         /\ HolderCounts'
         /\ HighestLevel'
         /\ GrantedCompatible'
<1> DEFINE C == Inc(CountsWithout(l, r), v)
           G(u) == {s \in RequestsOf(l) \ {r} : lrq_state[s] = u}
<1> USE DEF Table
<1>0. lrq_lock[r] = l \/ lrq_state[r] = LCK_none
  BY Zenon DEF FreeRequests
<1>1. /\ CountsWithout(l, r) \in [Level -> Nat]
      /\ \A u \in LCK_null .. LCK_EX : CountsWithout(l, r)[u] = Cardinality(G(u))
  BY <1>0, CountsWithoutRequest, Zenon
<1>2. C \in [Level -> Nat]
  BY <1>1 DEF Inc
<1>3. lock_state(C) \in Level
  BY <1>2, LockStateIsHighest, Zenon
<1>4. /\ lrq_requested' = [lrq_requested EXCEPT ![r] = v]
      /\ lrq_state' = [lrq_state EXCEPT ![r] = v]
      /\ lbl_counts' = [lbl_counts EXCEPT ![l] = C]
      /\ lbl_state' = [lbl_state EXCEPT ![l] = lock_state(C)]
  BY Zenon DEF grant
<1>5. /\ lrq_requested' \in [Requests -> Level]
      /\ lrq_state' \in [Requests -> Level]
      /\ lbl_counts' \in [Locks -> [Level -> Nat]]
      /\ lbl_state' \in [Locks -> Level]
  BY <1>2, <1>3, <1>4, Zenon DEF TypeRequests, TypeLocks
<1>6. /\ \A s \in Requests : s # r => lrq_lock'[s] = lrq_lock[s] /\ lrq_state'[s] = lrq_state[s]
      /\ lrq_lock'[r] = l /\ lrq_state'[r] = v
  BY <1>4, Zenon DEF TypeRequests
<1>7. HighestLevel'
  <2> SUFFICES ASSUME NEW k \in Locks
               PROVE  lbl_state'[k] = lock_state(lbl_counts'[k])
    BY Zenon DEF HighestLevel, lock_state
  <2>1. CASE k = l
    BY <1>4, <2>1, Zenon DEF TypeLocks
  <2>2. CASE k # l
    BY <1>4, <2>2, Zenon DEF TypeLocks, HighestLevel
  <2> QED
    BY <2>1, <2>2, Zenon
<1>8. HolderCounts'
  <2> SUFFICES ASSUME NEW k \in Locks, NEW u \in LCK_null .. LCK_EX
               PROVE  lbl_counts'[k][u] = Cardinality({s \in RequestsOf(k)' : lrq_state'[s] = u})
    BY Zenon DEF HolderCounts, RequestsOf
  <2>0. u \in Level
    BY DEF Level, LCK_none, LCK_null, LCK_EX
  <2>1. CASE k # l
    <3>1. lbl_counts'[k] = lbl_counts[k]
      BY <1>4, <2>1, Zenon DEF TypeLocks
    <3>2. {s \in RequestsOf(k)' : lrq_state'[s] = u} = {s \in RequestsOf(k) : lrq_state[s] = u}
      BY <1>6, <2>1, NullAssumption, Zenon DEF RequestsOf
    <3> QED
      BY <3>1, <3>2, Zenon DEF HolderCounts
  <2>2. CASE k = l /\ u # v
    <3>1. lbl_counts'[k][u] = CountsWithout(l, r)[u]
      BY <1>1, <1>4, <2>0, <2>2, Zenon DEF TypeLocks, Inc
    <3>2. {s \in RequestsOf(k)' : lrq_state'[s] = u} = G(u)
      BY <1>6, <2>2, Zenon DEF RequestsOf
    <3> QED
      BY <1>1, <3>1, <3>2, Zenon
  <2>3. CASE k = l /\ u = v
    <3>1. lbl_counts'[k][u] = CountsWithout(l, r)[u] + 1
      BY <1>1, <1>4, <2>0, <2>3, Zenon DEF TypeLocks, Inc
    <3>2. {s \in RequestsOf(k)' : lrq_state'[s] = u} = G(u) \cup {r}
      BY <1>6, <2>3, Zenon DEF RequestsOf
    <3>3. G(u) \in SUBSET Requests /\ r \notin G(u)
      BY Zenon DEF RequestsOf
    <3>4. Cardinality(G(u) \cup {r}) = Cardinality(G(u)) + 1
      BY <3>3, CountOne, Zenon
    <3> QED
      BY <1>1, <3>1, <3>2, <3>4, Zenon
  <2> QED
    BY <2>1, <2>2, <2>3, Zenon
<1>9. GrantedCompatible'
  <2> SUFFICES ASSUME NEW p \in Requests, NEW s \in Requests,
                      p # s, lrq_lock'[p] # NULL, lrq_lock'[p] = lrq_lock'[s]
               PROVE  COMPATIBLE(lrq_state'[p], lrq_state'[s])
    BY Zenon DEF GrantedCompatible, COMPATIBLE
  <2>1. \A q \in RequestsOf(l) \ {r} : COMPATIBLE(v, lrq_state[q]) /\ COMPATIBLE(lrq_state[q], v)
    <3>1. \A q \in RequestsOf(l) \ {r} : COMPATIBLE(v, lrq_state[q])
      BY <1>0, FitsAllOthers, Zenon
    <3> QED
      BY <3>1, TableIsSymmetric, Zenon DEF RequestsOf, TypeRequests
  <2>2. CASE p = r
    BY <1>6, <2>1, <2>2, Zenon DEF RequestsOf
  <2>3. CASE s = r
    BY <1>6, <2>1, <2>3, Zenon DEF RequestsOf
  <2>4. CASE p # r /\ s # r
    BY <1>6, <2>4, Zenon DEF GrantedCompatible
  <2> QED
    BY <2>2, <2>3, <2>4, Zenon
<1> QED
  BY <1>5, <1>7, <1>8, <1>9, Zenon

(* A queue without repetitions after insert_tail().                        *)
LEMMA InsertTail ==
  ASSUME NEW q \in Seq(Requests), NEW r \in Requests
  PROVE  /\ Append(q, r) \in Seq(Requests)
         /\ Len(q) \in Nat /\ Len(Append(q, r)) = Len(q) + 1
         /\ \A i \in 1 .. Len(q) : Append(q, r)[i] = q[i]
         /\ Append(q, r)[Len(q) + 1] = r
OBVIOUS

(* A queue without repetitions after remove_que(): the same elements in    *)
(* the same order, without the one removed.                                *)
LEMMA RemoveQue ==
  ASSUME NEW q \in Seq(Requests), NEW r \in Requests,
         \E i \in 1 .. Len(q) : q[i] = r,
         \A i, j \in 1 .. Len(q) : q[i] = q[j] => i = j
  PROVE  /\ remove_que(q, r) \in Seq(Requests)
         /\ Len(remove_que(q, r)) = Len(q) - 1
         /\ \A i \in 1 .. Len(q) - 1 :
              remove_que(q, r)[i] # r /\ \E j \in 1 .. Len(q) : remove_que(q, r)[i] = q[j]
         /\ \A j \in 1 .. Len(q) :
              q[j] # r => \E i \in 1 .. Len(q) - 1 : remove_que(q, r)[i] = q[j]
         /\ \A i, j \in 1 .. Len(q) - 1 :
              remove_que(q, r)[i] = remove_que(q, r)[j] => i = j
<1>1. Len(q) \in Nat /\ DOMAIN q = 1 .. Len(q) /\ q \in [1 .. Len(q) -> Requests]
  BY LengthOf, Zenon
<1>2. PICK k \in 1 .. Len(q) : q[k] = r
  OBVIOUS
<1>3. (CHOOSE i \in DOMAIN q : q[i] = r) = k
  BY <1>1, <1>2, Zenon
<1> DEFINE n == Len(q) - 1
           s == [j \in 1 .. n |-> IF j < k THEN q[j] ELSE q[j + 1]]
<1>4. remove_que(q, r) = s
  BY <1>3, Zenon DEF remove_que, RemoveAt
<1>5. n \in Nat
  BY <1>1, <1>2
<1>6. s \in [1 .. n -> Requests]
  BY <1>1, <1>2, <1>5
<1>7. s \in Seq(Requests)
  BY <1>5, <1>6, IsSequence
<1>8. Len(s) = n
  <2>1. DOMAIN s = 1 .. n /\ DOMAIN s = 1 .. Len(s) /\ Len(s) \in Nat
    BY <1>7, LengthOf, Zenon
  <2> QED
    BY <1>5, <2>1
<1>9. \A i \in 1 .. n : s[i] = IF i < k THEN q[i] ELSE q[i + 1]
  OBVIOUS
<1> HIDE DEF s
<1>10. \A i \in 1 .. n : s[i] # r /\ \E j \in 1 .. Len(q) : s[i] = q[j]
  <2> SUFFICES ASSUME NEW i \in 1 .. n
               PROVE  s[i] # r /\ \E j \in 1 .. Len(q) : s[i] = q[j]
    OBVIOUS
  <2>1. CASE i < k
    <3>1. i \in 1 .. Len(q) /\ s[i] = q[i] /\ i # k
      BY <1>1, <1>9, <2>1
    <3> QED
      BY <1>2, <3>1, Zenon
  <2>2. CASE ~(i < k)
    <3>1. i + 1 \in 1 .. Len(q) /\ s[i] = q[i + 1] /\ i + 1 # k
      BY <1>1, <1>9, <2>2
    <3> QED
      BY <1>2, <3>1, Zenon
  <2> QED
    BY <2>1, <2>2, Zenon
<1>11. \A j \in 1 .. Len(q) : q[j] # r => \E i \in 1 .. n : s[i] = q[j]
  <2> SUFFICES ASSUME NEW j \in 1 .. Len(q), q[j] # r
               PROVE  \E i \in 1 .. n : s[i] = q[j]
    OBVIOUS
  <2>1. CASE j < k
    BY <1>1, <1>9, <2>1
  <2>2. CASE j > k
    <3>1. j - 1 \in 1 .. n /\ ~(j - 1 < k) /\ (j - 1) + 1 = j
      BY <1>1, <2>2
    <3> QED
      BY <1>9, <3>1, Zenon
  <2> QED
    BY <1>1, <1>2, <2>1, <2>2
<1>12. \A i, j \in 1 .. n : s[i] = s[j] => i = j
  <2> SUFFICES ASSUME NEW i \in 1 .. n, NEW j \in 1 .. n, s[i] = s[j]
               PROVE  i = j
    OBVIOUS
  <2> DEFINE f(x) == IF x < k THEN x ELSE x + 1
  <2>1. f(i) \in 1 .. Len(q) /\ f(j) \in 1 .. Len(q)
    BY <1>1
  <2>2. s[i] = q[f(i)] /\ s[j] = q[f(j)]
    BY <1>9, Zenon
  <2>3. f(i) = f(j)
    BY <2>1, <2>2, Zenon
  <2> QED
    BY <1>1, <2>3
<1>13. /\ s \in Seq(Requests)
       /\ Len(s) = Len(q) - 1
       /\ \A i \in 1 .. Len(q) - 1 : s[i] # r /\ \E j \in 1 .. Len(q) : s[i] = q[j]
       /\ \A j \in 1 .. Len(q) : q[j] # r => \E i \in 1 .. Len(q) - 1 : s[i] = q[j]
       /\ \A i, j \in 1 .. Len(q) - 1 : s[i] = s[j] => i = j
  BY <1>7, <1>8, <1>10, <1>11, <1>12, Zenon
<1> QED
  BY <1>4, <1>13, Zenon

(* A request leaves the lock it was queued on.                             *)
LEMMA ReleaseEffect ==
  ASSUME Table, PendingCount, QueueOfLock,
         NEW r \in Requests, lrq_lock[r] \in Locks,
         release_request(r)
  PROVE  /\ Table'
         /\ PendingCount'
         /\ QueueOfLock'
         /\ WaitersWithout(r) \in Nat
<1> DEFINE l == lrq_lock[r]
           last == Len(lbl_requests[l]) = 1
           C == IF last THEN [v \in Level |-> 0] ELSE CountsWithout(l, r)
           G(u) == {s \in RequestsOf(l) \ {r} : lrq_state[s] = u}
           q == lbl_requests[l]
<1> USE DEF Table
<1>1. /\ lrq_lock' = [lrq_lock EXCEPT ![r] = NULL]
      /\ lrq_owner' = [lrq_owner EXCEPT ![r] = NULL]
      /\ lrq_requested' = [lrq_requested EXCEPT ![r] = LCK_none]
      /\ lrq_state' = [lrq_state EXCEPT ![r] = LCK_none]
      /\ lrq_flags' = [lrq_flags EXCEPT ![r] = {}]
      /\ lrq_ast' = [lrq_ast EXCEPT ![r] = FALSE]
      /\ lbl_requests' = [lbl_requests EXCEPT ![l] = remove_que(q, r)]
      /\ lbl_counts' = [lbl_counts EXCEPT ![l] = C]
      /\ lbl_state' = [lbl_state EXCEPT ![l] = lock_state(C)]
      /\ lbl_pending' = [lbl_pending EXCEPT ![l] = WaitersWithout(r)]
  BY Zenon DEF release_request, TypeLocks
<1>2. /\ CountsWithout(l, r) \in [Level -> Nat]
      /\ \A u \in LCK_null .. LCK_EX : CountsWithout(l, r)[u] = Cardinality(G(u))
  BY CountsWithoutRequest, Zenon
<1>3. /\ q \in Seq(Requests)
      /\ \E i \in 1 .. Len(q) : q[i] = r
      /\ \A i, j \in 1 .. Len(q) : q[i] = q[j] => i = j
      /\ \A s \in RequestsOf(l) : \E i \in 1 .. Len(q) : q[i] = s
      /\ \A i \in 1 .. Len(q) : lrq_lock[q[i]] = l
  BY Zenon DEF QueueOfLock, TypeLocks, RequestsOf
<1>4. last => \A u \in LCK_null .. LCK_EX : G(u) = {}
  <2> SUFFICES ASSUME last, NEW s \in RequestsOf(l) PROVE s = r
    OBVIOUS
  <2>1. \A i \in 1 .. Len(q) : i = 1
    OBVIOUS
  <2> QED
    BY <1>3, <2>1, Zenon
<1>5. C \in [Level -> Nat] /\ \A u \in LCK_null .. LCK_EX : C[u] = Cardinality(G(u))
  BY <1>2, <1>4, FS_EmptySet, SMTT(30) DEF Level, LCK_none, LCK_null, LCK_EX
<1>6. lock_state(C) \in Level
  BY <1>5, LockStateIsHighest, Zenon
<1>7. WaitersWithout(r) = Cardinality({s \in RequestsOf(l) \ {r} : Pending(s)})
  <2> DEFINE P == {s \in RequestsOf(l) : Pending(s)}
             N == {s \in RequestsOf(l) \ {r} : Pending(s)}
  <2>1. lbl_pending[l] = Cardinality(P) /\ P \in SUBSET Requests
    BY Zenon DEF PendingCount, RequestsOf
  <2>2. CASE Pending(r)
    <3>1. r \in P /\ N = P \ {r}
      BY <2>2, Zenon DEF RequestsOf
    <3>2. Cardinality(N) = Cardinality(P) - 1
      BY <2>1, <3>1, CountOne, Zenon
    <3> QED
      BY <2>1, <2>2, <3>2, Zenon DEF WaitersWithout
  <2>3. CASE ~Pending(r)
    <3>1. N = P
      BY <2>3, Zenon
    <3>2. lbl_pending[l] \in Nat
      BY Zenon DEF TypeLocks
    <3> QED
      BY <2>1, <2>3, <3>1, <3>2 DEF WaitersWithout
  <2> QED
    BY <2>2, <2>3, Zenon
<1>8. WaitersWithout(r) \in Nat
  <2>1. {s \in RequestsOf(l) \ {r} : Pending(s)} \in SUBSET Requests
    BY Zenon DEF RequestsOf
  <2> QED
    BY <1>7, <2>1, CountType, Zenon
<1>9. /\ \A s \in Requests : s # r => /\ lrq_lock'[s] = lrq_lock[s]
                                      /\ lrq_owner'[s] = lrq_owner[s]
                                      /\ lrq_state'[s] = lrq_state[s]
                                      /\ lrq_flags'[s] = lrq_flags[s]
      /\ lrq_lock'[r] = NULL /\ lrq_owner'[r] = NULL
      /\ lrq_state'[r] = LCK_none /\ lrq_flags'[r] = {}
  BY <1>1, Zenon DEF TypeRequests
<1>10. TypeRequests'
  BY <1>1 DEF TypeRequests, Level, LCK_none, LCK_EX
<1>11. TypeLocks'
  BY <1>1, <1>3, <1>5, <1>6, <1>8, RemoveQue, Zenon DEF TypeLocks
<1>12. \A k \in Locks : RequestsOf(k)' = RequestsOf(k) \ {r}
  BY <1>9, NullAssumption, Zenon DEF RequestsOf
<1>13. HolderCounts'
  <2> SUFFICES ASSUME NEW k \in Locks, NEW u \in LCK_null .. LCK_EX
               PROVE  lbl_counts'[k][u] = Cardinality({s \in RequestsOf(k)' : lrq_state'[s] = u})
    BY Zenon DEF HolderCounts, RequestsOf
  <2>1. CASE k # l
    <3>1. lbl_counts'[k] = lbl_counts[k]
      BY <1>1, <2>1, Zenon DEF TypeLocks
    <3>2. {s \in RequestsOf(k)' : lrq_state'[s] = u} = {s \in RequestsOf(k) : lrq_state[s] = u}
      BY <1>9, <2>1, NullAssumption, Zenon DEF RequestsOf
    <3> QED
      BY <3>1, <3>2, Zenon DEF HolderCounts
  <2>2. CASE k = l
    <3>1. {s \in RequestsOf(k)' : lrq_state'[s] = u} = G(u)
      BY <1>9, <2>2, NullAssumption, Zenon DEF RequestsOf
    <3>2. lbl_counts'[k] = C
      BY <1>1, <2>2, Zenon DEF TypeLocks
    <3> QED
      BY <1>5, <3>1, <3>2, Zenon
  <2> QED
    BY <2>1, <2>2, Zenon
<1>14. HighestLevel'
  <2> SUFFICES ASSUME NEW k \in Locks
               PROVE  lbl_state'[k] = lock_state(lbl_counts'[k])
    BY Zenon DEF HighestLevel, lock_state
  <2>1. CASE k = l
    BY <1>1, <2>1, Zenon DEF TypeLocks
  <2>2. CASE k # l
    BY <1>1, <2>2, Zenon DEF TypeLocks, HighestLevel
  <2> QED
    BY <2>1, <2>2, Zenon
<1>15. PendingCount'
  <2> SUFFICES ASSUME NEW k \in Locks
               PROVE  lbl_pending'[k] = Cardinality({s \in RequestsOf(k)' : Pending(s)'})
    BY Zenon DEF PendingCount, RequestsOf, Pending
  <2>1. CASE k # l
    <3>1. {s \in RequestsOf(k)' : Pending(s)'} = {s \in RequestsOf(k) : Pending(s)}
      BY <1>9, <2>1, NullAssumption, Zenon DEF RequestsOf, Pending
    <3> QED
      BY <1>1, <2>1, <3>1, Zenon DEF PendingCount, TypeLocks
  <2>2. CASE k = l
    <3>1. {s \in RequestsOf(k)' : Pending(s)'} = {s \in RequestsOf(l) \ {r} : Pending(s)}
      BY <1>9, <2>2, NullAssumption, Zenon DEF RequestsOf, Pending
    <3> QED
      BY <1>1, <1>7, <2>2, <3>1, Zenon DEF TypeLocks
  <2> QED
    BY <2>1, <2>2, Zenon
<1>16. GrantedCompatible'
  BY <1>9, Zenon DEF GrantedCompatible, COMPATIBLE
<1>17. FreeRequests'
  BY <1>9, Zenon DEF FreeRequests
<1>18. QueueOfLock'
  <2> SUFFICES ASSUME NEW k \in Locks
               PROVE  /\ \A i \in 1 .. Len(lbl_requests'[k]) : lrq_lock'[lbl_requests'[k][i]] = k
                      /\ \A s \in RequestsOf(k)' :
                           \E i \in 1 .. Len(lbl_requests'[k]) : lbl_requests'[k][i] = s
                      /\ \A i, j \in 1 .. Len(lbl_requests'[k]) :
                           lbl_requests'[k][i] = lbl_requests'[k][j] => i = j
    BY Zenon DEF QueueOfLock, RequestsOf
  <2>1. CASE k # l
    <3>1. lbl_requests'[k] = lbl_requests[k] /\ lbl_requests[k] \in Seq(Requests)
      BY <1>1, <2>1, Zenon DEF TypeLocks
    <3>2. \A i \in 1 .. Len(lbl_requests[k]) :
            lbl_requests[k][i] \in Requests /\ lrq_lock[lbl_requests[k][i]] = k
      BY <3>1, ElementOf, Zenon DEF QueueOfLock
    <3>3. \A i \in 1 .. Len(lbl_requests[k]) : lrq_lock'[lbl_requests[k][i]] = k
      <4> SUFFICES ASSUME NEW i \in 1 .. Len(lbl_requests[k])
                   PROVE  lrq_lock'[lbl_requests[k][i]] = k
        OBVIOUS
      <4>1. lbl_requests[k][i] \in Requests /\ lrq_lock[lbl_requests[k][i]] = k
        BY <3>2, Zenon
      <4>2. lbl_requests[k][i] # r
        BY <2>1, <4>1, Zenon
      <4> QED
        BY <1>9, <4>1, <4>2, Zenon
    <3>4. \A s \in RequestsOf(k)' :
            \E i \in 1 .. Len(lbl_requests[k]) : lbl_requests[k][i] = s
      <4> SUFFICES ASSUME NEW s \in RequestsOf(k)
                   PROVE  \E i \in 1 .. Len(lbl_requests[k]) : lbl_requests[k][i] = s
        BY <1>12, Zenon
      <4> QED
        BY Zenon DEF QueueOfLock
    <3>5. \A i, j \in 1 .. Len(lbl_requests[k]) :
            lbl_requests[k][i] = lbl_requests[k][j] => i = j
      BY Zenon DEF QueueOfLock
    <3> QED
      BY <3>1, <3>3, <3>4, <3>5, Zenon
  <2>2. CASE k = l
    <3> DEFINE p == remove_que(q, r)
    <3>1. lbl_requests'[k] = p
      BY <1>1, <2>2, Zenon DEF TypeLocks
    <3>2. /\ p \in Seq(Requests)
          /\ Len(p) = Len(q) - 1
          /\ \A i \in 1 .. Len(q) - 1 : p[i] # r /\ \E j \in 1 .. Len(q) : p[i] = q[j]
          /\ \A j \in 1 .. Len(q) : q[j] # r => \E i \in 1 .. Len(q) - 1 : p[i] = q[j]
          /\ \A i, j \in 1 .. Len(q) - 1 : p[i] = p[j] => i = j
      BY <1>3, RemoveQue, Zenon
    <3> HIDE DEF p
    <3>3. \A i \in 1 .. Len(p) : lrq_lock'[p[i]] = l
      <4> SUFFICES ASSUME NEW i \in 1 .. Len(p) PROVE lrq_lock'[p[i]] = l
        OBVIOUS
      <4>1. p[i] \in Requests /\ p[i] # r
        BY <3>2, ElementOf, Zenon
      <4>2. PICK j \in 1 .. Len(q) : p[i] = q[j]
        BY <3>2, Zenon
      <4>3. lrq_lock[q[j]] = l
        BY <1>3, Zenon
      <4> QED
        BY <1>9, <4>1, <4>2, <4>3, Zenon
    <3>4. \A s \in RequestsOf(k)' : \E i \in 1 .. Len(p) : p[i] = s
      <4> SUFFICES ASSUME NEW s \in RequestsOf(k) \ {r}
                   PROVE  \E i \in 1 .. Len(p) : p[i] = s
        BY <1>12, Zenon
      <4>1. PICK j \in 1 .. Len(q) : q[j] = s
        BY <1>3, <2>2, Zenon
      <4> QED
        BY <3>2, <4>1, Zenon
    <3>5. \A i, j \in 1 .. Len(p) : p[i] = p[j] => i = j
      BY <3>2, Zenon
    <3> QED
      BY <2>2, <3>1, <3>3, <3>4, <3>5, ZenonT(30)
  <2> QED
    BY <2>1, <2>2, Zenon
<1> QED
  BY <1>8, <1>10, <1>11, <1>13, <1>14, <1>15, <1>16, <1>17, <1>18, Zenon

(* A new request at the tail of the queue of its lock.                     *)
LEMMA EnqueueEffect ==
  ASSUME Table, QueueOfLock,
         NEW o \in Owners, NEW l \in Locks, NEW r \in Requests, NEW v, NEW a \in BOOLEAN,
         get_request(o, l, r, v, a)
  PROVE  /\ lbl_requests' \in [Locks -> Seq(Requests)]
         /\ lrq_lock' \in [Requests -> Locks \cup {NULL}]
         /\ lrq_owner' \in [Requests -> Owners \cup {NULL}]
         /\ lrq_ast' \in [Requests -> BOOLEAN]
         /\ QueueOfLock'
<1> USE DEF Table
<1>1. /\ lrq_lock[r] = NULL
      /\ lrq_lock' = [lrq_lock EXCEPT ![r] = l]
      /\ lrq_owner' = [lrq_owner EXCEPT ![r] = o]
      /\ lrq_ast' = [lrq_ast EXCEPT ![r] = a]
      /\ lbl_requests' = [lbl_requests EXCEPT ![l] = Append(@, r)]
  BY Zenon DEF get_request
<1>2. /\ lrq_lock' \in [Requests -> Locks \cup {NULL}]
      /\ lrq_owner' \in [Requests -> Owners \cup {NULL}]
      /\ lrq_ast' \in [Requests -> BOOLEAN]
  BY <1>1, Zenon DEF TypeRequests
<1>3. \A k \in Locks : lbl_requests[k] \in Seq(Requests) /\ Len(lbl_requests[k]) \in Nat
  BY DEF TypeLocks
<1>4. lbl_requests' \in [Locks -> Seq(Requests)]
  BY <1>1, <1>3 DEF TypeLocks
<1>5. /\ \A s \in Requests : s # r => lrq_lock'[s] = lrq_lock[s]
      /\ lrq_lock'[r] = l
  BY <1>1, Zenon DEF TypeRequests
<1>6. \A k \in Locks : \A i \in 1 .. Len(lbl_requests[k]) :
        /\ lbl_requests[k][i] \in Requests
        /\ lbl_requests[k][i] # r
        /\ lrq_lock[lbl_requests[k][i]] = k
  <2> SUFFICES ASSUME NEW k \in Locks, NEW i \in 1 .. Len(lbl_requests[k])
               PROVE  /\ lbl_requests[k][i] \in Requests
                      /\ lbl_requests[k][i] # r
                      /\ lrq_lock[lbl_requests[k][i]] = k
    OBVIOUS
  <2>1. lrq_lock[lbl_requests[k][i]] = k
    BY Zenon DEF QueueOfLock
  <2> QED
    BY <1>1, <1>3, <2>1, ElementOf, NullAssumption, Zenon
<1>7. QueueOfLock'
  <2> SUFFICES ASSUME NEW k \in Locks
               PROVE  /\ \A i \in 1 .. Len(lbl_requests'[k]) : lrq_lock'[lbl_requests'[k][i]] = k
                      /\ \A s \in RequestsOf(k)' :
                           \E i \in 1 .. Len(lbl_requests'[k]) : lbl_requests'[k][i] = s
                      /\ \A i, j \in 1 .. Len(lbl_requests'[k]) :
                           lbl_requests'[k][i] = lbl_requests'[k][j] => i = j
    BY Zenon DEF QueueOfLock, RequestsOf
  <2>1. CASE k # l
    <3>1. lbl_requests'[k] = lbl_requests[k]
      BY <1>1, <2>1, Zenon DEF TypeLocks
    <3>2. RequestsOf(k)' = RequestsOf(k)
      BY <1>1, <1>5, <2>1, NullAssumption, Zenon DEF RequestsOf
    <3>3. /\ \A s \in RequestsOf(k) : \E i \in 1 .. Len(lbl_requests[k]) : lbl_requests[k][i] = s
          /\ \A i, j \in 1 .. Len(lbl_requests[k]) : lbl_requests[k][i] = lbl_requests[k][j] =>
               i = j
      BY Zenon DEF QueueOfLock
    <3>4. \A i \in 1 .. Len(lbl_requests[k]) : lrq_lock'[lbl_requests[k][i]] = k
      BY <1>5, <1>6, Zenon
    <3> QED
      BY <3>1, <3>2, <3>3, <3>4, Zenon
  <2>2. CASE k = l
    <3> DEFINE q == lbl_requests[k]
               p == Append(q, r)
    <3>1. lbl_requests'[k] = p
      BY <1>1, <2>2, Zenon DEF TypeLocks
    <3>2. /\ Len(q) \in Nat /\ Len(p) = Len(q) + 1
          /\ \A i \in 1 .. Len(q) : p[i] = q[i]
          /\ p[Len(q) + 1] = r
      BY <1>3, InsertTail, Zenon
    <3>3. \A i \in 1 .. Len(p) : i \in 1 .. Len(q) \/ i = Len(q) + 1
      BY <3>2
    <3>4. RequestsOf(k)' = RequestsOf(k) \cup {r}
      BY <1>5, <2>2, Zenon DEF RequestsOf
    <3>5. /\ \A i \in 1 .. Len(q) : q[i] \in Requests /\ q[i] # r /\ lrq_lock[q[i]] = k
          /\ \A s \in RequestsOf(k) : \E i \in 1 .. Len(q) : q[i] = s
          /\ \A i, j \in 1 .. Len(q) : q[i] = q[j] => i = j
      BY <1>6, Zenon DEF QueueOfLock
    <3> HIDE DEF p, q
    <3>6. \A i \in 1 .. Len(p) : lrq_lock'[p[i]] = k
      BY <1>5, <2>2, <3>2, <3>3, <3>5, SMTT(30)
    <3>7. \A s \in RequestsOf(k)' : \E i \in 1 .. Len(p) : p[i] = s
      <4>1. 1 .. Len(q) \subseteq 1 .. Len(p) /\ Len(q) + 1 \in 1 .. Len(p)
        BY <3>2
      <4> QED
        BY <3>2, <3>4, <3>5, <4>1
    <3>8. \A i, j \in 1 .. Len(p) : p[i] = p[j] => i = j
      BY <3>2, <3>3, <3>5
    <3> QED
      BY <3>1, <3>6, <3>7, <3>8, Zenon
  <2> QED
    BY <2>1, <2>2, Zenon
<1> QED
  BY <1>2, <1>4, <1>7, Zenon

(* The number of pending requests of each lock after a step that changes   *)
(* neither what is pending nor where.                                      *)
LEMMA PendingSame ==
  ASSUME PendingCount, lbl_pending' = lbl_pending,
         \A s \in Requests : Pending(s)' <=> Pending(s),
         \A s \in Requests : Pending(s) => lrq_lock'[s] = lrq_lock[s]
  PROVE  PendingCount'
<1> SUFFICES ASSUME NEW k \in Locks
             PROVE  lbl_pending'[k] = Cardinality({s \in RequestsOf(k)' : Pending(s)'})
  BY Zenon DEF PendingCount, RequestsOf, Pending
<1>1. {s \in RequestsOf(k)' : Pending(s)'} = {s \in RequestsOf(k) : Pending(s)}
  BY Zenon DEF RequestsOf
<1> QED
  BY <1>1, Zenon DEF PendingCount

(* ... after a grant or a rejection: one less.                             *)
LEMMA PendingLess ==
  ASSUME TypeLocks, PendingCount,
         NEW r \in Requests, lrq_lock[r] \in Locks, Pending(r), ~Pending(r)',
         lbl_pending' = [lbl_pending EXCEPT ![lrq_lock[r]] = @ - 1],
         lrq_lock' = lrq_lock,
         \A s \in Requests : s # r => (Pending(s)' <=> Pending(s))
  PROVE  lbl_pending' \in [Locks -> Nat] /\ PendingCount'
<1> DEFINE P(k) == {s \in RequestsOf(k) : Pending(s)}
<1>1. \A k \in Locks : P(k) \in SUBSET Requests /\ lbl_pending[k] = Cardinality(P(k))
  BY Zenon DEF PendingCount, RequestsOf
<1>2. \A k \in Locks : lbl_pending'[k] = Cardinality({s \in RequestsOf(k)' : Pending(s)'})
  <2> SUFFICES ASSUME NEW k \in Locks
               PROVE  lbl_pending'[k] = Cardinality({s \in RequestsOf(k)' : Pending(s)'})
    OBVIOUS
  <2>1. {s \in RequestsOf(k)' : Pending(s)'} = P(k) \ {r}
    BY Zenon DEF RequestsOf
  <2>2. CASE k = lrq_lock[r]
    <3>1. r \in P(k)
      BY <2>2, Zenon DEF RequestsOf
    <3>2. Cardinality(P(k) \ {r}) = Cardinality(P(k)) - 1
      BY <1>1, <3>1, CountOne, Zenon
    <3> QED
      BY <1>1, <2>1, <2>2, <3>2, Zenon DEF TypeLocks
  <2>3. CASE k # lrq_lock[r]
    <3>1. P(k) \ {r} = P(k)
      BY <2>3, Zenon DEF RequestsOf
    <3> QED
      BY <1>1, <2>1, <2>3, <3>1, Zenon DEF TypeLocks
  <2> QED
    BY <2>2, <2>3, Zenon
<1>3. \A k \in Locks : Cardinality({s \in RequestsOf(k)' : Pending(s)'}) \in Nat
  <2> SUFFICES ASSUME NEW k \in Locks
               PROVE  Cardinality({s \in RequestsOf(k)' : Pending(s)'}) \in Nat
    OBVIOUS
  <2>1. {s \in RequestsOf(k)' : Pending(s)'} \in SUBSET Requests
    BY Zenon DEF RequestsOf
  <2> QED
    BY <2>1, CountType, Zenon
<1>4. lbl_pending' \in [Locks -> Nat]
  BY <1>2, <1>3, Zenon DEF TypeLocks
<1> QED
  BY <1>2, <1>4, Zenon DEF PendingCount, RequestsOf, Pending

(* ... after the start of a wait: one more.                                *)
LEMMA PendingMore ==
  ASSUME TypeLocks, PendingCount,
         NEW r \in Requests, NEW l \in Locks, ~Pending(r), Pending(r)',
         lbl_pending' = [lbl_pending EXCEPT ![l] = @ + 1],
         lrq_lock'[r] = l,
         \A s \in Requests : s # r => (Pending(s)' <=> Pending(s)),
         \A s \in Requests : s # r => lrq_lock'[s] = lrq_lock[s]
  PROVE  lbl_pending' \in [Locks -> Nat] /\ PendingCount'
<1> DEFINE P(k) == {s \in RequestsOf(k) : Pending(s)}
<1>1. \A k \in Locks : P(k) \in SUBSET Requests /\ lbl_pending[k] = Cardinality(P(k))
  BY Zenon DEF PendingCount, RequestsOf
<1>2. \A k \in Locks : lbl_pending'[k] = Cardinality({s \in RequestsOf(k)' : Pending(s)'})
  <2> SUFFICES ASSUME NEW k \in Locks
               PROVE  lbl_pending'[k] = Cardinality({s \in RequestsOf(k)' : Pending(s)'})
    OBVIOUS
  <2>1. CASE k = l
    <3>1. {s \in RequestsOf(k)' : Pending(s)'} = P(k) \cup {r} /\ r \notin P(k)
      BY <2>1, Zenon DEF RequestsOf
    <3>2. Cardinality(P(k) \cup {r}) = Cardinality(P(k)) + 1
      BY <1>1, <3>1, CountOne, Zenon
    <3> QED
      BY <1>1, <2>1, <3>1, <3>2, Zenon DEF TypeLocks
  <2>2. CASE k # l
    <3>1. {s \in RequestsOf(k)' : Pending(s)'} = P(k)
      BY <2>2, Zenon DEF RequestsOf
    <3> QED
      BY <1>1, <2>2, <3>1, Zenon DEF TypeLocks
  <2> QED
    BY <2>1, <2>2, Zenon
<1>3. lbl_pending' \in [Locks -> Nat]
  BY DEF TypeLocks
<1> QED
  BY <1>2, <1>3, Zenon DEF PendingCount, RequestsOf, Pending

-----------------------------------------------------------------------------
(* The inductive invariant: the table and the processes that use it.       *)
Queues == Table /\ PendingCount /\ QueueOfLock
Processes == /\ TypeOwners
             /\ TypeMutex
             /\ TypeProcesses
             /\ OwnersInTable
             /\ WaitersOwn
             /\ PendingIsWaited
             /\ PurgedAreGone
IInv == Queues /\ Processes

(* What the invariant says about a request that has an owner.              *)
LEMMA OwnedRequest ==
  ASSUME IInv, NEW r \in Requests
  PROVE  /\ lrq_owner[r] \in Owners => lrq_lock[r] \in Locks
         /\ lrq_lock[r] # NULL => lrq_lock[r] \in Locks /\ lrq_owner[r] \in Owners
         /\ Pending(r) => lrq_lock[r] \in Locks
         /\ lrq_state[r] # LCK_none => lrq_lock[r] \in Locks
BY NullAssumption, Zenon DEF IInv, Queues, Processes, Table, TypeRequests, FreeRequests,
   OwnersInTable, TypeOwners, Pending

(* A step that leaves the queues alone and changes no pending request.     *)
LEMMA QueuesKept ==
  ASSUME Queues, UNCHANGED <<lrq_lock, lrq_owner, lrq_state, lblVars>>,
         lrq_requested' \in [Requests -> Level],
         lrq_flags' \in [Requests -> SUBSET LrqFlags],
         lrq_ast' \in [Requests -> BOOLEAN],
         \A s \in Requests : Pending(s)' <=> Pending(s),
         \A s \in Requests : lrq_lock[s] = NULL => lrq_flags'[s] = lrq_flags[s]
  PROVE  Queues'
<1> USE DEF Queues, Table
<1>1. PendingCount'
  BY PendingSame, Zenon DEF lblVars
<1>2. TypeRequests' /\ TypeLocks'
  BY Zenon DEF TypeRequests, TypeLocks, lblVars
<1>3. HolderCounts' /\ HighestLevel'
  BY DEF HolderCounts, HighestLevel, lblVars, RequestsOf
<1>4. GrantedCompatible' /\ FreeRequests'
  BY Zenon DEF GrantedCompatible, FreeRequests
<1>5. QueueOfLock'
  BY DEF QueueOfLock, lblVars, RequestsOf
<1> QED
  BY <1>1, <1>2, <1>3, <1>4, <1>5, Zenon

(* The same when the step changes no request at all.                       *)
LEMMA QueuesUnchanged ==
  ASSUME Queues, UNCHANGED <<lrqVars, lblVars>>
  PROVE  Queues'
BY QueuesKept, Zenon DEF Queues, Table, TypeRequests, lrqVars, Pending

(* A pending request is granted no level: it is rejected.                  *)
LEMMA QueuesReject ==
  ASSUME Queues, NEW r \in Requests, lrq_lock[r] \in Locks, Pending(r),
         lrq_flags' = Reject(r),
         lbl_pending' = [lbl_pending EXCEPT ![lrq_lock[r]] = @ - 1],
         UNCHANGED <<lrq_lock, lrq_owner, lrq_requested, lrq_state, lrq_ast,
                     lbl_requests, lbl_counts, lbl_state>>
  PROVE  Queues' /\ ~Pending(r)' /\ \A s \in Requests : s # r => (Pending(s)' <=> Pending(s))
<1> USE DEF Queues, Table
<1>1. /\ lrq_flags' \in [Requests -> SUBSET LrqFlags]
      /\ \A s \in Requests : s # r => lrq_flags'[s] = lrq_flags[s]
      /\ lrq_flags'[r] = (lrq_flags[r] \ {"pending"}) \cup {"rejected"}
  BY Zenon DEF Reject, TypeRequests, LrqFlags
<1>2. ~Pending(r)' /\ \A s \in Requests : s # r => (Pending(s)' <=> Pending(s))
  BY <1>1, Zenon DEF Pending
<1>3. lbl_pending' \in [Locks -> Nat] /\ PendingCount'
  BY <1>2, PendingLess, Zenon
<1>4. TypeRequests' /\ TypeLocks'
  BY <1>1, <1>3, Zenon DEF TypeRequests, TypeLocks
<1>5. HolderCounts' /\ HighestLevel'
  BY ZenonT(30) DEF HolderCounts, HighestLevel, RequestsOf
<1>6. GrantedCompatible' /\ FreeRequests'
  BY <1>1, NullAssumption, Zenon DEF GrantedCompatible, FreeRequests
<1>7. QueueOfLock'
  BY Zenon DEF QueueOfLock, RequestsOf
<1> QED
  BY <1>2, <1>3, <1>4, <1>5, <1>6, <1>7, Zenon

(* EndSection() and release(): types, and who is purged.                   *)
LEMMA SectionEnds ==
  ASSUME NEW o \in Owners, NEW l \in Locks \cup {NULL}, NEW n \in Nat,
         NEW dead \in SUBSET Owners, EndSection(o, l, n, dead)
  PROVE  TypeMutex' /\ purging' = dead /\ (lhb_active' = NULL => purging' = {})
BY NullAssumption, Zenon DEF EndSection, TypeMutex

(* release() as the end of a call: what it leaves of the signals and of    *)
(* the blocking routine of the owner.                                      *)
LEMMA ReleaseReturns ==
  ASSUME TypeOwners, TypeProcesses, NEW o \in Owners, NEW blocks, NEW signal,
         release(o, blocks, signal)
  PROVE  /\ own_signaled' \in [Owners -> BOOLEAN]
         /\ ast' \in [Owners -> Requests \cup {NULL, "loop"}]
         /\ \A q \in Owners : q # o => ast'[q] = ast[q]
         /\ ast'[o] \in {NULL, "loop"}
BY Zenon DEF release, TypeOwners, TypeProcesses

(* post_blockage() changes no pending request and purges only the dead.    *)
LEMMA BlockageEffect ==
  ASSUME IInv, NEW o \in Owners, NEW l \in Locks, NEW r, NEW v,
         NEW f \in [Requests -> SUBSET LrqFlags],
         post_blockage(o, l, r, v, f)
  PROVE  /\ lrq_flags' \in [Requests -> SUBSET LrqFlags]
         /\ \A s \in Requests : "pending" \in lrq_flags'[s] <=> "pending" \in f[s]
         /\ \A s \in Requests : lrq_lock[s] # l => lrq_flags'[s] = f[s]
         /\ TypeMutex'
         /\ purging' \in SUBSET Owners
         /\ \A q \in purging' : Dead(q)
         /\ lhb_active' = NULL => purging' = {}
         /\ own_signaled' \in [Owners -> BOOLEAN]
         /\ ast' \in [Owners -> Requests \cup {NULL, "loop"}]
         /\ \A q \in Owners : q # o => ast'[q] = ast[q]
         /\ ast'[o] \in {NULL, "loop"}
<1> DEFINE B == Blockers(l, r, v)
           S == Signalled(o, B)
           D == {q \in S : Dead(q)}
<1>1. /\ lrq_flags' = MarkBlocking(f, B)
      /\ release(o, {b \in OwnBlocks(o) \cup B : lrq_owner[b] = o}, {q \in S : ~Dead(q)})
      /\ EndSection(o, NULL, 0, D)
  BY Zenon DEF post_blockage
<1>2. B \subseteq RequestsOf(l)
  BY Zenon DEF Blockers
<1>3. /\ lrq_flags' \in [Requests -> SUBSET LrqFlags]
      /\ \A s \in Requests : "pending" \in lrq_flags'[s] <=> "pending" \in f[s]
      /\ \A s \in Requests : lrq_lock[s] # l => lrq_flags'[s] = f[s]
  BY <1>1, <1>2, Zenon DEF MarkBlocking, LrqFlags, RequestsOf
<1>4. S \subseteq Owners
  <2>1. \A b \in RequestsOf(l) : lrq_owner[b] \in Owners
    BY OwnedRequest, NullAssumption, Zenon DEF RequestsOf
  <2> QED
    BY <1>2, <2>1, Zenon DEF Signalled
<1>5. D \in SUBSET Owners /\ \A q \in D : Dead(q)
  BY <1>4, Zenon
<1> HIDE DEF B, S, D
<1>6. TypeMutex' /\ purging' = D /\ (lhb_active' = NULL => purging' = {})
  BY <1>1, <1>5, SectionEnds, Zenon
<1>7. TypeOwners /\ TypeProcesses
  BY Zenon DEF IInv, Processes
<1>8. /\ own_signaled' \in [Owners -> BOOLEAN]
      /\ ast' \in [Owners -> Requests \cup {NULL, "loop"}]
      /\ \A q \in Owners : q # o => ast'[q] = ast[q]
      /\ ast'[o] \in {NULL, "loop"}
  BY <1>1, <1>7, ReleaseReturns, Zenon
<1> QED
  BY <1>3, <1>5, <1>6, <1>8, Zenon

(* What has to be shown about a step of process o that keeps the owner     *)
(* blocks: it does not touch requests of other processes that are alive,   *)
(* and leaves its own in order.                                            *)
OthersKept(o) ==
  /\ lhb_owners' = lhb_owners
  /\ \A q \in Owners : q # o => pc'[q] = pc[q] /\ wreq'[q] = wreq[q] /\ ast'[q] = ast[q]
  /\ \A s \in Requests : lrq_owner[s] \in Owners \ {o} /\ Attached(lrq_owner[s])
                            => lrq_owner'[s] = lrq_owner[s]
  /\ \A s \in Requests : lrq_lock'[s] # NULL => lrq_owner'[s] \in lhb_owners
  /\ \A s \in Requests : Pending(s)' /\ lrq_owner'[s] # o
                            => Pending(s) /\ lrq_owner[s] = lrq_owner'[s]
OwnInOrder(o) ==
  /\ \A s \in Requests : Pending(s)' /\ lrq_owner'[s] = o /\ Attached(o)'
                            => pc'[o] \in {"wait", "scan"} /\ wreq'[o] = s
  /\ Attached(o)' => o \in lhb_owners
  /\ InCall(o)' => wreq'[o] \in Requests /\ lrq_owner'[wreq'[o]] = o
  /\ ast'[o] \in Requests => lrq_owner'[ast'[o]] = o
  /\ ~Attached(o)' => ast'[o] = NULL
  /\ \A q \in purging' : ~Attached(q)'
  /\ lhb_active' = NULL => purging' = {}

(* A step of owner o that leaves the other processes, and the requests     *)
(* they wait for or work on, as they were keeps the processes in order.    *)
LEMMA ProcessesKept ==
  ASSUME IInv, Queues', NEW o \in Owners,
         TypeOwners', TypeMutex', TypeProcesses',
         OthersKept(o), OwnInOrder(o)
  PROVE  IInv'
<1> USE DEF OthersKept, OwnInOrder
<1> USE DEF IInv, Processes
<1>1. OwnersInTable'
  BY Zenon DEF OwnersInTable, Attached
<1>2. WaitersOwn'
  <2> SUFFICES ASSUME NEW q \in Owners
               PROVE  /\ InCall(q)' => wreq'[q] \in Requests /\ lrq_owner'[wreq'[q]] = q
                      /\ ast'[q] \in Requests => lrq_owner'[ast'[q]] = q
                      /\ ~Attached(q)' => ast'[q] = NULL
    BY Zenon DEF WaitersOwn, InCall, Attached
  <2>1. CASE q = o
    BY <2>1, Zenon
  <2>2. CASE q # o
    <3>1. (InCall(q)' <=> InCall(q)) /\ (Attached(q)' <=> Attached(q))
      BY <2>2, Zenon DEF InCall, Attached
    <3>2. (InCall(q) => Attached(q)) /\ (ast[q] # NULL => Attached(q))
      BY Zenon DEF InCall, Attached, WaitersOwn
    <3> QED
      BY <2>2, <3>1, <3>2, NullAssumption DEF WaitersOwn
  <2> QED
    BY <2>1, <2>2, Zenon
<1>3. PendingIsWaited'
  <2> SUFFICES ASSUME NEW s \in Requests, Pending(s)', Attached(lrq_owner[s])'
               PROVE  /\ pc'[lrq_owner'[s]] \in {"wait", "scan"}
                      /\ wreq'[lrq_owner'[s]] = s
    BY Zenon DEF PendingIsWaited, Attached, Pending
  <2>1. lrq_owner'[s] \in Owners
    BY Zenon DEF Queues, Table, FreeRequests, Pending, TypeOwners
  <2>2. CASE lrq_owner'[s] = o
    BY <2>2, Zenon DEF Attached
  <2>3. CASE lrq_owner'[s] # o
    BY <2>1, <2>3 DEF PendingIsWaited, Attached
  <2> QED
    BY <2>2, <2>3, Zenon
<1>4. PurgedAreGone'
  BY Zenon DEF PurgedAreGone, Attached
<1> QED
  BY <1>1, <1>2, <1>3, <1>4, Zenon

(* A process in a call of the lock manager, or in a blocking routine, that *)
(* is not waiting has no pending request; one that is has its own.         *)
LEMMA NotWaiting ==
  ASSUME IInv, NEW o \in Owners, NEW s \in Requests, lrq_owner[s] = o, Attached(o)
  PROVE  /\ pc[o] \notin {"wait", "scan"} => ~Pending(s)
         /\ s # wreq[o] => ~Pending(s)
BY Zenon DEF IInv, Processes, PendingIsWaited

(* Types and links of a step of o that leaves pc, wreq and the owner       *)
(* blocks as they are, ends its section and returns from the call.         *)
CallKeeps(o) ==
  /\ own_flags' \in [Owners -> SUBSET OwnFlags]
  /\ own_pending' = own_pending /\ lhb_owners' = lhb_owners /\ pc' = pc /\ wreq' = wreq
  /\ \A s \in Requests : \/ lrq_owner[s] = o
                         \/ lrq_owner'[s] = lrq_owner[s]
                         \/ lrq_owner'[s] = o /\ lrq_lock[s] = NULL
  /\ \A s \in Requests : lrq_lock'[s] # NULL => lrq_owner'[s] \in lhb_owners
  /\ \A s \in Requests : Pending(s)' => Pending(s) /\ lrq_owner'[s] = lrq_owner[s]
  /\ InCall(o) => lrq_owner'[wreq[o]] = o

(* A call that does not wait returns with the invariant kept.              *)
LEMMA CallReturns ==
  ASSUME IInv, Queues', NEW o \in Owners, Attached(o),
         NEW l \in Locks \cup {NULL}, NEW n \in Nat, EndSection(o, l, n, {}),
         NEW blocks, release(o, blocks, {}),
         CallKeeps(o)
  PROVE  IInv'
<1> USE DEF CallKeeps
<1> USE DEF IInv, Processes
<1>1. TypeMutex' /\ purging' = {}
  BY SectionEnds
<1>2. /\ own_signaled' \in [Owners -> BOOLEAN]
      /\ ast' \in [Owners -> Requests \cup {NULL, "loop"}]
      /\ \A q \in Owners : q # o => ast'[q] = ast[q]
      /\ ast'[o] \in {NULL, "loop"}
  BY ReleaseReturns, Zenon
<1>3. TypeOwners' /\ TypeProcesses'
  BY <1>2, Zenon DEF TypeOwners, TypeProcesses
<1>4. Attached(o)' /\ (InCall(o)' <=> InCall(o))
  BY Zenon DEF Attached, InCall
<1>5. ast'[o] \notin Requests
  BY <1>2, NullAssumption, Zenon
<1>6. \A s \in Requests : lrq_owner[s] \in Owners \ {o} => lrq_owner'[s] = lrq_owner[s]
  BY OwnedRequest, NullAssumption, Zenon
<1>7. \A s \in Requests : Pending(s)' /\ lrq_owner'[s] = o
           => pc'[o] \in {"wait", "scan"} /\ wreq'[o] = s
  BY Zenon DEF PendingIsWaited
<1>8. o \in lhb_owners
  BY Zenon DEF OwnersInTable
<1>9. InCall(o)' => wreq'[o] \in Requests /\ lrq_owner'[wreq'[o]] = o
  BY <1>4, Zenon DEF WaitersOwn
<1>10. OthersKept(o)
  BY <1>2, <1>6, Zenon DEF OthersKept
<1>11. OwnInOrder(o)
  BY <1>1, <1>4, <1>5, <1>7, <1>8, <1>9, Zenon DEF OwnInOrder
<1> QED
  BY <1>1, <1>3, <1>10, <1>11, ProcessesKept, Zenon

-----------------------------------------------------------------------------
(* One lemma per operation: it keeps the invariant.                        *)

(* The start of a wait, for a new request or for a conversion.             *)
WaitSetup(o, l, r, v, f) ==
  /\ f \in [Requests -> SUBSET LrqFlags]
  /\ \A s \in Requests : s # r => f[s] = lrq_flags[s]
  /\ "pending" \notin f[r] /\ ~Pending(r)
  /\ lrq_lock'[r] = l /\ lrq_owner'[r] = o
  /\ lrq_lock[r] = NULL \/ (lrq_lock[r] = l /\ lrq_owner[r] = o)
  /\ \A s \in Requests : s # r => lrq_lock'[s] = lrq_lock[s] /\ lrq_owner'[s] = lrq_owner[s]
  /\ lrq_lock' \in [Requests -> Locks \cup {NULL}]
  /\ lrq_owner' \in [Requests -> Owners \cup {NULL}]
  /\ lrq_ast' \in [Requests -> BOOLEAN]
  /\ lrq_requested' = [lrq_requested EXCEPT ![r] = v]
  /\ lbl_requests' \in [Locks -> Seq(Requests)]
  /\ lrq_state' = lrq_state
  /\ lbl_counts' = lbl_counts /\ lbl_state' = lbl_state /\ lhb_owners' = lhb_owners

(* wait_for_request() up to its loop: the owner now waits for a request of *)
(* its own that is pending, and the invariant is kept.                     *)
LEMMA WaitStarts ==
  ASSUME IInv, NEW o \in Owners, MayCall(o),
         NEW l \in Locks, NEW r \in Requests, NEW v \in Level, NEW wait, NEW f,
         WaitSetup(o, l, r, v, f),
         StartWait(o, l, r, v, wait, f),
         QueueOfLock'
  PROVE  IInv'
<1> USE DEF WaitSetup
<1> DEFINE g == [f EXCEPT ![r] = (@ \ {"rejected"}) \cup {"pending"}]
<1>1. /\ lbl_pending' = [lbl_pending EXCEPT ![l] = @ + 1]
      /\ own_pending' = [own_pending EXCEPT ![o] = r]
      /\ own_flags' = [own_flags EXCEPT ![o] = IF wait = "timeout" THEN {"timeout"} ELSE {}]
      /\ pc' = [pc EXCEPT ![o] = "wait"]
      /\ wreq' = [wreq EXCEPT ![o] = r]
      /\ post_blockage(o, l, r, v, g)
  BY Zenon DEF StartWait
<1>2. /\ g \in [Requests -> SUBSET LrqFlags]
      /\ \A s \in Requests : s # r => g[s] = lrq_flags[s]
      /\ "pending" \in g[r]
  BY Zenon DEF LrqFlags
<1> HIDE DEF g
<1>3. /\ lrq_flags' \in [Requests -> SUBSET LrqFlags]
      /\ \A s \in Requests : "pending" \in lrq_flags'[s] <=> "pending" \in g[s]
      /\ \A s \in Requests : lrq_lock[s] # l => lrq_flags'[s] = g[s]
      /\ TypeMutex'
      /\ purging' \in SUBSET Owners
      /\ \A q \in purging' : Dead(q)
      /\ lhb_active' = NULL => purging' = {}
      /\ own_signaled' \in [Owners -> BOOLEAN]
      /\ ast' \in [Owners -> Requests \cup {NULL, "loop"}]
      /\ \A q \in Owners : q # o => ast'[q] = ast[q]
      /\ ast'[o] \in {NULL, "loop"}
  BY <1>1, <1>2, BlockageEffect, SMTT(30)
<1>4. Pending(r)' /\ \A s \in Requests : s # r => (Pending(s)' <=> Pending(s))
  BY <1>2, <1>3, Zenon DEF Pending
<1> USE DEF IInv, Queues, Processes, Table
<1>5. lbl_pending' \in [Locks -> Nat] /\ PendingCount'
  BY <1>1, <1>4, PendingMore, Zenon
<1>6. TypeRequests' /\ TypeLocks'
  BY <1>3, <1>5, Zenon DEF TypeRequests, TypeLocks
<1>7. lrq_lock[r] = NULL => lrq_state[r] = LCK_none
  BY Zenon DEF FreeRequests
<1>8. HolderCounts'
  <2> SUFFICES ASSUME NEW k \in Locks, NEW u \in LCK_null .. LCK_EX
               PROVE  lbl_counts'[k][u] = Cardinality({s \in RequestsOf(k)' : lrq_state'[s] = u})
    BY Zenon DEF HolderCounts, RequestsOf
  <2>1. {s \in RequestsOf(k)' : lrq_state'[s] = u} = {s \in RequestsOf(k) : lrq_state[s] = u}
    BY <1>7, NullAssumption DEF RequestsOf, LCK_none, LCK_null, LCK_EX
  <2>2. lbl_counts[k][u] = Cardinality({s \in RequestsOf(k) : lrq_state[s] = u})
    BY Zenon DEF HolderCounts
  <2>3. lbl_counts' = lbl_counts
    OBVIOUS
  <2> QED
    BY <2>1, <2>2, <2>3, Zenon
<1>9. HighestLevel'
  BY Zenon DEF HighestLevel
<1>10. GrantedCompatible'
  <2>1. \A s \in Requests :
          COMPATIBLE(lrq_state[s], LCK_none) /\ COMPATIBLE(LCK_none, lrq_state[s])
    BY TableIsSymmetric, Zenon DEF TypeRequests
  <2>2. lrq_state' = lrq_state
    OBVIOUS
  <2>3. CASE lrq_lock[r] = NULL
    <3>1. lrq_state[r] = LCK_none
      BY <1>7, <2>3, Zenon
    <3> QED
      BY <2>1, <2>2, <3>1, Zenon DEF GrantedCompatible
  <2>4. CASE lrq_lock[r] = l
    <3>1. \A s \in Requests : lrq_lock'[s] = lrq_lock[s]
      BY <2>4, Zenon
    <3> QED
      BY <2>2, <3>1, Zenon DEF GrantedCompatible
  <2> QED
    BY <2>3, <2>4, Zenon
<1>11. FreeRequests'
  <2> SUFFICES ASSUME NEW s \in Requests, lrq_lock'[s] = NULL
               PROVE  lrq_owner'[s] = NULL /\ lrq_state'[s] = LCK_none /\ lrq_flags'[s] = {}
    BY Zenon DEF FreeRequests
  <2>1. s # r /\ lrq_lock[s] = NULL
    BY NullAssumption, Zenon
  <2>2. lrq_owner[s] = NULL /\ lrq_state[s] = LCK_none /\ lrq_flags[s] = {}
    BY <2>1, Zenon DEF FreeRequests
  <2>3. lrq_flags'[s] = g[s] /\ g[s] = lrq_flags[s]
    BY <1>2, <1>3, <2>1, NullAssumption, SMTT(30)
  <2>4. lrq_owner'[s] = lrq_owner[s] /\ lrq_state'[s] = lrq_state[s]
    BY <2>1, Zenon
  <2> QED
    BY <2>2, <2>3, <2>4, Zenon
<1>12. Queues'
  BY <1>5, <1>6, <1>8, <1>9, <1>10, <1>11, Zenon
<1>13. /\ pc'[o] = "wait" /\ wreq'[o] = r /\ pc[o] = "idle"
       /\ \A q \in Owners : q # o => pc'[q] = pc[q] /\ wreq'[q] = wreq[q]
  BY <1>1, Zenon DEF TypeProcesses, MayCall
<1>14. TypeOwners' /\ TypeProcesses'
  BY <1>1, <1>3, Zenon DEF TypeOwners, TypeProcesses, OwnFlags, PC
<1>15. Attached(o)' /\ o \in lhb_owners
  BY <1>13, Zenon DEF Attached, OwnersInTable
<1>16. ast'[o] \notin Requests
  BY <1>3, NullAssumption, Zenon
<1>17. \A s \in Requests : lrq_lock'[s] # NULL => lrq_owner'[s] \in lhb_owners
  BY <1>15, Zenon DEF OwnersInTable
<1>18. \A s \in Requests : lrq_owner[s] \in Owners \ {o} => lrq_owner'[s] = lrq_owner[s]
  BY OwnedRequest, NullAssumption, Zenon
<1>19. \A s \in Requests : Pending(s)' /\ lrq_owner'[s] = o => s = r
  BY <1>4, <1>13, NotWaiting, Zenon DEF Attached
<1>20. \A q \in purging' : ~Attached(q)'
  BY <1>3, <1>13, Zenon DEF Dead, Attached
<1> HIDE DEF IInv, Queues, Processes, Table
<1>21. \A q \in Owners : q # o => pc'[q] = pc[q] /\ wreq'[q] = wreq[q] /\ ast'[q] = ast[q]
  BY <1>3, <1>13, Zenon
<1>22. \A s \in Requests : Pending(s)' /\ lrq_owner'[s] # o
                             => Pending(s) /\ lrq_owner[s] = lrq_owner'[s]
  BY <1>4, Zenon
<1>23. \A s \in Requests : Pending(s)' /\ lrq_owner'[s] = o /\ Attached(o)'
                             => pc'[o] \in {"wait", "scan"} /\ wreq'[o] = s
  BY <1>13, <1>19, Zenon
<1>24. wreq'[o] \in Requests /\ lrq_owner'[wreq'[o]] = o
  BY <1>13, Zenon
<1>25. OthersKept(o)
  BY <1>17, <1>18, <1>21, <1>22, Zenon DEF OthersKept
<1>26. OwnInOrder(o)
  BY <1>3, <1>15, <1>16, <1>20, <1>23, <1>24, Zenon DEF OwnInOrder
<1> QED
  BY <1>3, <1>12, <1>14, <1>25, <1>26, ProcessesKept, Zenon

(* LOCK_enq keeps the invariant whether the request is granted, queued or  *)
(* denied.                                                                 *)
LEMMA EnqStep ==
  ASSUME IInv, NEW o \in Owners, LOCK_enq(o)
  PROVE  IInv'
<1> USE DEF IInv, Queues, Processes
<1>1. PICK l \in Locks, v \in Levels :
        \/ \E r \in Requests, a \in Asts :
             \/ LOCK_enq_grant(o, l, r, v, a)
             \/ \E wait \in Waits : LOCK_enq_wait(o, l, r, v, a, wait)
        \/ LOCK_enq_deny(o, l, v)
  BY Zenon DEF LOCK_enq
<1>2. v \in Level /\ Asts \subseteq BOOLEAN /\ lbl_pending[l] \in Nat
  BY CallersAssumption, SMTT(30) DEF Level, LCK_none, LCK_null, LCK_EX, Table, TypeLocks
<1>3. ASSUME NEW r \in Requests, NEW a \in Asts, LOCK_enq_grant(o, l, r, v, a)
      PROVE  IInv'
  <2>1. /\ MayCall(o) /\ GrantNow(l, v) /\ get_request(o, l, r, v, a) /\ grant(l, r, v)
        /\ EndSection(o, l, lbl_pending[l], {}) /\ release(o, OwnBlocks(o), {})
        /\ UNCHANGED <<lrq_flags, lbl_pending, own_pending, own_flags, lhb_owners, pc, wreq>>
    BY <1>3, Zenon DEF LOCK_enq_grant
  <2>2. /\ lrq_lock[r] = NULL /\ lrq_lock' = [lrq_lock EXCEPT ![r] = l]
        /\ lrq_owner' = [lrq_owner EXCEPT ![r] = o]
    BY <2>1, Zenon DEF get_request
  <2>3. /\ lbl_requests' \in [Locks -> Seq(Requests)]
        /\ lrq_lock' \in [Requests -> Locks \cup {NULL}]
        /\ lrq_owner' \in [Requests -> Owners \cup {NULL}]
        /\ lrq_ast' \in [Requests -> BOOLEAN]
        /\ QueueOfLock'
    BY <1>2, <2>1, EnqueueEffect, Zenon
  <2>4. lrq_state[r] = LCK_none /\ lrq_flags[r] = {}
    BY <2>2, Zenon DEF Table, FreeRequests
  <2>5. COMPATIBLE(v, StateWithout(l, r))
    BY <2>1, <2>4, Zenon DEF GrantNow, StateWithout
  <2>6. /\ lrq_requested' \in [Requests -> Level]
        /\ lrq_state' \in [Requests -> Level]
        /\ lbl_counts' \in [Locks -> [Level -> Nat]]
        /\ lbl_state' \in [Locks -> Level]
        /\ HolderCounts'
        /\ HighestLevel'
        /\ GrantedCompatible'
    BY <1>2, <2>1, <2>2, <2>5, GrantEffect, Zenon
  <2>7. TypeRequests' /\ TypeLocks'
    <3>1. lrq_flags' = lrq_flags /\ lbl_pending' = lbl_pending
      BY <2>1, Zenon
    <3>2. TypeRequests'
      BY <2>3, <2>6, <3>1, Zenon DEF Table, TypeRequests
    <3>3. TypeLocks'
      BY <2>3, <2>6, <3>1, Zenon DEF Table, TypeLocks
    <3> QED
      BY <3>2, <3>3, Zenon
  <2>8. /\ \A s \in Requests : s # r => /\ lrq_lock'[s] = lrq_lock[s]
                                        /\ lrq_owner'[s] = lrq_owner[s]
                                        /\ lrq_state'[s] = lrq_state[s]
        /\ lrq_lock'[r] = l /\ lrq_owner'[r] = o
    BY <2>1, <2>2, Zenon DEF Table, TypeRequests, grant
  <2>9. FreeRequests'
    BY <2>1, <2>8, NullAssumption, Zenon DEF Table, FreeRequests
  <2>10. \A s \in Requests : (Pending(s)' <=> Pending(s)) /\ (Pending(s) => s # r)
    BY <2>1, <2>4, Zenon DEF Pending
  <2>11. PendingCount'
    BY <2>1, <2>8, <2>10, PendingSame, Zenon
  <2>12. Queues'
    BY <2>3, <2>6, <2>7, <2>9, <2>11, Zenon DEF Table
  <2>13. pc[o] = "idle" /\ Attached(o) /\ ~InCall(o) /\ o \in lhb_owners
    BY <2>1, Zenon DEF MayCall, Attached, InCall, OwnersInTable
  <2>14. \A s \in Requests : lrq_lock'[s] # NULL => lrq_owner'[s] \in lhb_owners
    BY <2>8, <2>13, Zenon DEF OwnersInTable
  <2>15. own_flags' \in [Owners -> SUBSET OwnFlags]
    BY <2>1, Zenon DEF TypeOwners
  <2> HIDE DEF IInv, Queues, Processes
  <2>16. CallKeeps(o)
    BY <2>1, <2>2, <2>8, <2>10, <2>13, <2>14, <2>15, Zenon DEF CallKeeps
  <2> QED
    BY <1>2, <2>1, <2>12, <2>13, <2>16, CallReturns, Zenon
<1>4. ASSUME NEW r \in Requests, NEW a \in Asts, NEW wait \in Waits,
             LOCK_enq_wait(o, l, r, v, a, wait)
      PROVE  IInv'
  <2>1. /\ MayCall(o) /\ get_request(o, l, r, v, a)
        /\ lrq_requested' = [lrq_requested EXCEPT ![r] = v]
        /\ StartWait(o, l, r, v, wait, lrq_flags)
        /\ UNCHANGED <<lrq_state, lbl_counts, lbl_state, lhb_owners>>
    BY <1>4, Zenon DEF LOCK_enq_wait
  <2>2. /\ lrq_lock[r] = NULL /\ lrq_lock' = [lrq_lock EXCEPT ![r] = l]
        /\ lrq_owner' = [lrq_owner EXCEPT ![r] = o]
    BY <2>1, Zenon DEF get_request
  <2>3. /\ lbl_requests' \in [Locks -> Seq(Requests)]
        /\ lrq_lock' \in [Requests -> Locks \cup {NULL}]
        /\ lrq_owner' \in [Requests -> Owners \cup {NULL}]
        /\ lrq_ast' \in [Requests -> BOOLEAN]
        /\ QueueOfLock'
    BY <1>2, <2>1, EnqueueEffect, Zenon
  <2>4. lrq_flags \in [Requests -> SUBSET LrqFlags] /\ lrq_flags[r] = {} /\ ~Pending(r)
    BY <2>2, Zenon DEF Table, TypeRequests, FreeRequests, Pending
  <2>5. /\ \A s \in Requests : s # r => /\ lrq_lock'[s] = lrq_lock[s]
                                        /\ lrq_owner'[s] = lrq_owner[s]
        /\ lrq_lock'[r] = l /\ lrq_owner'[r] = o
    BY <2>2, Zenon DEF Table, TypeRequests
  <2> HIDE DEF IInv, Queues, Processes
  <2>6. WaitSetup(o, l, r, v, lrq_flags)
    BY <2>1, <2>2, <2>3, <2>4, <2>5, Zenon DEF WaitSetup
  <2> QED
    BY <1>2, <2>1, <2>3, <2>6, WaitStarts, Zenon
<1>5. ASSUME LOCK_enq_deny(o, l, v)
      PROVE  IInv'
  <2>1. /\ MayCall(o) /\ EndSection(o, l, lbl_pending[l], {}) /\ release(o, OwnBlocks(o), {})
        /\ UNCHANGED <<lrqVars, lblVars, own_pending, own_flags, lhb_owners, pc, wreq>>
    BY <1>5, Zenon DEF LOCK_enq_deny
  <2>2. Queues'
    BY <2>1, QueuesUnchanged, Zenon
  <2>3. Attached(o) /\ ~InCall(o)
    BY <2>1, Zenon DEF MayCall, Attached, InCall
  <2>4. own_flags' \in [Owners -> SUBSET OwnFlags]
    BY <2>1, Zenon DEF TypeOwners
  <2>5. /\ \A s \in Requests : lrq_owner'[s] = lrq_owner[s] /\ lrq_lock'[s] = lrq_lock[s]
        /\ \A s \in Requests : Pending(s)' <=> Pending(s)
    BY <2>1, Zenon DEF lrqVars, Pending
  <2>6. \A s \in Requests : lrq_lock'[s] # NULL => lrq_owner'[s] \in lhb_owners
    BY <2>5, Zenon DEF OwnersInTable
  <2> HIDE DEF IInv, Queues, Processes
  <2>7. CallKeeps(o)
    BY <2>1, <2>3, <2>4, <2>5, <2>6, ZenonT(30) DEF CallKeeps
  <2> QED
    BY <1>2, <2>1, <2>2, <2>3, <2>7, CallReturns, Zenon
<1> QED
  BY <1>1, <1>3, <1>4, <1>5, Zenon

(* The parts that conversions and releases share.                          *)
LEMMA ConvertGranted ==
  ASSUME IInv, NEW o \in Owners, Attached(o),
         NEW r \in Requests, lrq_owner[r] = o, NEW v \in Level,
         convert_grant(o, r, v, lrq_flags), lrq_ast' \in [Requests -> BOOLEAN]
  PROVE  IInv'
<1> DEFINE l == lrq_lock[r]
<1>1. /\ COMPATIBLE(v, StateWithout(l, r)) /\ grant(l, r, v)
      /\ lrq_flags' = [lrq_flags EXCEPT ![r] = @ \ {"blocking_seen"}]
      /\ post_wakeup(o)
      /\ EndSection(o, l, lbl_pending[l], {}) /\ release(o, OwnBlocks(o), {})
      /\ UNCHANGED <<lrq_lock, lrq_owner, lbl_requests, lbl_pending,
                     own_pending, lhb_owners, pc, wreq>>
  BY Zenon DEF convert_grant
<1>2. l \in Locks
  BY OwnedRequest, Zenon
<1> USE DEF IInv, Queues, Processes, Table
<1>3. lrq_lock' = [lrq_lock EXCEPT ![r] = l] /\ lbl_pending[l] \in Nat
  BY <1>1, <1>2, Zenon DEF TypeRequests, TypeLocks
<1> HIDE DEF l
<1>4. lrq_lock[r] = l
  BY Zenon DEF l
<1> HIDE DEF IInv, Queues, Processes, Table
<1>5. Table
  BY Zenon DEF IInv, Queues
<1>6. /\ lrq_requested' \in [Requests -> Level]
      /\ lrq_state' \in [Requests -> Level]
      /\ lbl_counts' \in [Locks -> [Level -> Nat]]
      /\ lbl_state' \in [Locks -> Level]
      /\ HolderCounts'
      /\ HighestLevel'
      /\ GrantedCompatible'
  BY <1>1, <1>2, <1>3, <1>4, <1>5, GrantEffect, Zenon
<1> USE DEF IInv, Queues, Processes, Table
<1>7. /\ lrq_flags' \in [Requests -> SUBSET LrqFlags]
      /\ \A s \in Requests : Pending(s)' <=> Pending(s)
      /\ \A s \in Requests : s # r => lrq_flags'[s] = lrq_flags[s]
  BY <1>1, Zenon DEF TypeRequests, Pending
<1>8. TypeRequests' /\ TypeLocks'
  BY <1>1, <1>6, <1>7, Zenon DEF TypeRequests, TypeLocks
<1>9. \A s \in Requests : s # r => lrq_state'[s] = lrq_state[s]
  BY <1>1, Zenon DEF TypeRequests, grant
<1>10. FreeRequests'
  BY <1>1, <1>2, <1>4, <1>7, <1>9, NullAssumption, Zenon DEF FreeRequests
<1>11. PendingCount'
  BY <1>1, <1>7, PendingSame, Zenon
<1>12. QueueOfLock'
  BY <1>1, Zenon DEF QueueOfLock, RequestsOf
<1>13. Queues'
  BY <1>6, <1>8, <1>10, <1>11, <1>12, Zenon
<1>14. own_flags' \in [Owners -> SUBSET OwnFlags]
  BY <1>1, Zenon DEF post_wakeup, TypeOwners, OwnFlags
<1>15. \A s \in Requests : lrq_lock'[s] # NULL => lrq_owner'[s] \in lhb_owners
  BY <1>1, Zenon DEF OwnersInTable
<1>16. InCall(o) => lrq_owner'[wreq[o]] = o
  BY <1>1, Zenon DEF WaitersOwn
<1> HIDE DEF IInv, Queues, Processes, Table
<1>17. CallKeeps(o)
  BY <1>1, <1>7, <1>14, <1>15, <1>16, Zenon DEF CallKeeps
<1> QED
  BY <1>1, <1>2, <1>3, <1>13, <1>17, CallReturns, ZenonT(30)

(* A conversion that is refused at once keeps the invariant.               *)
LEMMA ConvertDenied ==
  ASSUME IInv, NEW o \in Owners, Attached(o),
         NEW r \in Requests, lrq_owner[r] = o, NEW v,
         convert_deny(o, r, v)
  PROVE  IInv'
<1>1. /\ lrq_requested' = [lrq_requested EXCEPT ![r] = lrq_state[r]]
      /\ lrq_flags' = [lrq_flags EXCEPT ![r] = @ \ {"blocking_seen"}]
      /\ EndSection(o, NULL, 0, {}) /\ release(o, OwnBlocks(o), {})
      /\ UNCHANGED <<lrq_lock, lrq_owner, lrq_state, lrq_ast, lblVars,
                     own_pending, own_flags, lhb_owners, pc, wreq>>
  BY Zenon DEF convert_deny
<1>2. lrq_lock[r] \in Locks
  BY OwnedRequest, Zenon
<1> USE DEF IInv, Queues, Processes, Table
<1>3. /\ lrq_requested' \in [Requests -> Level]
      /\ lrq_flags' \in [Requests -> SUBSET LrqFlags]
      /\ lrq_ast' \in [Requests -> BOOLEAN]
      /\ \A s \in Requests : Pending(s)' <=> Pending(s)
      /\ \A s \in Requests : s # r => lrq_flags'[s] = lrq_flags[s]
  BY <1>1, Zenon DEF TypeRequests, Pending
<1>4. own_flags' \in [Owners -> SUBSET OwnFlags]
  BY <1>1, Zenon DEF TypeOwners
<1>5. \A s \in Requests : lrq_lock'[s] # NULL => lrq_owner'[s] \in lhb_owners
  BY <1>1, Zenon DEF OwnersInTable
<1>6. InCall(o) => lrq_owner'[wreq[o]] = o
  BY <1>1, Zenon DEF WaitersOwn
<1> HIDE DEF IInv, Queues, Processes, Table
<1>7. Queues'
  BY <1>1, <1>2, <1>3, NullAssumption, QueuesKept, Zenon DEF IInv
<1>8. CallKeeps(o)
  BY <1>1, <1>3, <1>4, <1>5, <1>6, Zenon DEF CallKeeps
<1> QED
  BY <1>1, <1>7, <1>8, CallReturns, Zenon

(* What release_request() leaves of the other requests.                    *)
LEMMA OthersAfterRelease ==
  ASSUME IInv, NEW r \in Requests, lrq_owner[r] \in Owners, release_request(r)
  PROVE  /\ Queues'
         /\ lrq_lock[r] \in Locks
         /\ WaitersWithout(r) \in Nat
         /\ lrq_owner'[r] = NULL /\ lrq_lock'[r] = NULL /\ ~Pending(r)'
         /\ \A s \in Requests : s # r => /\ lrq_owner'[s] = lrq_owner[s]
                                         /\ lrq_lock'[s] = lrq_lock[s]
                                         /\ Pending(s)' <=> Pending(s)
         /\ \A s \in Requests : lrq_lock'[s] # NULL => lrq_owner'[s] \in lhb_owners
<1>1. lrq_lock[r] \in Locks
  BY OwnedRequest, Zenon
<1>2. Queues' /\ WaitersWithout(r) \in Nat
  BY <1>1, ReleaseEffect, Zenon DEF IInv, Queues
<1>3. /\ lrq_owner'[r] = NULL /\ lrq_lock'[r] = NULL /\ ~Pending(r)'
      /\ \A s \in Requests : s # r => /\ lrq_owner'[s] = lrq_owner[s]
                                      /\ lrq_lock'[s] = lrq_lock[s]
                                      /\ Pending(s)' <=> Pending(s)
  BY Zenon DEF release_request, IInv, Queues, Table, TypeRequests, Pending
<1> QED
  BY <1>1, <1>2, <1>3, Zenon DEF IInv, Processes, OwnersInTable

(* dequeue(), called by LOCK_deq or by a blocking routine, keeps the       *)
(* invariant.                                                              *)
LEMMA Dequeued ==
  ASSUME IInv, NEW o \in Owners, Attached(o),
         NEW r \in Requests, lrq_owner[r] = o, InCall(o) => wreq[o] # r,
         dequeue(o, r)
  PROVE  IInv'
<1>1. /\ release_request(r)
      /\ EndSection(o, lrq_lock[r], WaitersWithout(r), {})
      /\ release(o, OwnBlocks(o) \ {r}, {})
      /\ UNCHANGED <<own_pending, own_flags, lhb_owners, pc, wreq>>
  BY Zenon DEF dequeue
<1>2. /\ Queues'
      /\ lrq_lock[r] \in Locks
      /\ WaitersWithout(r) \in Nat
      /\ lrq_owner'[r] = NULL /\ lrq_lock'[r] = NULL /\ ~Pending(r)'
      /\ \A s \in Requests : s # r => /\ lrq_owner'[s] = lrq_owner[s]
                                      /\ lrq_lock'[s] = lrq_lock[s]
                                      /\ Pending(s)' <=> Pending(s)
      /\ \A s \in Requests : lrq_lock'[s] # NULL => lrq_owner'[s] \in lhb_owners
  BY <1>1, OthersAfterRelease, Zenon
<1>3. own_flags' \in [Owners -> SUBSET OwnFlags]
  BY <1>1, Zenon DEF IInv, Processes, TypeOwners
<1>4. InCall(o) => lrq_owner'[wreq[o]] = o
  BY <1>2, Zenon DEF IInv, Processes, WaitersOwn
<1>5. CallKeeps(o)
  BY <1>1, <1>2, <1>3, <1>4, Zenon DEF CallKeeps
<1> QED
  BY <1>1, <1>2, <1>5, CallReturns, Zenon

(* LOCK_downgrade() asks for a level that exists.                          *)
LEMMA DowngradeType ==
  ASSUME IInv, NEW r \in Requests
  PROVE  DowngradeLevel(r) \in Level
<1> DEFINE fits == {v \in 0 .. lrq_state[r] : v = LCK_none \/ COMPATIBLE(PendingState(r), v)}
<1>1. lrq_state[r] \in Level
  BY Zenon DEF IInv, Queues, Table, TypeRequests
<1>2. fits \subseteq Level /\ 0 \in fits
  BY <1>1 DEF Level, LCK_none, LCK_EX
<1> HIDE DEF fits
<1>3. \E v \in fits : \A w \in fits : w <= v
  BY <1>2 DEF Level, LCK_none, LCK_EX
<1>4. (CHOOSE v \in fits : \A w \in fits : w <= v) \in fits
  BY <1>3, Zenon
<1> QED
  BY <1>2, <1>4, Zenon DEF DowngradeLevel, fits

(* The core of LOCK_downgrade, a dequeue or a conversion, keeps the        *)
(* invariant.                                                              *)
LEMMA Downgraded ==
  ASSUME IInv, NEW o \in Owners, Attached(o),
         NEW r \in Requests, lrq_owner[r] = o, InCall(o) => wreq[o] # r,
         downgrade(o, r)
  PROVE  IInv'
<1>1. \/ dequeue(o, r)
      \/ convert_grant(o, r, DowngradeLevel(r), lrq_flags) /\ UNCHANGED lrq_ast
      \/ convert_deny(o, r, DowngradeLevel(r))
  BY Zenon DEF downgrade
<1>2. CASE convert_grant(o, r, DowngradeLevel(r), lrq_flags) /\ UNCHANGED lrq_ast
  <2>1. lrq_ast' \in [Requests -> BOOLEAN]
    BY <1>2, Zenon DEF IInv, Queues, Table, TypeRequests
  <2> QED
    BY <1>2, <2>1, DowngradeType, ConvertGranted, Zenon
<1> QED
  BY <1>1, <1>2, Dequeued, ConvertDenied, Zenon

(* LOCK_convert keeps the invariant whether it is granted, refused or      *)
(* waits.                                                                  *)
LEMMA ConvertStep ==
  ASSUME IInv, NEW o \in Owners, LOCK_convert(o)
  PROVE  IInv'
<1>1. PICK r \in Requests, v \in Levels :
        \/ \E a \in Asts : LOCK_convert_grant(o, r, v, a)
        \/ LOCK_convert_deny(o, r, v)
        \/ \E wait \in Waits : LOCK_convert_wait(o, r, v, wait)
  BY Zenon DEF LOCK_convert
<1>2. v \in Level /\ Asts \subseteq BOOLEAN
  BY CallersAssumption DEF Level, LCK_none, LCK_null, LCK_EX
<1>3. MayCall(o) /\ lrq_owner[r] = o
  BY <1>1, Zenon DEF LOCK_convert_grant, LOCK_convert_deny, LOCK_convert_wait, Held
<1>4. Attached(o) /\ pc[o] = "idle"
  BY <1>3, Zenon DEF MayCall, Attached
<1>5. ASSUME NEW a \in Asts, LOCK_convert_grant(o, r, v, a)
      PROVE  IInv'
  <2>1. lrq_ast' \in [Requests -> BOOLEAN]
    BY <1>2, <1>5, Zenon DEF LOCK_convert_grant, IInv, Queues, Table, TypeRequests
  <2>2. convert_grant(o, r, v, lrq_flags)
    BY <1>5, Zenon DEF LOCK_convert_grant
  <2> QED
    BY <1>2, <1>3, <1>4, <2>1, <2>2, ConvertGranted, Zenon
<1>6. ASSUME LOCK_convert_deny(o, r, v)
      PROVE  IInv'
  BY <1>3, <1>4, <1>6, ConvertDenied, Zenon DEF LOCK_convert_deny
<1>7. ASSUME NEW wait \in Waits, LOCK_convert_wait(o, r, v, wait)
      PROVE  IInv'
  <2> DEFINE f == [lrq_flags EXCEPT ![r] = @ \ {"blocking_seen"}]
  <2>1. /\ lrq_requested' = [lrq_requested EXCEPT ![r] = v]
        /\ StartWait(o, lrq_lock[r], r, v, wait, f)
        /\ UNCHANGED <<lrq_lock, lrq_owner, lrq_state, lrq_ast,
                       lbl_requests, lbl_counts, lbl_state, lhb_owners>>
    BY <1>7, Zenon DEF LOCK_convert_wait
  <2>2. lrq_lock[r] \in Locks
    BY <1>3, OwnedRequest, Zenon
  <2>3. ~Pending(r)
    BY <1>3, <1>4, NotWaiting, Zenon
  <2>4. QueueOfLock'
    BY <2>1, Zenon DEF IInv, Queues, QueueOfLock, RequestsOf
  <2>5. /\ f \in [Requests -> SUBSET LrqFlags]
        /\ \A s \in Requests : s # r => f[s] = lrq_flags[s]
        /\ "pending" \notin f[r]
    BY <2>3, Zenon DEF IInv, Queues, Table, TypeRequests, Pending
  <2> HIDE DEF f
  <2>6. WaitSetup(o, lrq_lock[r], r, v, f)
    BY <1>3, <2>1, <2>2, <2>3, <2>5, Zenon
       DEF WaitSetup, IInv, Queues, Table, TypeRequests, TypeLocks
  <2> QED
    BY <1>2, <1>3, <2>1, <2>2, <2>4, <2>6, WaitStarts, Zenon
<1> QED
  BY <1>1, <1>5, <1>6, <1>7, Zenon

(* LOCK_deq and LOCK_downgrade keep the invariant.                         *)
LEMMA ReleaseStep ==
  ASSUME IInv, NEW o \in Owners, LOCK_deq(o) \/ LOCK_downgrade(o)
  PROVE  IInv'
<1>1. MayCall(o) /\ \E r \in Requests : lrq_owner[r] = o /\ (dequeue(o, r) \/ downgrade(o, r))
  BY Zenon DEF LOCK_deq, LOCK_downgrade, Held
<1>2. Attached(o) /\ ~InCall(o)
  BY <1>1, Zenon DEF MayCall, Attached, InCall
<1> QED
  BY <1>1, <1>2, Dequeued, Downgraded, Zenon
=============================================================================
