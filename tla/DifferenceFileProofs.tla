------------------------ MODULE DifferenceFileProofs ------------------------
(* The table of the difference file, for any number of processes and pages *)
(* and any size of a pointer page: the inductive invariant, the assertions *)
(* of nbak.cpp that follow from it, and that the pointer pages implement   *)
(* one growing table.                                                      *)
EXTENDS DifferenceFile, TLAPS

(* The places up to n that are not pointer pages. *)
Places(n) == {d \in 1 .. n : Offset(d) # 0}

(* The pointer pages say that the places up to n are taken. *)
Layout(n) ==
  /\ file \in Seq(Seq(Pages)) /\ n \in Nat /\ Offset(n) # PageItems - 1
  /\ Len(file) \in n + 1 .. n + 3 /\ (Len(file) = n + 3 => Offset(n) = PageItems - 2)
  /\ \A d \in 0 .. n : Offset(d) = 0 =>
       Len(FilePage(d)) = IF d = PointerPage(n) THEN Offset(n) ELSE PageItems - 1
  /\ \A d \in n + 1 .. Len(file) - 1 : FilePage(d) = Empty
  /\ \A d \in Places(n) : FilePage(d) \in {Empty, <<Item(d)>>}
  /\ \A d, e \in Places(n) : Item(d) = Item(e) => d = e

(* The process knows the table up to its last_allocated_page ... *)
Tree(p, n) ==
  LET m == last_allocated_page[p]
  IN  /\ m \in 0 .. n /\ Offset(m) # PageItems - 1
      /\ DOMAIN alloc_table[p] = {Item(d) : d \in Places(m)}
      /\ \A d \in Places(m) : alloc_table[p][Item(d)] = d
      /\ DOMAIN diff_page[p] \subseteq Pages
      /\ \A g \in DOMAIN diff_page[p] :
           diff_page[p][g] \in Places(n) /\ Item(diff_page[p][g]) = g

(* ... which is all of it when its copy is fresh.  alloc_buffer is good    *)
(* for nothing until the process fetches the table to allocate a place.    *)
Copy(p, n) ==
  LET m == last_allocated_page[p]
      full == Offset(m) = PageItems - 2
  IN  /\ p \in fresh /\ pc[p] \notin {"fetch", "register"} => m = n
      /\ pc[p] \in {"allocate", "pointer", "item"} =>
           alloc_buffer[p] = FilePage(PointerPage(n))
      /\ pc[p] = "register" =>
           /\ n = IF full THEN m + 2 ELSE m + 1
           /\ alloc_buffer[p] = FilePage(PointerPage(m)) /\ page[p] = Item(m + 1)
      /\ pc[p] \in {"pointer", "item"} =>
           page[p] \notin DOMAIN alloc_table[p] /\ InFile(n + 1)
      /\ pc[p] = "pointer" => full
      /\ pc[p] = "item" /\ full => InFile(n + 2)

(* What the process has locked the table for. *)
Locked(p) ==
  /\ pc[p] \in {"idle", "lock"} => use[p] = LCK_none
  /\ pc[p] = "look" => use[p] = Alloc!LCK_read
  /\ pc[p] \in {"allocate", "pointer", "item", "register"} => use[p] = Alloc!LCK_write
  /\ pc[p] = "fetch" => use[p] # LCK_none
  /\ use[p] # LCK_none => p \in fresh
  /\ use[p] = Alloc!LCK_write =>
       fresh = {p} /\ \A q \in Processes \ {p} : use[q] = LCK_none

(* Types of the variables. *)
TypeOK ==
  /\ DOMAIN alloc_table = Processes /\ DOMAIN diff_page = Processes
  /\ last_allocated_page \in [Processes -> Nat]
  /\ alloc_buffer \in [Processes -> Seq(Pages)]
  /\ DOMAIN page = Processes
  /\ \A p \in Processes : pc[p] # "idle" => page[p] \in Pages
  /\ pc \in [Processes -> {"idle", "fetch", "look", "lock", "allocate", "pointer",
                           "item", "register"}]
  /\ use \in [Processes -> {LCK_none, Alloc!LCK_read, Alloc!LCK_write}]
  /\ fresh \subseteq Processes

(* The inductive invariant. *)
IInv ==
  /\ TypeOK /\ \A p \in Processes : Locked(p)
  /\ \E n \in 0 .. Len(file) :
       Layout(n) /\ \A p \in Processes : Tree(p, n) /\ Copy(p, n)

-----------------------------------------------------------------------------
(* What Append does. *)
LEMMA Appended ==
  ASSUME NEW S, NEW seq \in Seq(S), NEW elt \in S
  PROVE  /\ Append(seq, elt) \in Seq(S)
         /\ Len(Append(seq, elt)) = Len(seq) + 1
         /\ \A i \in 1 .. Len(seq) : Append(seq, elt)[i] = seq[i]
         /\ Append(seq, elt)[Len(seq) + 1] = elt
OBVIOUS

(* A sequence with elements is not the empty one. *)
LEMMA NotEmpty ==
  ASSUME NEW S, NEW seq \in Seq(S), seq # <<>>
  PROVE  Len(seq) \in Nat \ {0}
OBVIOUS

(* Quotient and remainder of a number. *)
LEMMA DivMod ==
  ASSUME NEW k \in Nat, NEW c \in Nat, c > 0
  PROVE  k \div c \in Nat /\ k % c \in 0 .. c - 1 /\ k = (k \div c) * c + (k % c)
OBVIOUS

(* A place is its offset behind its pointer page. *)
LEMMA Split ==
  ASSUME NEW n \in Nat
  PROVE  /\ PointerPage(n) \in Nat /\ Offset(n) \in 0 .. PageItems - 1
         /\ n = PointerPage(n) + Offset(n)
BY PageItemsAssumption DEF PointerPage, Offset

(* The places behind a pointer page have it as their pointer page. *)
LEMMA Join ==
  ASSUME NEW a \in Nat, Offset(a) = 0, NEW r \in 0 .. PageItems - 1
  PROVE  PointerPage(a + r) = a /\ Offset(a + r) = r
BY PageItemsAssumption DEF PointerPage, Offset

(* Two pointer pages are at least one group of places apart. *)
LEMMA PointerPages ==
  ASSUME NEW a \in Nat, Offset(a) = 0, NEW b \in Nat, Offset(b) = 0, a < b
  PROVE  a + PageItems <= b
<1> DEFINE x == a \div PageItems
           y == b \div PageItems
<1>1. x \in Nat /\ y \in Nat /\ a = x * PageItems /\ b = y * PageItems
  BY PageItemsAssumption DEF Offset
<1> HIDE DEF x, y
<1>2. x + 1 <= y
  BY <1>1, PageItemsAssumption
<1>3. \A k \in Nat : (x + 1) * PageItems <= (x + 1 + k) * PageItems
  BY <1>1, PageItemsAssumption
<1>4. y - (x + 1) \in Nat /\ y = x + 1 + (y - (x + 1))
  BY <1>1, <1>2
<1>5. (x + 1) * PageItems <= y * PageItems
  BY <1>3, <1>4, Zenon
<1> QED BY <1>1, <1>5, PageItemsAssumption

(* The table index that belongs to the place of table entry i is i. *)
LEMMA IndexOfPlaceOf ==
  ASSUME NEW i \in Nat \ {0}
  PROVE  /\ PlaceOf(i) \in Nat \ {0} /\ Offset(PlaceOf(i)) # 0 /\ IndexOf(PlaceOf(i)) = i
         /\ i <= PlaceOf(i)
<1> DEFINE q == (i - 1) \div (PageItems - 1)
           r == (i - 1) % (PageItems - 1)
<1>1. q \in Nat /\ r \in 0 .. PageItems - 2 /\ i = q * (PageItems - 1) + r + 1
  <2> DEFINE k == i - 1
             c == PageItems - 1
  <2>1. k \in Nat /\ c \in Nat /\ c > 0
    BY PageItemsAssumption
  <2> HIDE DEF k, c
  <2>2. k \div c \in Nat /\ k % c \in 0 .. c - 1 /\ k = (k \div c) * c + (k % c)
    BY <2>1, DivMod, Zenon
  <2> QED BY <2>2, PageItemsAssumption DEF k, c
<1> HIDE DEF q, r
<1>2. i + q = q * PageItems + (r + 1)
  BY <1>1, PageItemsAssumption
<1>3. (i + q) \div PageItems = q /\ (i + q) % PageItems = r + 1
  BY <1>1, <1>2, PageItemsAssumption
<1> QED BY <1>1, <1>3 DEF PlaceOf, IndexOf, Offset, q

(* The place of the table entry that belongs to place d is d. *)
LEMMA PlaceOfIndexOf ==
  ASSUME NEW d \in Nat, Offset(d) # 0
  PROVE  IndexOf(d) \in Nat \ {0} /\ PlaceOf(IndexOf(d)) = d
<1> DEFINE q == d \div PageItems
           r == d % PageItems
<1>1. q \in Nat /\ r \in 1 .. PageItems - 1 /\ d = q * PageItems + r
  BY PageItemsAssumption DEF Offset
<1> HIDE DEF q, r
<1>2. d - q = q * (PageItems - 1) + r /\ d - q \in Nat \ {0}
  BY <1>1, PageItemsAssumption
<1>3. (d - q - 1) \div (PageItems - 1) = q
  BY <1>1, <1>2, PageItemsAssumption
<1> QED BY <1>1, <1>2, <1>3 DEF PlaceOf, IndexOf, q

(* A later entry of the table has a later place. *)
LEMMA PlaceOfGrows ==
  ASSUME NEW i \in Nat \ {0}, NEW j \in Nat \ {0}, i < j
  PROVE  PlaceOf(i) < PlaceOf(j)
BY PageItemsAssumption DEF PlaceOf

(* One group of places after a pointer page is the next one. *)
LEMMA NextPointerPage ==
  ASSUME NEW a \in Nat, Offset(a) = 0
  PROVE  Offset(a + PageItems) = 0
BY PageItemsAssumption DEF PointerPage, Offset

(* A pointer page is the first place of its group. *)
LEMMA PointerOffset ==
  ASSUME NEW n \in Nat
  PROVE  PointerPage(n) \in 0 .. n /\ Offset(PointerPage(n)) = 0
<1>1. Offset(PointerPage(n)) = 0
  BY PageItemsAssumption DEF PointerPage, Offset
<1>2. PointerPage(n) \in 0 .. n
  BY Split, PageItemsAssumption
<1> QED BY <1>1, <1>2, Zenon

(* The next place is behind the same pointer page, unless the page is      *)
(* full.                                                                   *)
LEMMA NextPlace ==
  ASSUME NEW n \in Nat, Offset(n) # PageItems - 1
  PROVE  PointerPage(n + 1) = PointerPage(n) /\ Offset(n + 1) = Offset(n) + 1
<1>1. n + 1 = PointerPage(n) + (Offset(n) + 1) /\ Offset(n) + 1 \in 0 .. PageItems - 1
  BY Split, PageItemsAssumption, SMTT(30)
<1> QED BY <1>1, Split, PointerOffset, Join

(* Behind the last place of a pointer page is the next pointer page. *)
LEMMA LastPlace ==
  ASSUME NEW n \in Nat, Offset(n) = PageItems - 2
  PROVE  /\ PointerPage(n + 2) = n + 2 /\ Offset(n + 2) = 0
         /\ n + 2 = PointerPage(n) + PageItems
<1>1. n + 2 = PointerPage(n) + PageItems /\ n + 2 \in Nat
  BY Split, PageItemsAssumption
<1>2. Offset(n + 2) = 0
  BY <1>1, Split, PointerOffset, NextPointerPage, Zenon
<1> QED BY <1>1, <1>2, Split

(* An earlier place has the same pointer page, or an earlier one. *)
LEMMA PointerPageOrder ==
  ASSUME NEW n \in Nat, NEW d \in 0 .. n
  PROVE  \/ PointerPage(d) = PointerPage(n) /\ Offset(d) <= Offset(n)
         \/ PointerPage(d) + PageItems <= PointerPage(n)
<1>1. /\ PointerPage(d) \in Nat /\ Offset(d) \in 0 .. PageItems - 1
      /\ d = PointerPage(d) + Offset(d) /\ Offset(PointerPage(d)) = 0
  BY Split, PointerOffset
<1>2. /\ PointerPage(n) \in Nat /\ Offset(n) \in 0 .. PageItems - 1
      /\ n = PointerPage(n) + Offset(n) /\ Offset(PointerPage(n)) = 0
  BY Split, PointerOffset, Zenon
<1>3. PointerPage(d) < PointerPage(n) => PointerPage(d) + PageItems <= PointerPage(n)
  BY <1>1, <1>2, PointerPages, Zenon
<1>4. PointerPage(n) < PointerPage(d) => PointerPage(n) + PageItems <= PointerPage(d)
  BY <1>1, <1>2, PointerPages, Zenon
<1> QED BY <1>1, <1>2, <1>3, <1>4, PageItemsAssumption

(* The item of a taken place is in its pointer page. *)
LEMMA ItemThere ==
  ASSUME NEW n, Layout(n), NEW d \in Places(n)
  PROVE  /\ d \in Nat /\ PointerPage(d) \in 0 .. n /\ Offset(PointerPage(d)) = 0
         /\ Offset(d) \in 1 .. Len(FilePage(PointerPage(d)))
         /\ FilePage(PointerPage(d)) \in Seq(Pages) /\ Item(d) \in Pages
<1>1. n \in Nat /\ d \in 0 .. n /\ d \in Nat /\ Offset(d) # 0
  BY DEF Layout, Places
<1>2. /\ PointerPage(d) \in Nat /\ Offset(d) \in 0 .. PageItems - 1
      /\ d = PointerPage(d) + Offset(d) /\ Offset(PointerPage(d)) = 0
  BY <1>1, Split, PointerOffset, Zenon
<1>3. PointerPage(d) \in 0 .. n
  BY <1>1, <1>2, PageItemsAssumption
<1>4. Len(FilePage(PointerPage(d))) = IF PointerPage(d) = PointerPage(n) THEN Offset(n)
                                      ELSE PageItems - 1
  BY <1>2, <1>3, Zenon DEF Layout
<1>5. \/ PointerPage(d) = PointerPage(n) /\ Offset(d) <= Offset(n)
      \/ PointerPage(d) + PageItems <= PointerPage(n)
  BY <1>1, PointerPageOrder, Zenon
<1>6. Offset(n) \in 0 .. PageItems - 1 /\ PointerPage(n) \in Nat
  BY <1>1, Split, Zenon
<1>7. Offset(d) \in 1 .. Len(FilePage(PointerPage(d)))
  BY <1>1, <1>2, <1>4, <1>5, <1>6, PageItemsAssumption
<1>8. FilePage(PointerPage(d)) \in Seq(Pages)
  BY <1>1, <1>3 DEF Layout, FilePage
<1>9. Item(d) \in Pages
  BY <1>7, <1>8 DEF Item
<1> QED BY <1>1, <1>2, <1>3, <1>7, <1>8, <1>9, Zenon

-----------------------------------------------------------------------------
(* What a step of p does, seen from the other processes: the places that   *)
(* were taken stay so, and the table grows only while p has the lock.      *)
Frame(p) ==
  \A q \in Processes \ {p} :
    /\ alloc_table'[q] = alloc_table[q] /\ last_allocated_page'[q] = last_allocated_page[q]
    /\ alloc_buffer'[q] = alloc_buffer[q] /\ page'[q] = page[q]
    /\ diff_page'[q] = diff_page[q] /\ pc'[q] = pc[q]

(* The places that are taken keep their items, and no further place is     *)
(* taken unless p has the table locked for write.                          *)
FileStep(p, n, k) ==
  /\ n <= k /\ Len(file) <= Len(file')
  /\ \A d \in Places(n) : Item(d)' = Item(d)
  /\ \/ k = n /\ \A d \in 0 .. n : Offset(d) = 0 => FilePage(d)' = FilePage(d)
     \/ use[p] = Alloc!LCK_write /\ UNCHANGED fresh

(* What a step of p may do to the lock of the table. *)
LockStep(p) ==
  \/ UNCHANGED lock
  \/ \E v \in {Alloc!LCK_read, Alloc!LCK_write} : Alloc!Lock(p, v)
  \/ Unlock(p)
  \/ use' = [use EXCEPT ![p] = LCK_none] /\ fresh' = fresh \ {p}

(* The levels of the lock are different. *)
LEMMA Levels ==
  /\ Alloc!LCK_read # LCK_none /\ Alloc!LCK_write # LCK_none
  /\ Alloc!LCK_read # Alloc!LCK_write /\ Alloc!LCK_none = LCK_none
BY DEF Alloc!LCK_read, Alloc!LCK_write, Alloc!LCK_PR, Alloc!LCK_EX, LCK_none, Alloc!LCK_none

(* A step of p leaves the locks of the other processes as they are. *)
LEMMA LocksKept ==
  ASSUME TypeOK, \A q \in Processes : Locked(q), NEW p \in Processes, LockStep(p)
  PROVE  /\ use' \in [Processes -> {LCK_none, Alloc!LCK_read, Alloc!LCK_write}]
         /\ fresh' \subseteq Processes
         /\ \A q \in Processes \ {p} :
              /\ use'[q] = use[q] /\ (q \in fresh' => q \in fresh)
              /\ use[q] # LCK_none => q \in fresh'
              /\ use[q] = Alloc!LCK_write =>
                   fresh' = {q} /\ \A o \in Processes \ {q} : use'[o] = LCK_none
         /\ use'[p] = Alloc!LCK_write /\ p \in fresh' =>
              fresh' = {p} /\ \A q \in Processes \ {p} : use'[q] = LCK_none
<1> USE Levels
<1>1. CASE UNCHANGED lock
  BY <1>1, Zenon DEF lock, TypeOK, Locked
<1>2. ASSUME NEW v \in {Alloc!LCK_read, Alloc!LCK_write}, Alloc!Lock(p, v)
      PROVE  /\ use' = [use EXCEPT ![p] = v]
             /\ use[p] = LCK_none
             /\ \A q \in Processes : IF v = Alloc!LCK_write THEN use[q] = LCK_none
                                     ELSE use[q] # Alloc!LCK_write
             /\ fresh' = IF v = Alloc!LCK_write THEN {p} ELSE fresh \cup {p}
  BY <1>2, Zenon DEF Alloc!Lock
<1>3. ASSUME NEW v \in {Alloc!LCK_read, Alloc!LCK_write}, Alloc!Lock(p, v)
      PROVE  /\ use' \in [Processes -> {LCK_none, Alloc!LCK_read, Alloc!LCK_write}]
             /\ fresh' \subseteq Processes
             /\ \A q \in Processes \ {p} :
                  /\ use'[q] = use[q] /\ (q \in fresh' => q \in fresh)
                  /\ use[q] # LCK_none => q \in fresh'
                  /\ use[q] = Alloc!LCK_write =>
                       fresh' = {q} /\ \A o \in Processes \ {q} : use'[o] = LCK_none
             /\ use'[p] = Alloc!LCK_write =>
                  fresh' = {p} /\ \A q \in Processes \ {p} : use'[q] = LCK_none
  <2>1. /\ use' = [use EXCEPT ![p] = v]
        /\ use[p] = LCK_none
        /\ \A q \in Processes : IF v = Alloc!LCK_write THEN use[q] = LCK_none
                                ELSE use[q] # Alloc!LCK_write
        /\ fresh' = IF v = Alloc!LCK_write THEN {p} ELSE fresh \cup {p}
    BY <1>2, <1>3, Zenon
  <2>2. use'[p] = v /\ \A q \in Processes \ {p} : use'[q] = use[q]
    BY <2>1, Zenon DEF TypeOK
  <2>3. CASE v = Alloc!LCK_write
    BY <2>1, <2>2, <2>3, Zenon DEF TypeOK
  <2>4. CASE v = Alloc!LCK_read
    BY <2>1, <2>2, <2>4, Zenon DEF TypeOK, Locked
  <2> QED BY <2>3, <2>4, Zenon
<1>4. CASE Unlock(p)
  BY <1>4, Zenon DEF Unlock, TypeOK, Locked
<1>5. CASE use' = [use EXCEPT ![p] = LCK_none] /\ fresh' = fresh \ {p}
  BY <1>5, Zenon DEF TypeOK, Locked
<1> QED BY <1>1, <1>3, <1>4, <1>5, Zenon DEF LockStep

(* A step of p keeps what the other processes rely on. *)
LEMMA OthersKept ==
  ASSUME TypeOK, \A q \in Processes : Locked(q), NEW p \in Processes, LockStep(p), Frame(p),
         NEW n, Layout(n), NEW k \in Nat, FileStep(p, n, k),
         NEW q \in Processes \ {p}, Tree(q, n), Copy(q, n)
  PROVE  Tree(q, k)' /\ Copy(q, k)' /\ Locked(q)'
<1>1. /\ alloc_table'[q] = alloc_table[q] /\ last_allocated_page'[q] = last_allocated_page[q]
      /\ alloc_buffer'[q] = alloc_buffer[q] /\ page'[q] = page[q]
      /\ diff_page'[q] = diff_page[q] /\ pc'[q] = pc[q]
  BY Zenon DEF Frame
<1>2. /\ use'[q] = use[q] /\ (q \in fresh' => q \in fresh)
      /\ use[q] # LCK_none => q \in fresh'
      /\ use[q] = Alloc!LCK_write =>
           fresh' = {q} /\ \A o \in Processes \ {q} : use'[o] = LCK_none
  BY LocksKept, Zenon
<1>3. n \in Nat /\ n <= k /\ \A d \in Places(n) : Item(d)' = Item(d)
  BY Zenon DEF FileStep, Layout
<1>4. Places(n) \subseteq Places(k) /\ 0 .. n \subseteq 0 .. k
  BY <1>3 DEF Places
<1>0. PICK m \in Nat : m = last_allocated_page[q]
  BY Zenon DEF TypeOK
<1>5. m \in 0 .. n /\ Places(m) \subseteq Places(n)
  BY <1>0, <1>3 DEF Tree, Places
<1>6. Tree(q, k)'
  <2>1. {Item(d)' : d \in Places(m)} = {Item(d) : d \in Places(m)}
    BY <1>3, <1>5, Zenon
  <2> QED BY <1>0, <1>1, <1>3, <1>4, <1>5, <2>1, Zenon DEF Tree, Places
<1>7. Locked(q)'
  BY <1>1, <1>2, Zenon DEF Locked
<1>8. q \in fresh' => k = n /\ \A d \in 0 .. n : Offset(d) = 0 => FilePage(d)' = FilePage(d)
  <2>1. CASE use[p] = Alloc!LCK_write /\ UNCHANGED fresh
    BY <2>1, Zenon DEF Locked
  <2> QED BY <2>1, Zenon DEF FileStep
<1>9. pc[q] \in {"allocate", "pointer", "item", "register"} => q \in fresh'
  BY <1>2, Levels, Zenon DEF Locked
<1>10. /\ PointerPage(n) \in 0 .. n /\ Offset(PointerPage(n)) = 0
       /\ PointerPage(m) \in 0 .. n /\ Offset(PointerPage(m)) = 0
  BY <1>3, <1>5, PointerOffset
<1>11. Copy(q, k)'
  <2>1. CASE q \notin fresh'
    BY <1>1, <1>9, <2>1, Zenon DEF Copy
  <2>2. CASE q \in fresh'
    <3>1. /\ k = n /\ q \in fresh /\ FilePage(PointerPage(n))' = FilePage(PointerPage(n))
          /\ FilePage(PointerPage(m))' = FilePage(PointerPage(m))
      BY <1>2, <1>8, <1>10, <2>2, Zenon
    <3>2. \A i \in Nat : InFile(i) => InFile(i)'
      BY DEF FileStep, InFile, Layout
    <3>3. pc[q] = "register" => m + 1 \in Places(n)
      <4> SUFFICES ASSUME pc[q] = "register" PROVE m + 1 \in Places(n)
        OBVIOUS
      <4>1. m + 1 \in 1 .. n
        BY <1>0, <1>3, <1>5 DEF Copy
      <4>2. Offset(m + 1) # 0
        BY <1>0, <1>5, NextPlace, Split, SMTT(30) DEF Tree
      <4> QED BY <4>1, <4>2, Zenon DEF Places
    <3> QED BY <1>0, <1>1, <1>3, <3>1, <3>2, <3>3 DEF Copy
  <2> QED BY <2>1, <2>2, Zenon
<1> QED BY <1>6, <1>7, <1>11, Zenon

(* A step of p keeps the invariant when it keeps what concerns p and the   *)
(* file.                                                                   *)
LEMMA Kept ==
  ASSUME TypeOK, \A q \in Processes : Locked(q), NEW p \in Processes, LockStep(p), Frame(p),
         NEW n, Layout(n), NEW k \in Nat, FileStep(p, n, k),
         \A q \in Processes : Tree(q, n) /\ Copy(q, n),
         TypeOK', Layout(k)', Tree(p, k)', Copy(p, k)', Locked(p)'
  PROVE  IInv'
<1>1. \A q \in Processes \ {p} : Tree(q, k)' /\ Copy(q, k)' /\ Locked(q)'
  BY OthersKept, Zenon
<1>2. k \in 0 .. Len(file')
  BY DEF Layout
<1> QED BY <1>1, <1>2, Zenon DEF IInv

-----------------------------------------------------------------------------
(* The steps that leave the file alone. *)
LEMMA SameFile ==
  ASSUME NEW n, Layout(n), file' = file, NEW p
  PROVE  /\ Layout(n)' /\ FileStep(p, n, n)
         /\ \A d : Item(d)' = Item(d) /\ FilePage(d)' = FilePage(d) /\ (InFile(d)' <=> InFile(d))
<1>1. \A d : Item(d)' = Item(d) /\ FilePage(d)' = FilePage(d) /\ (InFile(d)' <=> InFile(d))
  BY Zenon DEF Item, FilePage, InFile
<1>2. Layout(n)'
  BY <1>1, Zenon DEF Layout
<1>3. FileStep(p, n, n)
  BY <1>1 DEF FileStep, Layout
<1> QED BY <1>1, <1>2, <1>3, Zenon

(* A step that leaves the file and what p knows alone. *)
LEMMA SameTree ==
  ASSUME NEW n, Layout(n), file' = file, NEW p \in Processes, Tree(p, n),
         alloc_table'[p] = alloc_table[p], last_allocated_page'[p] = last_allocated_page[p],
         diff_page'[p] = diff_page[p]
  PROVE  Tree(p, n)'
<1>1. \A d : Item(d)' = Item(d)
  BY SameFile, Zenon
<1>2. {Item(d)' : d \in Places(last_allocated_page[p])} = {Item(d) :
        d \in Places(last_allocated_page[p])}
  BY <1>1, Zenon
<1> QED BY <1>1, <1>2, Zenon DEF Tree, Places

(* A process wants to know the place of a page. *)
LEMMA set_diff_page_Step ==
  ASSUME IInv, NEW p \in Processes, NEW g \in Pages, set_diff_page(p, g)
  PROVE  IInv'
<1> USE Levels
<1>1. PICK n \in 0 .. Len(file) :
        Layout(n) /\ \A q \in Processes : Tree(q, n) /\ Copy(q, n)
  BY Zenon DEF IInv
<1>2. /\ TypeOK /\ \A q \in Processes : Locked(q)
  BY Zenon DEF IInv
<1>3. /\ pc[p] = "idle" /\ Alloc!Lock(p, Alloc!LCK_read) /\ page' = [page EXCEPT ![p] = g]
      /\ pc' = [pc EXCEPT ![p] = IF p \in fresh THEN "look" ELSE "fetch"]
      /\ UNCHANGED <<file, table, diff_page, bounds>>
  BY Zenon DEF set_diff_page, LockAlloc, Goto
<1>4. use' = [use EXCEPT ![p] = Alloc!LCK_read] /\ fresh' = fresh \cup {p}
  BY <1>3, Zenon DEF Alloc!Lock
<1>5. LockStep(p)
  BY <1>3, Zenon DEF LockStep
<1>6. Frame(p)
  BY <1>2, <1>3, Zenon DEF Frame, table, TypeOK
<1>7. Layout(n)' /\ FileStep(p, n, n) /\ Tree(p, n)'
  BY <1>1, <1>3, SameFile, SameTree, Zenon DEF table
<1>8. TypeOK'
  BY <1>2, <1>3, <1>5, LocksKept, Zenon DEF TypeOK, table
<1>9. Locked(p)' /\ pc'[p] \in {"look", "fetch"}
  BY <1>2, <1>3, <1>4, Zenon DEF Locked, TypeOK
<1>10. Copy(p, n)'
  <2>1. pc'[p] = "look" => p \in fresh
    BY <1>2, <1>3, Zenon DEF TypeOK
  <2>2. /\ last_allocated_page'[p] = last_allocated_page[p] /\ alloc_buffer'[p] = alloc_buffer[p]
        /\ FilePage(PointerPage(n))' = FilePage(PointerPage(n))
    BY <1>1, <1>3, SameFile, Zenon DEF table
  <2> QED BY <1>1, <1>3, <1>9, <2>1, <2>2, Zenon DEF Copy
<1> QED BY <1>1, <1>2, <1>5, <1>6, <1>7, <1>8, <1>9, <1>10, Kept

(* The table is locked for write. *)
LEMMA lock_alloc_write_Step ==
  ASSUME IInv, NEW p \in Processes, lock_alloc_write(p)
  PROVE  IInv'
<1> USE Levels
<1>1. PICK n \in 0 .. Len(file) :
        Layout(n) /\ \A q \in Processes : Tree(q, n) /\ Copy(q, n)
  BY Zenon DEF IInv
<1>2. /\ TypeOK /\ \A q \in Processes : Locked(q)
  BY Zenon DEF IInv
<1>3. /\ pc[p] = "lock" /\ Alloc!Lock(p, Alloc!LCK_write)
      /\ pc' = [pc EXCEPT ![p] = "fetch"]
      /\ UNCHANGED <<file, table, page, diff_page, bounds>>
  BY Zenon DEF lock_alloc_write, LockAlloc, Goto
<1>4. use' = [use EXCEPT ![p] = Alloc!LCK_write] /\ fresh' = {p}
  BY <1>3, Zenon DEF Alloc!Lock
<1>5. LockStep(p)
  BY <1>3, Zenon DEF LockStep
<1>6. Frame(p)
  BY <1>2, <1>3, Zenon DEF Frame, table, TypeOK
<1>7. Layout(n)' /\ FileStep(p, n, n) /\ Tree(p, n)'
  BY <1>1, <1>3, SameFile, SameTree, Zenon DEF table
<1>8. TypeOK'
  BY <1>2, <1>3, <1>5, LocksKept, Zenon DEF TypeOK, table
<1>9. Locked(p)' /\ pc'[p] = "fetch"
  <2>1. fresh' = {p} /\ \A q \in Processes \ {p} : use'[q] = LCK_none
    BY <1>2, <1>4, <1>5, LocksKept, Zenon DEF TypeOK
  <2> QED BY <1>2, <1>3, <1>4, <2>1, Zenon DEF Locked, TypeOK
<1>10. Copy(p, n)'
  BY <1>9, Zenon DEF Copy
<1> QED BY <1>1, <1>2, <1>5, <1>6, <1>7, <1>8, <1>9, <1>10, Kept

(* The place of the page was found in the table. *)
LEMMA FoundTree ==
  ASSUME TypeOK, NEW n, Layout(n), file' = file, NEW p \in Processes, Tree(p, n),
         NEW d \in Places(n), Item(d) = page[p], Found(p, d),
         alloc_table'[p] = alloc_table[p], last_allocated_page'[p] = last_allocated_page[p]
  PROVE  Tree(p, n)'
<1>1. \A e : Item(e)' = Item(e)
  BY SameFile, Zenon
<1>2. {Item(e)' : e \in Places(last_allocated_page[p])} = {Item(e) :
        e \in Places(last_allocated_page[p])}
  BY <1>1, Zenon
<1>3. diff_page'[p] = [g \in DOMAIN diff_page[p] \cup {page[p]} |->
                          IF g = page[p] THEN d ELSE diff_page[p][g]]
  BY Zenon DEF Found, TypeOK
<1>4. page[p] \in Pages
  BY ItemThere, Zenon
<1> QED BY <1>1, <1>2, <1>3, <1>4 DEF Tree, Places

(* A page in the tree of a process has its place. *)
LEMMA InTable ==
  ASSUME NEW p, NEW n, Layout(n), Tree(p, n), NEW g \in DOMAIN alloc_table[p]
  PROVE  /\ alloc_table[p][g] \in Places(n) /\
              alloc_table[p][g] \in Places(last_allocated_page[p])
         /\ Item(alloc_table[p][g]) = g
<1>1. PICK d \in Places(last_allocated_page[p]) : g = Item(d)
  BY Zenon DEF Tree
<1>2. Places(last_allocated_page[p]) \subseteq Places(n)
  BY DEF Tree, Layout, Places
<1> QED BY <1>1, <1>2, Zenon DEF Tree

(* The page is in the tree, or the table is to be locked for write. *)
LEMMA get_page_index_Step ==
  ASSUME IInv, NEW p \in Processes, get_page_index(p)
  PROVE  IInv'
<1> USE Levels
<1>1. PICK n \in 0 .. Len(file) :
        Layout(n) /\ \A q \in Processes : Tree(q, n) /\ Copy(q, n)
  BY Zenon DEF IInv
<1>2. /\ TypeOK /\ \A q \in Processes : Locked(q)
  BY Zenon DEF IInv
<1>3. /\ pc[p] = "look" /\ Unlock(p) /\ UNCHANGED <<file, table, bounds>>
      /\ use' = [use EXCEPT ![p] = LCK_none] /\ fresh' = fresh
  BY Zenon DEF get_page_index, Unlock
<1>4. LockStep(p)
  BY <1>3, Zenon DEF LockStep
<1>5. /\ alloc_table'[p] = alloc_table[p] /\ last_allocated_page'[p] = last_allocated_page[p]
      /\ alloc_buffer'[p] = alloc_buffer[p]
      /\ FilePage(PointerPage(n))' = FilePage(PointerPage(n))
      /\ Layout(n)' /\ FileStep(p, n, n)
  BY <1>1, <1>3, SameFile, Zenon DEF table
<1>6. CASE page[p] \in DOMAIN alloc_table[p]
  <2>1. Found(p, alloc_table[p][page[p]])
    BY <1>6, Zenon DEF get_page_index
  <2>2. Tree(p, n)'
    BY <1>1, <1>2, <1>3, <1>5, <1>6, <2>1, InTable, FoundTree, Zenon
  <2>3. TypeOK' /\ pc'[p] = "idle" /\ Frame(p)
    BY <1>2, <1>3, <1>4, <2>1, LocksKept, Zenon DEF TypeOK, table, Found, Goto, Frame
  <2>4. Locked(p)'
    BY <1>2, <1>3, <2>3, Zenon DEF Locked, TypeOK
  <2>5. Copy(p, n)'
    BY <1>1, <1>3, <1>5, <2>3, Zenon DEF Copy
  <2> QED BY <1>1, <1>2, <1>4, <1>5, <2>2, <2>3, <2>4, <2>5, Kept
<1>7. CASE page[p] \notin DOMAIN alloc_table[p]
  <2>1. pc' = [pc EXCEPT ![p] = "lock"] /\ UNCHANGED <<page, diff_page>>
    BY <1>7, Zenon DEF get_page_index, Goto
  <2>2. Tree(p, n)'
    BY <1>1, <1>3, <1>5, <2>1, SameTree, Zenon
  <2>3. TypeOK' /\ pc'[p] = "lock" /\ Frame(p)
    BY <1>2, <1>3, <1>4, <2>1, LocksKept, Zenon DEF TypeOK, table, Frame
  <2>4. Locked(p)'
    BY <1>2, <1>3, <2>3, Zenon DEF Locked, TypeOK
  <2>5. Copy(p, n)'
    BY <1>1, <1>3, <1>5, <2>3, Zenon DEF Copy
  <2> QED BY <1>1, <1>2, <1>4, <1>5, <2>2, <2>3, <2>4, <2>5, Kept
<1> QED BY <1>6, <1>7, Zenon

-----------------------------------------------------------------------------
(* The file grows by empty pages behind the table. *)
LEMMA WrittenFile ==
  ASSUME file \in Seq(Seq(Pages)), NEW k \in 0 .. Len(file), NEW x \in Seq(Pages),
         file' = Written(k, x)
  PROVE  /\ file' \in Seq(Seq(Pages))
         /\ Len(file') = IF k = Len(file) THEN k + 1 ELSE Len(file)
         /\ FilePage(k)' = x
         /\ \A d \in 0 .. Len(file) - 1 : d # k => FilePage(d)' = FilePage(d)
<1>1. CASE k = Len(file)
  <2>1. file' = Append(file, x)
    BY <1>1 DEF Written, InFile
  <2>2. /\ file' \in Seq(Seq(Pages)) /\ Len(file') = Len(file) + 1 /\ file'[Len(file) + 1] = x
        /\ \A i \in 1 .. Len(file) : file'[i] = file[i]
    <3>1. /\ Append(file, x) \in Seq(Seq(Pages)) /\ Len(Append(file, x)) = Len(file) + 1
          /\ Append(file, x)[Len(file) + 1] = x
          /\ \A i \in 1 .. Len(file) : Append(file, x)[i] = file[i]
      BY Appended
    <3> QED BY <2>1, <3>1, Zenon
  <2>3. \A d \in 0 .. Len(file) - 1 : d + 1 \in 1 .. Len(file)
    OBVIOUS
  <2> QED BY <1>1, <2>2, <2>3, Zenon DEF FilePage
<1>2. CASE k # Len(file)
  <2>1. file' = [file EXCEPT ![k + 1] = x] /\ k + 1 \in 1 .. Len(file)
    BY <1>2 DEF Written, InFile
  <2> QED BY <1>2, <2>1 DEF FilePage
<1> QED BY <1>1, <1>2, Zenon

(* An empty page behind the last place changes no item. *)
LEMMA EmptyPage ==
  ASSUME NEW n, Layout(n), NEW p, NEW j \in n .. n + 1, NEW k, k = j + 1, InFile(j),
         j = n + 1 => Offset(n) = PageItems - 2,
         file' = Written(k, Empty)
  PROVE  /\ Layout(n)' /\ FileStep(p, n, n) /\ InFile(k)'
         /\ \A d \in Nat : InFile(d) => InFile(d)'
         /\ \A d \in 0 .. n : FilePage(d)' = FilePage(d)
<1>1. /\ n \in Nat /\ file \in Seq(Seq(Pages)) /\ Len(file) \in n + 1 .. n + 3
      /\ k \in 0 .. Len(file) /\ Empty \in Seq(Pages) /\ Len(file) \in Nat
  BY DEF Layout, InFile, Empty
<1>2. /\ file' \in Seq(Seq(Pages))
      /\ Len(file') = IF k = Len(file) THEN k + 1 ELSE Len(file)
      /\ FilePage(k)' = Empty
      /\ \A d \in 0 .. Len(file) - 1 : d # k => FilePage(d)' = FilePage(d)
  BY <1>1, WrittenFile, Zenon
<1>3. /\ Len(file') \in n + 1 .. n + 3 /\ (Len(file') = n + 3 => Offset(n) = PageItems - 2)
      /\ Len(file) <= Len(file') /\ k < Len(file')
  <2>1. Len(file) = n + 3 => Offset(n) = PageItems - 2
    BY Zenon DEF Layout
  <2> QED BY <1>1, <1>2, <2>1, SMTT(30)
<1>4. \A d \in 0 .. n : FilePage(d)' = FilePage(d)
  <2>1. \A d \in 0 .. n : d \in 0 .. Len(file) - 1 /\ d # k
    BY <1>1
  <2> QED BY <1>2, <2>1, Zenon
<1>5. \A d \in n + 1 .. Len(file') - 1 : FilePage(d)' = Empty
  <2>1. \A d \in n + 1 .. Len(file') - 1 : d = k \/ d \in n + 1 .. Len(file) - 1
    BY <1>1, <1>2, SMTT(30)
  <2>2. \A d \in n + 1 .. Len(file) - 1 : FilePage(d) = Empty /\ d \in 0 .. Len(file) - 1
    BY <1>1 DEF Layout
  <2> QED BY <1>2, <2>1, <2>2, Zenon
<1>6. \A d \in Places(n) : Item(d)' = Item(d) /\ FilePage(d)' = FilePage(d)
  BY <1>4, ItemThere DEF Item, Places
<1>7. Layout(n)'
  BY <1>1, <1>2, <1>3, <1>4, <1>5, <1>6, Zenon DEF Layout
<1>8. FileStep(p, n, n)
  BY <1>1, <1>3, <1>4, <1>6 DEF FileStep
<1>9. InFile(k)' /\ \A d \in Nat : InFile(d) => InFile(d)'
  <2>1. DOMAIN file = 1 .. Len(file) /\ DOMAIN file' = 1 .. Len(file') /\ Len(file') \in Nat
    BY <1>1, <1>2
  <2>2. k \in Nat /\ k + 1 \in 1 .. Len(file') /\ 1 .. Len(file) \subseteq 1 .. Len(file')
    BY <1>1, <1>3, <2>1, SMTT(30)
  <2> QED BY <2>1, <2>2, Zenon DEF InFile
<1> QED BY <1>4, <1>7, <1>8, <1>9, Zenon

(* The tree of a process depends on the pointer pages only. *)
LEMMA KeptTree ==
  ASSUME NEW p, NEW n, n \in Nat, Tree(p, n), \A d \in Places(n) : Item(d)' = Item(d),
         alloc_table'[p] = alloc_table[p], last_allocated_page'[p] = last_allocated_page[p],
         diff_page'[p] = diff_page[p]
  PROVE  Tree(p, n)'
<1>1. Places(last_allocated_page[p]) \subseteq Places(n)
  BY DEF Tree, Places
<1>2. {Item(d)' : d \in Places(last_allocated_page[p])} = {Item(d) :
        d \in Places(last_allocated_page[p])}
  BY <1>1, Zenon
<1> QED BY <1>1, <1>2, Zenon DEF Tree, Places

(* The file grows by a page, unless another process has added the page. *)
LEMMA allocate_difference_page_Step ==
  ASSUME IInv, NEW p \in Processes, allocate_difference_page(p)
  PROVE  IInv'
<1> USE Levels
<1>1. PICK n \in 0 .. Len(file) :
        Layout(n) /\ \A q \in Processes : Tree(q, n) /\ Copy(q, n)
  BY Zenon DEF IInv
<1>2. /\ TypeOK /\ \A q \in Processes : Locked(q)
  BY Zenon DEF IInv
<1>3. /\ pc[p] = "allocate" /\ UNCHANGED <<table, bounds>> /\ n \in Nat
      /\ p \in fresh /\ use[p] = Alloc!LCK_write
      /\ last_allocated_page[p] = n /\ alloc_buffer[p] = FilePage(PointerPage(n))
  BY <1>1, <1>2, Zenon DEF allocate_difference_page, Copy, Locked, Layout
<1>4. /\ alloc_table'[p] = alloc_table[p] /\ last_allocated_page'[p] = last_allocated_page[p]
      /\ alloc_buffer'[p] = alloc_buffer[p]
  BY <1>3, Zenon DEF table
<1>5. CASE page[p] \in DOMAIN alloc_table[p]
  <2>1. /\ Found(p, alloc_table[p][page[p]]) /\ Unlock(p) /\ file' = file
        /\ use' = [use EXCEPT ![p] = LCK_none] /\ fresh' = fresh
    BY <1>5, Zenon DEF allocate_difference_page, Unlock
  <2>2. Tree(p, n)' /\ LockStep(p) /\ Layout(n)' /\ FileStep(p, n, n)
    BY <1>1, <1>2, <1>3, <1>4, <1>5, <2>1, InTable, FoundTree, SameFile, Zenon DEF LockStep
  <2>3. TypeOK' /\ pc'[p] = "idle" /\ Frame(p)
    BY <1>2, <1>3, <2>1, <2>2, LocksKept, Zenon DEF TypeOK, table, Found, Goto, Frame
  <2>4. Locked(p)'
    BY <1>2, <2>1, <2>3, Zenon DEF Locked, TypeOK
  <2>5. Copy(p, n)'
    BY <1>1, <1>3, <1>4, <2>1, <2>3, SameFile, Zenon DEF Copy
  <2> QED BY <1>1, <1>2, <1>3, <2>2, <2>3, <2>4, <2>5, Kept, Zenon
<1>6. CASE page[p] \notin DOMAIN alloc_table[p]
  <2>1. /\ file' = Written(n + 1, Empty) /\ UNCHANGED <<lock, page, diff_page>>
        /\ pc' = [pc EXCEPT ![p] =
             IF alloc_page_full(Len(alloc_buffer[p])) THEN "pointer" ELSE "item"]
    BY <1>3, <1>6, Zenon DEF allocate_difference_page, Goto
  <2>2. Len(alloc_buffer[p]) = Offset(n)
    BY <1>1, <1>3, PointerOffset, Zenon DEF Layout
  <2>3. /\ Layout(n)' /\ FileStep(p, n, n) /\ InFile(n + 1)'
        /\ \A d \in 0 .. n : FilePage(d)' = FilePage(d)
    <3>1. InFile(n) /\ n \in n .. n + 1 /\ n # n + 1
      BY <1>1, <1>3 DEF Layout, InFile
    <3> QED BY <1>1, <2>1, <3>1, EmptyPage, Zenon
  <2>4. Tree(p, n)' /\ LockStep(p)
    BY <1>1, <1>3, <1>4, <2>1, <2>3, KeptTree, Zenon DEF FileStep, LockStep
  <2>5. TypeOK' /\ Frame(p) /\ pc'[p] = IF Offset(n) = PageItems - 2 THEN "pointer" ELSE "item"
    BY <1>2, <1>3, <2>1, <2>2, Zenon DEF TypeOK, table, lock, Frame, alloc_page_full
  <2>6. Locked(p)'
    BY <1>2, <1>3, <2>1, <2>5, SMTT(30) DEF Locked, lock
  <2>7. Copy(p, n)'
    <3>1. FilePage(PointerPage(n))' = FilePage(PointerPage(n))
      BY <1>3, <2>3, PointerOffset, Zenon
    <3> QED BY <1>3, <1>4, <1>6, <2>1, <2>3, <2>5, <3>1 DEF Copy, lock
  <2> QED BY <1>1, <1>2, <1>3, <2>3, <2>4, <2>5, <2>6, <2>7, Kept, Zenon
<1> QED BY <1>5, <1>6, Zenon

(* The file grows by a pointer page. *)
LEMMA allocate_pointer_page_Step ==
  ASSUME IInv, NEW p \in Processes, allocate_pointer_page(p)
  PROVE  IInv'
<1> USE Levels
<1>1. PICK n \in 0 .. Len(file) :
        Layout(n) /\ \A q \in Processes : Tree(q, n) /\ Copy(q, n)
  BY Zenon DEF IInv
<1>2. /\ TypeOK /\ \A q \in Processes : Locked(q)
  BY Zenon DEF IInv
<1>3. /\ pc[p] = "pointer" /\ n \in Nat /\ p \in fresh /\ use[p] = Alloc!LCK_write
      /\ last_allocated_page[p] = n /\ alloc_buffer[p] = FilePage(PointerPage(n))
      /\ page[p] \notin DOMAIN alloc_table[p] /\ InFile(n + 1) /\ Offset(n) = PageItems - 2
  BY <1>1, <1>2, Zenon DEF allocate_pointer_page, Copy, Locked, Layout
<1>4. /\ file' = Written(n + 2, Empty) /\ pc' = [pc EXCEPT ![p] = "item"]
      /\ UNCHANGED <<lock, table, page, diff_page, bounds>>
  BY <1>3, Zenon DEF allocate_pointer_page, Goto
<1>5. /\ Layout(n)' /\ FileStep(p, n, n) /\ InFile(n + 2)' /\ InFile(n + 1)'
      /\ \A d \in 0 .. n : FilePage(d)' = FilePage(d)
  <2>1. n + 2 = (n + 1) + 1 /\ n + 1 \in Nat /\ n + 1 \in n .. n + 1
    BY <1>3
  <2> QED BY <1>1, <1>3, <1>4, <2>1, EmptyPage, Zenon
<1>6. Tree(p, n)' /\ LockStep(p)
  BY <1>1, <1>3, <1>4, <1>5, KeptTree, Zenon DEF FileStep, LockStep, table
<1>7. TypeOK' /\ Frame(p) /\ pc'[p] = "item"
  BY <1>2, <1>3, <1>4, Zenon DEF TypeOK, table, lock, Frame
<1>8. Locked(p)'
  BY <1>2, <1>3, <1>4, <1>7, Zenon DEF Locked, lock
<1>9. Copy(p, n)'
  <2>1. FilePage(PointerPage(n))' = FilePage(PointerPage(n))
    BY <1>3, <1>5, PointerOffset, Zenon
  <2> QED BY <1>3, <1>4, <1>5, <1>7, <2>1, Zenon DEF Copy, lock, table
<1> QED BY <1>1, <1>2, <1>3, <1>5, <1>6, <1>7, <1>8, <1>9, Kept, Zenon

-----------------------------------------------------------------------------
(* The table grows by the page at m + 1, and beyond the pointer page that  *)
(* follows it, if any. *)
After(m) == IF Offset(m) = PageItems - 2 THEN m + 2 ELSE m + 1

(* The places when one more is taken. *)
LEMMA AfterPlaces ==
  ASSUME NEW m \in Nat, Offset(m) # PageItems - 1
  PROVE  /\ After(m) \in Nat /\ Offset(After(m)) # PageItems - 1 /\ m + 1 <= After(m)
         /\ PointerPage(m + 1) = PointerPage(m) /\ Offset(m + 1) = Offset(m) + 1
         /\ Places(After(m)) = Places(m) \cup {m + 1} /\ m + 1 \notin Places(m)
         /\ Offset(m) = PageItems - 2 =>
              After(m) = m + 2 /\ PointerPage(After(m)) = m + 2 /\ Offset(After(m)) = 0
         /\ Offset(m) # PageItems - 2 =>
              /\ After(m) = m + 1 /\ PointerPage(After(m)) = PointerPage(m)
              /\ Offset(After(m)) = Offset(m) + 1
<1>1. /\ PointerPage(m + 1) = PointerPage(m) /\ Offset(m + 1) = Offset(m) + 1
      /\ Offset(m) \in 0 .. PageItems - 1 /\ Offset(m + 1) # 0
  BY NextPlace, Split
<1>2. 1 .. m + 1 = 1 .. m \cup {m + 1} /\ 1 .. m + 2 =
        1 .. m \cup {m + 1, m + 2} /\ m + 1 \notin 1 .. m
  OBVIOUS
<1>3. CASE Offset(m) = PageItems - 2
  <2>1. After(m) = m + 2 /\ PointerPage(m + 2) = m + 2 /\ Offset(m + 2) = 0
    BY <1>3, LastPlace, Zenon DEF After
  <2>2. Places(m + 2) = Places(m) \cup {m + 1} /\ m + 1 \notin Places(m)
    BY <1>1, <1>2, <2>1, Zenon DEF Places
  <2> QED BY <1>1, <1>3, <2>1, <2>2, PageItemsAssumption
<1>4. CASE Offset(m) # PageItems - 2
  <2>1. After(m) = m + 1
    BY <1>4, Zenon DEF After
  <2>2. Places(m + 1) = Places(m) \cup {m + 1} /\ m + 1 \notin Places(m)
    BY <1>1, <1>2, Zenon DEF Places
  <2> QED BY <1>1, <1>4, <2>1, <2>2, PageItemsAssumption
<1> QED BY <1>3, <1>4, Zenon

(* The pointer page takes one more item. *)
LEMMA NewItem ==
  ASSUME NEW n, Layout(n), NEW g \in Pages, \A d \in Places(n) : Item(d) # g,
         InFile(n + 1), Offset(n) = PageItems - 2 => InFile(n + 2),
         file' = Written(PointerPage(n), Append(FilePage(PointerPage(n)), g))
  PROVE  /\ Layout(After(n))' /\ Len(file') = Len(file)
         /\ FilePage(PointerPage(n))' = Append(FilePage(PointerPage(n)), g)
         /\ Item(n + 1)' = g /\ \A d \in Places(n) : Item(d)' = Item(d)
<1> DEFINE start == PointerPage(n)
           items == Append(FilePage(start), g)
           k == After(n)
<1>1. /\ n \in Nat /\ file \in Seq(Seq(Pages)) /\ Len(file) \in n + 1 .. n + 3
      /\ Offset(n) # PageItems - 1 /\ Len(file) \in Nat
  BY DEF Layout
<1>2. start \in 0 .. n /\ Offset(start) = 0 /\ start \in 0 .. Len(file) /\ start # Len(file)
  <2>1. PointerPage(n) \in 0 .. n /\ Offset(PointerPage(n)) = 0
    BY <1>1, PointerOffset, Zenon
  <2> QED BY <1>1, <2>1
<1>3. FilePage(start) \in Seq(Pages) /\ Len(FilePage(start)) = Offset(n)
  BY <1>1, <1>2 DEF Layout, FilePage
<1>4. /\ items \in Seq(Pages) /\ Len(items) = Offset(n) + 1 /\ items[Offset(n) + 1] = g
      /\ \A i \in 1 .. Len(FilePage(start)) : items[i] = FilePage(start)[i]
  BY <1>3, Appended
<1>5. /\ file' \in Seq(Seq(Pages)) /\ Len(file') = Len(file) /\ FilePage(start)' = items
      /\ \A d \in 0 .. Len(file) - 1 : d # start => FilePage(d)' = FilePage(d)
  BY <1>1, <1>2, <1>4, WrittenFile, Zenon
<1>6. \A d \in Places(n) : Item(d)' = Item(d)
  <2> SUFFICES ASSUME NEW d \in Places(n) PROVE Item(d)' = Item(d)
    OBVIOUS
  <2>1. /\ PointerPage(d) \in 0 .. n /\ Offset(d) \in 1 .. Len(FilePage(PointerPage(d)))
    BY ItemThere, Zenon
  <2>2. CASE PointerPage(d) = start
    BY <1>4, <1>5, <2>1, <2>2, Zenon DEF Item
  <2>3. CASE PointerPage(d) # start
    <3>1. PointerPage(d) \in 0 .. Len(file) - 1
      BY <1>1, <2>1
    <3> QED BY <1>5, <2>3, <3>1, Zenon DEF Item
  <2> QED BY <2>2, <2>3, Zenon
<1>7. /\ k \in Nat /\ Offset(k) # PageItems - 1 /\ PointerPage(n + 1) = start
      /\ Offset(n + 1) = Offset(n) + 1
      /\ Places(k) = Places(n) \cup {n + 1} /\ n + 1 \notin Places(n)
      /\ Offset(n) = PageItems - 2 => k = n + 2 /\ PointerPage(k) = n + 2 /\ Offset(k) = 0
      /\ Offset(n) # PageItems - 2 =>
           k = n + 1 /\ PointerPage(k) = start /\ Offset(k) = Offset(n) + 1
  BY <1>1, AfterPlaces, Zenon
<1> HIDE DEF k
<1>8. Item(n + 1)' = g
  BY <1>4, <1>5, <1>7, Zenon DEF Item
<1>9. Len(file) = k + 1
  <2>1. DOMAIN file = 1 .. Len(file)
    BY <1>1
  <2>2. n + 2 \in 1 .. Len(file) /\ (Offset(n) = PageItems - 2 => n + 3 \in 1 .. Len(file))
    <3>1. (n + 1) + 1 = n + 2 /\ (n + 2) + 1 = n + 3
      BY <1>1
    <3> QED BY <2>1, <3>1, Zenon DEF InFile
  <2>3. Len(file) = n + 3 => Offset(n) = PageItems - 2
    BY Zenon DEF Layout
  <2> QED BY <1>1, <1>7, <2>2, <2>3, SMTT(30)
<1>10. \A d \in 0 .. k : Offset(d) = 0 =>
         (Len(FilePage(d)) = IF d = PointerPage(k) THEN Offset(k) ELSE PageItems - 1)'
  <2> SUFFICES ASSUME NEW d \in 0 .. k, Offset(d) = 0
               PROVE  Len(FilePage(d)') = IF d = PointerPage(k) THEN Offset(k) ELSE PageItems - 1
    OBVIOUS
  <2>1. CASE d = start
    <3>1. Len(FilePage(d)') = Offset(n) + 1
      BY <1>4, <1>5, <2>1, Zenon
    <3>2. Offset(n) \in Nat
      BY <1>1, Split
    <3>3. CASE Offset(n) = PageItems - 2
      <4>1. d # PointerPage(k)
        BY <1>1, <1>2, <1>7, <2>1, <3>3
      <4> QED BY <3>1, <3>3, <4>1, PageItemsAssumption
    <3>4. CASE Offset(n) # PageItems - 2
      BY <1>7, <2>1, <3>1, <3>4, Zenon
    <3> QED BY <3>3, <3>4, Zenon
  <2>2. CASE d # start /\ d <= n
    <3>1. d \in 0 .. n /\ d \in 0 .. Len(file) - 1 /\ d # PointerPage(k)
      BY <1>1, <1>7, <2>2, SMTT(30)
    <3>2. Len(FilePage(d)) = PageItems - 1
      BY <2>2, <3>1, Zenon DEF Layout
    <3> QED BY <1>5, <2>2, <3>1, <3>2, Zenon
  <2>3. CASE d > n
    <3>1. d # n + 1
      <4>1. Offset(n) \in Nat
        BY <1>1, Split
      <4> QED BY <1>7, <4>1
    <3>2. d = n + 2 /\ d = k /\ PointerPage(k) = n + 2 /\ Offset(k) = 0
      BY <1>1, <1>7, <2>3, <3>1
    <3>3. d \in n + 1 .. Len(file) - 1 /\ d \in 0 .. Len(file) - 1 /\ d # start
      BY <1>1, <1>2, <1>9, <3>2
    <3>4. FilePage(d)' = <<>>
      BY <1>5, <3>3, Zenon DEF Layout, Empty
    <3> QED BY <3>2, <3>4, Zenon
  <2> QED BY <1>1, <2>1, <2>2, <2>3
<1>11. \A d \in Places(k) : (FilePage(d) \in {Empty, <<Item(d)>>})'
  <2>1. FilePage(n + 1)' = Empty
    <3>1. n + 1 \in n + 1 .. Len(file) - 1 /\ n + 1 \in 0 .. Len(file) - 1 /\ n + 1 # start
      BY <1>1, <1>2, <1>7, <1>9
    <3> QED BY <1>5, <3>1, Zenon DEF Layout
  <2>2. ASSUME NEW d \in Places(n) PROVE FilePage(d)' \in {Empty, <<Item(d)'>>}
    <3>1. d \in 0 .. Len(file) - 1 /\ d # start
      BY <1>1, <1>2, SMTT(30) DEF Places
    <3> QED BY <1>5, <1>6, <3>1, Zenon DEF Layout
  <2> QED BY <1>7, <2>1, <2>2, Zenon
<1>12. \A d, e \in Places(k) : (Item(d) = Item(e))' => d = e
  BY <1>6, <1>7, <1>8, ZenonT(30) DEF Layout
<1>13. Layout(k)'
  <2>1. \A d \in k + 1 .. Len(file') - 1 : FilePage(d)' = Empty
    BY <1>5, <1>7, <1>9
  <2>2. Len(file') \in k + 1 .. k + 3 /\ Len(file') # k + 3
    BY <1>5, <1>7, <1>9
  <2> QED BY <1>5, <1>7, <1>10, <1>11, <1>12, <2>1, <2>2, Zenon DEF Layout
<1> QED BY <1>5, <1>6, <1>8, <1>13, Zenon DEF k

(* The item is written into the pointer page. *)
LEMMA allocate_item_Step ==
  ASSUME IInv, NEW p \in Processes, allocate_item(p)
  PROVE  IInv'
<1> USE Levels
<1>1. PICK n \in 0 .. Len(file) :
        Layout(n) /\ \A q \in Processes : Tree(q, n) /\ Copy(q, n)
  BY Zenon DEF IInv
<1>2. /\ TypeOK /\ \A q \in Processes : Locked(q)
  BY Zenon DEF IInv
<1>3. /\ pc[p] = "item" /\ n \in Nat /\ p \in fresh /\ use[p] = Alloc!LCK_write
      /\ last_allocated_page[p] = n /\ alloc_buffer[p] = FilePage(PointerPage(n))
      /\ page[p] \notin DOMAIN alloc_table[p] /\ InFile(n + 1) /\ page[p] \in Pages
      /\ Offset(n) = PageItems - 2 => InFile(n + 2)
      /\ Offset(n) # PageItems - 1
  <2>1. pc[p] = "item" /\ n \in Nat /\ use[p] = Alloc!LCK_write /\ p \in fresh
    BY <1>1, <1>2, Zenon DEF allocate_item, Locked, Layout, LCK_none, Alloc!LCK_write
  <2>2. /\ last_allocated_page[p] = n /\ alloc_buffer[p] = FilePage(PointerPage(n))
        /\ page[p] \notin DOMAIN alloc_table[p] /\ InFile(n + 1)
        /\ Offset(n) = PageItems - 2 => InFile(n + 2)
    BY <1>1, <2>1, Zenon DEF Copy
  <2> QED
    BY <1>1, <1>2, <2>1, <2>2, Zenon DEF Layout, TypeOK
<1>4. /\ file' = Written(PointerPage(n), Append(FilePage(PointerPage(n)), page[p]))
      /\ alloc_buffer' = [alloc_buffer EXCEPT ![p] = Append(FilePage(PointerPage(n)), page[p])]
      /\ pc' = [pc EXCEPT ![p] = "register"]
      /\ UNCHANGED <<lock, alloc_table, last_allocated_page, page, diff_page, bounds>>
  BY <1>3, Zenon DEF allocate_item, Goto
<1>5. \A d \in Places(n) : Item(d) # page[p]
  BY <1>1, <1>3 DEF Tree
<1>6. /\ Layout(After(n))' /\ Len(file') = Len(file)
      /\ FilePage(PointerPage(n))' = Append(FilePage(PointerPage(n)), page[p])
      /\ Item(n + 1)' = page[p] /\ \A d \in Places(n) : Item(d)' = Item(d)
  BY <1>1, <1>3, <1>4, <1>5, NewItem, Zenon
<1>7. After(n) \in Nat /\ n + 1 <= After(n) /\ n <= After(n) /\
        Places(n) \subseteq Places(After(n))
  BY <1>3, AfterPlaces, SMTT(30)
<1>8. FileStep(p, n, After(n)) /\ LockStep(p)
  BY <1>3, <1>4, <1>6, <1>7, SMTT(30) DEF FileStep, LockStep, lock, Layout
<1>9. Tree(p, After(n))'
  <2>1. Tree(p, n)'
    BY <1>1, <1>3, <1>4, <1>6, KeptTree, Zenon
  <2> QED BY <1>3, <1>7, <2>1 DEF Tree
<1>10. TypeOK' /\ Frame(p) /\ pc'[p] = "register"
  <2>1. Append(FilePage(PointerPage(n)), page[p]) \in Seq(Pages)
    BY <1>2, <1>3, Appended, Zenon DEF TypeOK
  <2> QED BY <1>2, <1>3, <1>4, <2>1, Zenon DEF TypeOK, lock, Frame
<1>11. Locked(p)'
  BY <1>2, <1>3, <1>4, <1>10, Zenon DEF Locked, lock
<1>12. Copy(p, After(n))'
  <2>1. /\ last_allocated_page'[p] = n /\ page'[p] = page[p]
        /\ alloc_buffer'[p] = Append(FilePage(PointerPage(n)), page[p])
    BY <1>2, <1>3, <1>4, Zenon DEF TypeOK
  <2> QED BY <1>6, <1>10, <2>1, Zenon DEF Copy, After
<1> QED BY <1>1, <1>2, <1>3, <1>6, <1>7, <1>8, <1>9, <1>10, <1>11, <1>12, Kept, Zenon

(* The process takes note of the new place. *)
LEMMA allocate_register_Step ==
  ASSUME IInv, NEW p \in Processes, allocate_register(p)
  PROVE  IInv'
<1> USE Levels
<1>1. PICK n \in 0 .. Len(file) :
        Layout(n) /\ \A q \in Processes : Tree(q, n) /\ Copy(q, n)
  BY Zenon DEF IInv
<1>2. /\ TypeOK /\ \A q \in Processes : Locked(q)
  BY Zenon DEF IInv
<1>3. PICK m \in Nat : m = last_allocated_page[p]
  BY <1>2, Zenon DEF TypeOK
<1>4. /\ pc[p] = "register" /\ n \in Nat /\ m \in 0 .. n /\ Offset(m) # PageItems - 1
      /\ n = After(m) /\ alloc_buffer[p] = FilePage(PointerPage(m)) /\ page[p] = Item(m + 1)
      /\ page[p] \in Pages
  BY <1>1, <1>2, <1>3, Zenon DEF allocate_register, Copy, Layout, TypeOK, After, Tree
<1>5. /\ PointerPage(m + 1) = PointerPage(m) /\ Offset(m + 1) = Offset(m) + 1
      /\ Places(n) = Places(m) \cup {m + 1} /\ m + 1 \notin Places(m)
      /\ Offset(m) = PageItems - 2 => n = m + 2 /\ PointerPage(n) = n /\ Offset(n) = 0
      /\ Offset(m) # PageItems - 2 =>
           n = m + 1 /\ PointerPage(n) = PointerPage(m) /\ Offset(n) = Offset(m) + 1
  BY <1>4, AfterPlaces, Zenon
<1>6. Offset(m) \in Nat /\ PointerPage(m) \in 0 .. n /\ Offset(PointerPage(m)) = 0
      /\ PointerPage(m) \in 0 .. m
  <2>1. Offset(m) \in 0 .. PageItems - 1
    BY Split, Zenon
  <2>2. PointerPage(m) \in 0 .. m /\ Offset(PointerPage(m)) = 0
    BY PointerOffset, Zenon
  <2> QED BY <1>4, <2>1, <2>2, PageItemsAssumption
<1>7. Len(alloc_buffer[p]) = Offset(m) + 1
  <2>1. CASE Offset(m) = PageItems - 2
    <3>1. PointerPage(m) # PointerPage(n)
      BY <1>4, <1>5, <1>6, <2>1
    <3> QED BY <1>1, <1>4, <1>6, <2>1, <3>1, PageItemsAssumption, SMTT(30) DEF Layout
  <2>2. CASE Offset(m) # PageItems - 2
    BY <1>1, <1>4, <1>5, <1>6, <2>2, Zenon DEF Layout
  <2> QED BY <2>1, <2>2, Zenon
<1>8. alloc_page_full(Len(alloc_buffer[p]) - 1) <=> Offset(m) = PageItems - 2
  BY <1>6, <1>7, PageItemsAssumption DEF alloc_page_full
<1>9. /\ alloc_table' = [alloc_table EXCEPT ![p] =
           [g \in DOMAIN @ \cup {page[p]} |-> IF g = page[p] THEN m + 1 ELSE @[g]]]
      /\ last_allocated_page' = [last_allocated_page EXCEPT ![p] = n]
      /\ alloc_buffer' = [alloc_buffer EXCEPT ![p] =
           IF Offset(m) = PageItems - 2 THEN Empty ELSE @]
      /\ Found(p, m + 1) /\ Unlock(p) /\ file' = file
      /\ use' = [use EXCEPT ![p] = LCK_none] /\ fresh' = fresh
  <2>1. n = IF alloc_page_full(Len(alloc_buffer[p]) - 1) THEN (m + 1) + 1 ELSE m + 1
    BY <1>4, <1>5, <1>8
  <2>2. /\ alloc_table' = [alloc_table EXCEPT ![p] =
             [g \in DOMAIN @ \cup {page[p]} |-> IF g = page[p] THEN m + 1 ELSE @[g]]]
        /\ last_allocated_page' = [last_allocated_page EXCEPT ![p] =
             IF alloc_page_full(Len(alloc_buffer[p]) - 1) THEN (m + 1) + 1 ELSE m + 1]
        /\ alloc_buffer' = [alloc_buffer EXCEPT ![p] =
             IF alloc_page_full(Len(alloc_buffer[p]) - 1) THEN Empty ELSE @]
        /\ Found(p, m + 1) /\ Unlock(p) /\ file' = file
    BY <1>3, Zenon DEF allocate_register
  <2> QED BY <1>8, <2>1, <2>2, Zenon DEF Unlock
<1>10. Layout(n)' /\ FileStep(p, n, n) /\ LockStep(p) /\ \A d : Item(d)' = Item(d)
  BY <1>1, <1>9, SameFile, Zenon DEF LockStep
<1>11. alloc_buffer'[p] = FilePage(PointerPage(n))' /\ alloc_buffer'[p] \in Seq(Pages)
  <2>1. FilePage(PointerPage(n))' = FilePage(PointerPage(n))
    BY <1>1, <1>9, SameFile, Zenon
  <2>2. CASE Offset(m) = PageItems - 2
    <3>1. n \in 0 .. n /\ n + 1 \in 1 .. Len(file)
      BY <1>1, <1>4 DEF Layout
    <3>2. Len(FilePage(n)) = 0 /\ FilePage(n) \in Seq(Pages)
      BY <1>1, <1>5, <2>2, <3>1, SMTT(30) DEF Layout, FilePage
    <3>3. FilePage(n) = Empty
      BY <3>2, NotEmpty, Zenon DEF Empty
    <3> QED BY <1>2, <1>5, <1>9, <2>1, <2>2, <3>2, <3>3, Zenon DEF TypeOK
  <2>3. CASE Offset(m) # PageItems - 2
    BY <1>2, <1>4, <1>5, <1>9, <2>1, <2>3, Zenon DEF TypeOK
  <2> QED BY <2>2, <2>3, Zenon
<1>12. TypeOK' /\ Frame(p) /\ pc'[p] = "idle"
  <2>1. alloc_buffer' \in [Processes -> Seq(Pages)]
    BY <1>2, <1>9, <1>11, Zenon DEF TypeOK
  <2>2. /\ use' \in [Processes -> {LCK_none, Alloc!LCK_read, Alloc!LCK_write}]
        /\ fresh' \subseteq Processes
    BY <1>2, <1>10, LocksKept, Zenon
  <2> QED BY <1>2, <1>4, <1>9, <2>1, <2>2, Zenon DEF TypeOK, Found, Goto, Frame
<1>13. Locked(p)'
  BY <1>2, <1>9, <1>12, Zenon DEF Locked, TypeOK
<1>14. last_allocated_page'[p] = n
  BY <1>2, <1>9, Zenon DEF TypeOK
<1>15. Copy(p, n)'
  BY <1>11, <1>12, <1>14, Zenon DEF Copy
<1>16. Tree(p, n)'
  <2>1. /\ alloc_table'[p] = [g \in DOMAIN alloc_table[p] \cup {page[p]} |->
                                IF g = page[p] THEN m + 1 ELSE alloc_table[p][g]]
        /\ diff_page'[p] = [g \in DOMAIN diff_page[p] \cup {page[p]} |->
                                IF g = page[p] THEN m + 1 ELSE diff_page[p][g]]
    BY <1>2, <1>9, Zenon DEF TypeOK, Found
  <2>2. /\ DOMAIN alloc_table[p] = {Item(d) : d \in Places(m)}
        /\ \A d \in Places(m) : alloc_table[p][Item(d)] = d
        /\ DOMAIN diff_page[p] \subseteq Pages
        /\ \A g \in DOMAIN diff_page[p] :
             diff_page[p][g] \in Places(n) /\ Item(diff_page[p][g]) = g
    BY <1>1, <1>3, Zenon DEF Tree
  <2>3. DOMAIN alloc_table'[p] = {Item(d)' : d \in Places(n)}
    BY <1>4, <1>5, <1>10, <2>1, <2>2
  <2>4. \A d \in Places(n) : alloc_table'[p][Item(d)'] = d
    <3> SUFFICES ASSUME NEW d \in Places(n) PROVE alloc_table'[p][Item(d)] = d
      BY <1>10, Zenon
    <3>1. CASE d = m + 1
      BY <1>4, <2>1, <3>1, Zenon
    <3>2. CASE d \in Places(m)
      <4>1. Item(d) # page[p]
        BY <1>1, <1>4, <1>5, <3>2, Zenon DEF Layout
      <4> QED BY <2>1, <2>2, <3>2, <4>1
    <3> QED BY <1>5, <3>1, <3>2, Zenon
  <2>5. \A g \in DOMAIN diff_page'[p] :
          g \in Pages /\ diff_page'[p][g] \in Places(n) /\ Item(diff_page'[p][g]) = g
    BY <1>4, <1>5, <2>1, <2>2, Zenon
  <2>6. n \in 0 .. n /\ Offset(n) # PageItems - 1
    BY <1>1, <1>4 DEF Layout
  <2> QED BY <1>10, <1>14, <2>3, <2>4, <2>5, <2>6, Zenon DEF Tree
<1> QED BY <1>1, <1>2, <1>4, <1>10, <1>12, <1>13, <1>15, <1>16, Kept, Zenon

(* A write fails, and the lock is given up. *)
LEMMA allocate_fails_Step ==
  ASSUME IInv, NEW p \in Processes, allocate_fails(p)
  PROVE  IInv'
<1> USE Levels
<1>1. PICK n \in 0 .. Len(file) :
        Layout(n) /\ \A q \in Processes : Tree(q, n) /\ Copy(q, n)
  BY Zenon DEF IInv
<1>2. /\ TypeOK /\ \A q \in Processes : Locked(q)
  BY Zenon DEF IInv
<1>3. /\ pc[p] \in {"allocate", "pointer", "item"}
      /\ alloc_buffer' = [alloc_buffer EXCEPT ![p] =
                            IF pc[p] = "item" THEN Append(@, page[p]) ELSE @]
      /\ page' = [page EXCEPT ![p] = NULL] /\ pc' = [pc EXCEPT ![p] = "idle"]
      /\ use' = [use EXCEPT ![p] = LCK_none] /\ fresh' = fresh /\ Unlock(p)
      /\ UNCHANGED <<file, alloc_table, last_allocated_page, diff_page>>
  BY Zenon DEF allocate_fails, Goto, Unlock
<1>4. alloc_buffer' \in [Processes -> Seq(Pages)]
  <2>1. alloc_buffer[p] \in Seq(Pages) /\ page[p] \in Pages
    BY <1>2, <1>3, Zenon DEF TypeOK
  <2>2. Append(alloc_buffer[p], page[p]) \in Seq(Pages)
    BY <2>1, Appended, Zenon
  <2> QED BY <1>2, <1>3, <2>1, <2>2, Zenon DEF TypeOK
<1>5. Layout(n)' /\ FileStep(p, n, n) /\ LockStep(p) /\ Tree(p, n)'
      /\ FilePage(PointerPage(n))' = FilePage(PointerPage(n)) /\ n \in Nat
  BY <1>1, <1>3, SameFile, SameTree, Zenon DEF LockStep, Layout
<1>6. TypeOK' /\ Frame(p) /\ pc'[p] = "idle"
  BY <1>2, <1>3, <1>4, <1>5, LocksKept, Zenon DEF TypeOK, Frame
<1>7. Locked(p)'
  BY <1>2, <1>3, <1>6, Zenon DEF Locked, TypeOK
<1>8. Copy(p, n)'
  <2>1. p \in fresh /\ last_allocated_page[p] = n
    BY <1>1, <1>2, <1>3, Zenon DEF Copy, Locked
  <2> QED BY <1>3, <1>6, <2>1, Zenon DEF Copy
<1> QED BY <1>1, <1>2, <1>5, <1>6, <1>7, <1>8, Kept, Zenon

(* A process dies. *)
LEMMA crash_Step ==
  ASSUME IInv, NEW p \in Processes, crash(p)
  PROVE  IInv'
<1> USE Levels
<1>1. PICK n \in 0 .. Len(file) :
        Layout(n) /\ \A q \in Processes : Tree(q, n) /\ Copy(q, n)
  BY Zenon DEF IInv
<1>2. /\ TypeOK /\ \A q \in Processes : Locked(q)
  BY Zenon DEF IInv
<1>3. /\ use' = [use EXCEPT ![p] = LCK_none] /\ fresh' = fresh \ {p}
      /\ alloc_table' = [alloc_table EXCEPT ![p] = <<>>]
      /\ last_allocated_page' = [last_allocated_page EXCEPT ![p] = 0]
      /\ alloc_buffer' = [alloc_buffer EXCEPT ![p] = Empty]
      /\ page' = [page EXCEPT ![p] = NULL]
      /\ diff_page' = [diff_page EXCEPT ![p] = <<>>]
      /\ pc' = [pc EXCEPT ![p] = "idle"] /\ file' = file
  BY Zenon DEF crash, Goto
<1>4. Layout(n)' /\ FileStep(p, n, n) /\ LockStep(p) /\ n \in Nat
  BY <1>1, <1>3, SameFile, Zenon DEF LockStep, Layout
<1>5. TypeOK' /\ Frame(p) /\ pc'[p] = "idle" /\ p \notin fresh'
  <2>1. Empty \in Seq(Pages)
    BY DEF Empty
  <2> QED BY <1>2, <1>3, <1>4, <2>1, LocksKept, Zenon DEF TypeOK, Frame
<1>6. Locked(p)' /\ Copy(p, n)'
  BY <1>2, <1>3, <1>5, Zenon DEF Locked, TypeOK, Copy
<1>7. Tree(p, n)'
  <2>1. last_allocated_page'[p] = 0 /\ alloc_table'[p] = <<>> /\ diff_page'[p] = <<>>
    BY <1>2, <1>3, Zenon DEF TypeOK
  <2>2. Places(0) = {}
    BY DEF Places
  <2>3. DOMAIN <<>> = {}
    OBVIOUS
  <2>4. 0 \in 0 .. n /\ Offset(0) # PageItems - 1
    BY <1>4, PageItemsAssumption, PointerOffset, Split, SMTT(30)
  <2> QED BY <2>1, <2>2, <2>3, <2>4, Zenon DEF Tree
<1> QED BY <1>1, <1>2, <1>4, <1>5, <1>6, <1>7, Kept, Zenon

(* A page is written to its place. *)
LEMMA PageWritten ==
  ASSUME NEW n, Layout(n), NEW d \in Places(n), file' = Written(d, <<Item(d)>>), NEW p
  PROVE  /\ Layout(n)' /\ FileStep(p, n, n)
         /\ \A e \in 0 .. n : Offset(e) = 0 => FilePage(e)' = FilePage(e)
         /\ \A e \in Places(n) : Item(e)' = Item(e)
<1>1. /\ n \in Nat /\ file \in Seq(Seq(Pages)) /\ Len(file) \in n + 1 .. n + 3
      /\ Len(file) \in Nat /\ <<Item(d)>> \in Seq(Pages)
  <2>1. Item(d) \in Pages
    BY ItemThere, Zenon
  <2> QED BY <2>1 DEF Layout
<1>2. d \in 0 .. Len(file) /\ d # Len(file) /\ d <= n /\ Offset(d) # 0
  BY <1>1 DEF Places
<1>3. /\ file' \in Seq(Seq(Pages)) /\ Len(file') = Len(file) /\ FilePage(d)' = <<Item(d)>>
      /\ \A e \in 0 .. Len(file) - 1 : e # d => FilePage(e)' = FilePage(e)
  BY <1>1, <1>2, WrittenFile, Zenon
<1>4. \A e \in 0 .. n : e \in 0 .. Len(file) - 1 /\ (Offset(e) = 0 => FilePage(e)' = FilePage(e))
  <2>1. \A e \in 0 .. n : e \in 0 .. Len(file) - 1
    BY <1>1
  <2> QED BY <1>2, <1>3, <2>1, Zenon
<1>5. \A e \in Places(n) : Item(e)' = Item(e)
  BY <1>1, <1>4, ItemThere, PointerOffset, Zenon DEF Item, Places
<1>6. Layout(n)'
  <2>1. \A e \in n + 1 .. Len(file') - 1 : FilePage(e)' = Empty
    <3>1. \A e \in n + 1 .. Len(file') - 1 :
            e \in n + 1 .. Len(file) - 1 /\ e \in 0 .. Len(file) - 1 /\ e # d
      BY <1>1, <1>2, <1>3
    <3> QED BY <1>3, <3>1, Zenon DEF Layout
  <2>2. \A e \in Places(n) : FilePage(e)' \in {Empty, <<Item(e)'>>}
    <3> SUFFICES ASSUME NEW e \in Places(n) PROVE FilePage(e)' \in {Empty, <<Item(e)>>}
      BY <1>5, Zenon
    <3>1. CASE e = d
      BY <1>3, <3>1, Zenon
    <3>2. CASE e # d
      BY <1>1, <1>3, <1>4, <3>2 DEF Layout, Places
    <3> QED BY <3>1, <3>2, Zenon
  <2>3. \A e \in 0 .. n : Offset(e) = 0 =>
          Len(FilePage(e)') = IF e = PointerPage(n) THEN Offset(n) ELSE PageItems - 1
    BY <1>4, Zenon DEF Layout
  <2> QED BY <1>3, <1>5, <2>1, <2>2, <2>3, Zenon DEF Layout
<1>7. FileStep(p, n, n)
  BY <1>1, <1>3, <1>4, <1>5 DEF FileStep
<1> QED BY <1>4, <1>5, <1>6, <1>7, Zenon

(* A page is written to its place. *)
LEMMA write_difference_Step ==
  ASSUME IInv, NEW p \in Processes, NEW g \in Pages, write_difference(p, g)
  PROVE  IInv'
<1> USE Levels
<1>1. PICK n \in 0 .. Len(file) :
        Layout(n) /\ \A q \in Processes : Tree(q, n) /\ Copy(q, n)
  BY Zenon DEF IInv
<1>2. /\ TypeOK /\ \A q \in Processes : Locked(q) /\ n \in Nat
  BY <1>1, Zenon DEF IInv, Layout
<1>3. PICK d \in Places(n) : d = diff_page[p][g] /\ Item(d) = g
  BY <1>1, Zenon DEF write_difference, Tree
<1>4. /\ pc[p] = "idle" /\ file' = Written(d, <<Item(d)>>)
      /\ diff_page' = [diff_page EXCEPT ![p] = Restrict(@, DOMAIN @ \ {g})]
      /\ UNCHANGED <<lock, table, page, pc, bounds>>
  BY <1>3, Zenon DEF write_difference
<1>5. /\ Layout(n)' /\ FileStep(p, n, n)
      /\ \A e \in 0 .. n : Offset(e) = 0 => FilePage(e)' = FilePage(e)
      /\ \A e \in Places(n) : Item(e)' = Item(e)
  BY <1>1, <1>4, PageWritten, Zenon
<1>6. LockStep(p)
  BY <1>4, Zenon DEF LockStep
<1>7. TypeOK' /\ Frame(p)
  BY <1>2, <1>4, Zenon DEF TypeOK, Frame, table, lock
<1>8. Locked(p)'
  BY <1>2, <1>4, Zenon DEF Locked, lock
<1>9. Copy(p, n)'
  <2>1. FilePage(PointerPage(n))' = FilePage(PointerPage(n))
    BY <1>2, <1>5, PointerOffset, Zenon
  <2> QED BY <1>1, <1>4, <2>1, Zenon DEF Copy, lock, table
<1>10. Tree(p, n)'
  <2>1. /\ DOMAIN diff_page'[p] = DOMAIN diff_page[p] \ {g}
        /\ \A h \in DOMAIN diff_page'[p] : diff_page'[p][h] = diff_page[p][h]
    BY <1>2, <1>4, Zenon DEF TypeOK, Restrict
  <2>2. Places(last_allocated_page[p]) \subseteq Places(n)
    BY <1>1, <1>2 DEF Tree, Places
  <2>3. {Item(e)' : e \in Places(last_allocated_page[p])} = {Item(e) :
          e \in Places(last_allocated_page[p])}
    BY <1>5, <2>2, Zenon
  <2>4. alloc_table' = alloc_table /\ last_allocated_page' = last_allocated_page
    BY <1>4, Zenon DEF table
  <2> QED BY <1>1, <1>5, <2>1, <2>2, <2>3, <2>4 DEF Tree, Places
<1> QED BY <1>1, <1>2, <1>5, <1>6, <1>7, <1>8, <1>9, <1>10, Kept, Zenon

-----------------------------------------------------------------------------
(* Where a reader of the table is behind the len items of pointer page a. *)
Behind(a, len) == a + len + IF len = PageItems - 1 THEN 1 ELSE 0

(* A reader of the table takes the rest of a pointer page. *)
LEMMA RestOfPage ==
  ASSUME NEW m \in Nat, NEW a, a = PointerPage(m), NEW len \in Offset(m) .. PageItems - 1,
         NEW e, e = Behind(a, len)
  PROVE  /\ e \in Nat /\ m <= e /\ Offset(e) # PageItems - 1
         /\ \A i \in Offset(m) + 1 .. len : PointerPage(a + i) = a /\ Offset(a + i) = i
         /\ Places(e) = Places(m) \cup {a + i : i \in Offset(m) + 1 .. len}
<1>1. a \in Nat /\ Offset(a) = 0 /\ Offset(m) \in 0 .. PageItems - 1 /\ m = a + Offset(m)
  BY Split, PointerOffset, Zenon
<1>2. len \in 0 .. PageItems - 1 /\ e \in Nat /\ m <= e
  BY <1>1, PageItemsAssumption DEF Behind
<1>3. \A i \in Offset(m) + 1 .. len : PointerPage(a + i) = a /\ Offset(a + i) = i
  <2>1. \A i \in Offset(m) + 1 .. len : i \in 0 .. PageItems - 1
    BY <1>1, <1>2, PageItemsAssumption
  <2> QED BY <1>1, <2>1, Join, Zenon
<1>4. Offset(e) # PageItems - 1 /\ (len = PageItems - 1 => Offset(e) = 0)
  <2>1. CASE len = PageItems - 1
    <3>1. e = a + PageItems
      BY <1>1, <2>1, PageItemsAssumption DEF Behind
    <3> QED BY <1>1, <3>1, NextPointerPage, PageItemsAssumption
  <2>2. CASE len # PageItems - 1
    <3>1. e = a + len
      BY <1>1, <1>2, <2>2 DEF Behind
    <3> QED BY <1>1, <1>2, <2>2, <3>1, Join
  <2> QED BY <2>1, <2>2, Zenon
<1>5. Places(e) \subseteq Places(m) \cup {a + i : i \in Offset(m) + 1 .. len}
  <2> SUFFICES ASSUME NEW d \in 1 .. e, Offset(d) # 0, d \notin 1 .. m
               PROVE  \E i \in Offset(m) + 1 .. len : d = a + i
    BY Zenon DEF Places
  <2>1. d \in Nat /\ m < d /\ d <= e
    BY <1>2
  <2>2. d <= a + len
    BY <1>1, <1>2, <1>4, <2>1 DEF Behind
  <2>3. d - a \in Offset(m) + 1 .. len /\ d = a + (d - a)
    BY <1>1, <1>2, <2>1, <2>2
  <2> QED BY <2>3, Zenon
<1>6. Places(m) \subseteq Places(e)
  BY <1>2 DEF Places
<1>7. \A i \in Offset(m) + 1 .. len : a + i \in Places(e)
  <2> SUFFICES ASSUME NEW i \in Offset(m) + 1 .. len PROVE a + i \in Places(e)
    OBVIOUS
  <2>1. a + i \in 1 .. e /\ i # 0
    BY <1>1, <1>2 DEF Behind
  <2> QED BY <1>3, <2>1, Zenon DEF Places
<1> QED BY <1>2, <1>3, <1>4, <1>5, <1>6, <1>7, Zenon

(* A process reads the pointer pages that it does not know. *)
LEMMA actualize_alloc_Step ==
  ASSUME IInv, NEW p \in Processes, actualize_alloc(p)
  PROVE  IInv'
<1> USE Levels
<1>1. PICK n \in 0 .. Len(file) :
        Layout(n) /\ \A q \in Processes : Tree(q, n) /\ Copy(q, n)
  BY Zenon DEF IInv
<1>2. /\ TypeOK /\ \A q \in Processes : Locked(q)
  BY Zenon DEF IInv
<1>3. PICK m \in Nat : m = last_allocated_page[p]
  BY <1>2, Zenon DEF TypeOK
<1> DEFINE a == PointerPage(last_allocated_page[p])
           items == FilePage(a)
           new == {i \in DOMAIN items : i > last_allocated_page[p] - a}
           e == a + Len(items) + IF Len(items) = PageItems - 1 THEN 1 ELSE 0
<1>4. /\ pc[p] = "fetch"
      /\ alloc_buffer' = [alloc_buffer EXCEPT ![p] = items]
      /\ alloc_table' = [alloc_table EXCEPT ![p] =
           [g \in DOMAIN @ \cup {items[i] : i \in new} |->
              IF \E i \in new : items[i] = g
              THEN a + CHOOSE i \in new : items[i] = g
              ELSE @[g]]]
      /\ last_allocated_page' = [last_allocated_page EXCEPT ![p] = e]
      /\ IF Len(items) = PageItems - 1 THEN UNCHANGED pc
         ELSE Goto(p, IF use[p] = Alloc!LCK_read THEN "look" ELSE "allocate")
      /\ UNCHANGED <<file, lock, page, diff_page, bounds>>
  BY Zenon DEF actualize_alloc
<1>5. a = PointerPage(m)
  BY <1>3, Zenon
<1>6. items = FilePage(a)
  OBVIOUS
<1>7. new = {i \in DOMAIN items : i > m - a}
  BY <1>3, Zenon
<1>8. e = a + Len(items) + IF Len(items) = PageItems - 1 THEN 1 ELSE 0
  OBVIOUS
<1> HIDE DEF a, items, new, e
<1>9. /\ n \in Nat /\ m \in 0 .. n /\ Offset(m) # PageItems - 1 /\ p \in fresh
      /\ use[p] \in {Alloc!LCK_read, Alloc!LCK_write}
      /\ file \in Seq(Seq(Pages)) /\ Len(file) \in n + 1 .. n + 3
  BY <1>1, <1>2, <1>3, <1>4, Zenon DEF Tree, Layout, Locked, TypeOK
<1>10. /\ a \in 0 .. n /\ Offset(a) = 0 /\ Offset(m) \in 0 .. PageItems - 1
       /\ m = a + Offset(m)
  <2>1. /\ a \in 0 .. m /\ Offset(a) = 0 /\ Offset(m) \in 0 .. PageItems - 1
        /\ m = a + Offset(m)
    BY <1>5, Split, PointerOffset, Zenon
  <2> QED BY <1>9, <2>1
<1>11. items \in Seq(Pages)
  BY <1>6, <1>9, <1>10 DEF FilePage
<1>12. \/ a = PointerPage(n) /\ Len(items) = Offset(n) /\ Offset(n) # PageItems - 1 /\ e = n
          /\ Len(items) \in Offset(m) .. PageItems - 1
       \/ Len(items) = PageItems - 1 /\ e <= n /\ Len(items) \in Offset(m) .. PageItems - 1
  <2>1. /\ Len(items) = IF a = PointerPage(n) THEN Offset(n) ELSE PageItems - 1
        /\ Offset(n) # PageItems - 1
    BY <1>1, <1>6, <1>10, Zenon DEF Layout
  <2>2. Offset(n) \in 0 .. PageItems - 1 /\ n =
          PointerPage(n) + Offset(n) /\ PointerPage(n) \in Nat
    BY <1>9, Split, Zenon
  <2>3. \/ a = PointerPage(n) /\ Offset(m) <= Offset(n)
        \/ a + PageItems <= PointerPage(n)
    BY <1>5, <1>9, PointerPageOrder, Zenon
  <2>4. CASE a = PointerPage(n) /\ Offset(m) <= Offset(n)
    BY <1>8, <1>10, <2>1, <2>2, <2>4, PageItemsAssumption
  <2>5. CASE a + PageItems <= PointerPage(n)
    BY <1>8, <1>10, <2>1, <2>2, <2>5, PageItemsAssumption, SMTT(30)
  <2> QED BY <2>3, <2>4, <2>5, Zenon
<1>13. /\ e \in Nat /\ m <= e /\ Offset(e) # PageItems - 1
       /\ \A i \in Offset(m) + 1 .. Len(items) : PointerPage(a + i) = a /\ Offset(a + i) = i
       /\ Places(e) = Places(m) \cup {a + i : i \in Offset(m) + 1 .. Len(items)}
  <2>1. Len(items) \in Offset(m) .. PageItems - 1
    BY <1>12, Zenon
  <2>2. e = Behind(a, Len(items))
    BY <1>8, Zenon DEF Behind
  <2> QED BY <1>5, <2>1, <2>2, RestOfPage, SMT
<1>14. new = Offset(m) + 1 .. Len(items)
  BY <1>7, <1>9, <1>10, <1>11, SMTT(30)
<1>15. \A i \in new : Item(a + i) = items[i]
  BY <1>6, <1>13, <1>14, Zenon DEF Item
<1>16. e \in 0 .. n /\ Places(e) \subseteq Places(n)
  BY <1>9, <1>12, <1>13 DEF Places
<1>17. Layout(n)' /\ FileStep(p, n, n) /\ LockStep(p)
       /\ (\A d : Item(d)' = Item(d)) /\ FilePage(PointerPage(n))' = FilePage(PointerPage(n))
  BY <1>1, <1>4, SameFile, Zenon DEF LockStep
<1>18. Tree(p, n)'
  <2>1. /\ alloc_table'[p] = [g \in DOMAIN alloc_table[p] \cup {items[i] : i \in new} |->
              IF \E i \in new : items[i] = g
              THEN a + CHOOSE i \in new : items[i] = g
              ELSE alloc_table[p][g]]
        /\ last_allocated_page'[p] = e /\ diff_page' = diff_page
    BY <1>2, <1>4, Zenon DEF TypeOK
  <2>2. /\ DOMAIN alloc_table[p] = {Item(d) : d \in Places(m)}
        /\ \A d \in Places(m) : alloc_table[p][Item(d)] = d
        /\ DOMAIN diff_page[p] \subseteq Pages
        /\ \A g \in DOMAIN diff_page[p] :
             diff_page[p][g] \in Places(n) /\ Item(diff_page[p][g]) = g
    BY <1>1, <1>3, Zenon DEF Tree
  <2>3. DOMAIN alloc_table'[p] = {Item(d) : d \in Places(e)}
    BY <1>13, <1>14, <1>15, <2>1, <2>2
  <2>4. \A d \in Places(e) : alloc_table'[p][Item(d)] = d
    <3> SUFFICES ASSUME NEW d \in Places(e) PROVE alloc_table'[p][Item(d)] = d
      OBVIOUS
    <3>1. Item(d) \in DOMAIN alloc_table[p] \cup {items[i] : i \in new}
      BY <2>1, <2>3, ZenonT(30)
    <3>2. ASSUME NEW i \in new, items[i] = Item(d) PROVE d = a + i
      <4>1. a + i \in Places(n) /\ d \in Places(n) /\ Item(a + i) = Item(d)
        BY <1>13, <1>14, <1>15, <1>16, <3>2, Zenon
      <4> QED BY <1>1, <4>1, Zenon DEF Layout
    <3>3. CASE \E i \in new : items[i] = Item(d)
      <4>1. PICK j : j = CHOOSE i \in new : items[i] = Item(d)
        OBVIOUS
      <4>2. j \in new /\ items[j] = Item(d)
        BY <3>3, <4>1, Zenon
      <4> QED BY <2>1, <3>1, <3>2, <3>3, <4>1, <4>2, Zenon
    <3>4. CASE ~ \E i \in new : items[i] = Item(d)
      <4>1. d \in Places(m)
        BY <1>13, <1>14, <1>15, <3>4, Zenon
      <4> QED BY <2>1, <2>2, <3>1, <3>4, <4>1, Zenon
    <3> QED BY <3>3, <3>4, Zenon
  <2>5. {Item(d)' : d \in Places(e)} = {Item(d) : d \in Places(e)}
    BY <1>17, Zenon
  <2> QED BY <1>13, <1>16, <1>17, <2>1, <2>2, <2>3, <2>4, <2>5, Zenon DEF Tree, Places
<1>19. TypeOK' /\ Frame(p)
  BY <1>2, <1>4, <1>11, <1>13, Zenon DEF TypeOK, lock, Frame, Goto
<1>20. /\ use' = use /\ fresh' = fresh
       /\ pc'[p] = IF Len(items) = PageItems - 1 THEN "fetch"
                   ELSE IF use[p] = Alloc!LCK_read THEN "look" ELSE "allocate"
  BY <1>2, <1>4, Zenon DEF TypeOK, lock, Goto
<1>21. Locked(p)'
  BY <1>2, <1>4, <1>9, <1>20, Zenon DEF Locked
<1>22. Copy(p, n)'
  <2>1. last_allocated_page'[p] = e /\ alloc_buffer'[p] = items
    BY <1>2, <1>4, Zenon DEF TypeOK
  <2>2. CASE Len(items) = PageItems - 1
    BY <1>20, <2>2, Zenon DEF Copy
  <2>3. CASE Len(items) # PageItems - 1
    <3>1. a = PointerPage(n) /\ e = n
      BY <1>12, <2>3, Zenon
    <3> QED BY <1>6, <1>17, <1>20, <2>1, <2>3, <3>1, Zenon DEF Copy
  <2> QED BY <2>2, <2>3, Zenon
<1> QED BY <1>1, <1>2, <1>9, <1>17, <1>18, <1>19, <1>21, <1>22, Kept, Zenon

-----------------------------------------------------------------------------
(* A difference file with its first pointer page. *)
LEMMA InitInv == Init => IInv
<1> SUFFICES ASSUME Init PROVE IInv
  OBVIOUS
<1> USE Levels DEF Init, Alloc!Init
<1>1. Len(file) = 1 /\ FilePage(0) = Empty /\ file \in Seq(Seq(Pages)) /\ Empty \in Seq(Pages)
      /\ Len(Empty) = 0
  BY DEF FilePage, Empty
<1>2. Places(0) = {} /\ DOMAIN <<>> = {}
  BY DEF Places
<1>3. PointerPage(0) = 0 /\ Offset(0) = 0 /\ Offset(0) # PageItems - 1
  BY PageItemsAssumption, PointerOffset, Split, SMTT(30)
<1>4. Layout(0)
  <2>1. \A d \in 0 .. 0 : d = 0
    OBVIOUS
  <2>2. 0 + 1 .. Len(file) - 1 = {}
    BY <1>1
  <2> QED BY <1>1, <1>2, <1>3, <2>1, <2>2, SMTT(30) DEF Layout
<1>5. TypeOK
  BY <1>1, Zenon DEF TypeOK
<1>6. ASSUME NEW p \in Processes PROVE Tree(p, 0) /\ Copy(p, 0) /\ Locked(p)
  BY <1>2, <1>3, SMTT(30) DEF Tree, Copy, Locked
<1>7. 0 \in 0 .. Len(file)
  BY <1>1
<1> QED BY <1>4, <1>5, <1>6, <1>7, Zenon DEF IInv

(* Every step keeps the invariant. *)
LEMMA NextInv ==
  ASSUME IInv, [Next]_vars
  PROVE  IInv'
<1>1. ASSUME NEW p \in Processes, NEW g \in Pages, set_diff_page(p, g) PROVE IInv'
  BY <1>1, set_diff_page_Step, Zenon
<1>2. ASSUME NEW p \in Processes, NEW g \in Pages, write_difference(p, g) PROVE IInv'
  BY <1>2, write_difference_Step, Zenon
<1>3. ASSUME NEW p \in Processes, actualize_alloc(p) PROVE IInv'
  BY <1>3, actualize_alloc_Step, Zenon
<1>4. ASSUME NEW p \in Processes, get_page_index(p) PROVE IInv'
  BY <1>4, get_page_index_Step, Zenon
<1>5. ASSUME NEW p \in Processes, lock_alloc_write(p) PROVE IInv'
  BY <1>5, lock_alloc_write_Step, Zenon
<1>6. ASSUME NEW p \in Processes, allocate_difference_page(p) PROVE IInv'
  BY <1>6, allocate_difference_page_Step, Zenon
<1>7. ASSUME NEW p \in Processes, allocate_pointer_page(p) PROVE IInv'
  BY <1>7, allocate_pointer_page_Step, Zenon
<1>8. ASSUME NEW p \in Processes, allocate_item(p) PROVE IInv'
  BY <1>8, allocate_item_Step, Zenon
<1>9. ASSUME NEW p \in Processes, allocate_register(p) PROVE IInv'
  BY <1>9, allocate_register_Step, Zenon
<1>10. ASSUME NEW p \in Processes, allocate_fails(p) PROVE IInv'
  BY <1>10, allocate_fails_Step, Zenon
<1>11. ASSUME NEW p \in Processes, crash(p) PROVE IInv'
  BY <1>11, crash_Step, Zenon
<1>12. CASE UNCHANGED vars
  <2>1. PICK n \in 0 .. Len(file) :
          Layout(n) /\ \A q \in Processes : Tree(q, n) /\ Copy(q, n)
    BY Zenon DEF IInv
  <2>2. TypeOK /\ \A q \in Processes : Locked(q)
    BY Zenon DEF IInv
  <2>3. UNCHANGED <<file, use, fresh, alloc_table, last_allocated_page, alloc_buffer, page,
          diff_page, pc>>
    BY <1>12, Zenon DEF vars, lock, table
  <2>4. TypeOK' /\ \A q \in Processes : Locked(q)'
    BY <2>2, <2>3, Zenon DEF TypeOK, Locked
  <2>5. Layout(n)'
    BY <2>1, <2>3, SameFile, Zenon
  <2>6. ASSUME NEW q \in Processes PROVE Tree(q, n)' /\ Copy(q, n)'
    <3>1. Tree(q, n)'
      BY <2>1, <2>3, SameTree, Zenon
    <3>2. Copy(q, n)'
      BY <2>1, <2>3, Zenon DEF Copy, FilePage, Item, InFile
    <3> QED BY <3>1, <3>2, Zenon
  <2> QED BY <2>1, <2>3, <2>4, <2>5, <2>6, Zenon DEF IInv
<1> QED
  BY <1>1, <1>2, <1>3, <1>4, <1>5, <1>6, <1>7, <1>8, <1>9, <1>10, <1>11, <1>12, Zenon DEF Next

(* Whatever writes fail and whoever dies, the pointer pages and            *)
(* what the processes know of them fit together.                           *)
THEOREM Invariance == Spec => []IInv
<1>1. IInv /\ [Next]_vars => IInv'
  BY NextInv, Zenon
<1> QED BY <1>1, InitInv, PTL DEF Spec

(* The invariant implies the three properties. *)
LEMMA Consequences == IInv => PointerPageIsThere /\ BufferIsCurrent /\ OwnPlace
<1> SUFFICES ASSUME IInv PROVE PointerPageIsThere /\ BufferIsCurrent /\ OwnPlace
  OBVIOUS
<1> USE Levels
<1>1. PICK n \in 0 .. Len(file) :
        Layout(n) /\ \A q \in Processes : Tree(q, n) /\ Copy(q, n)
  BY Zenon DEF IInv
<1>2. /\ TypeOK /\ \A q \in Processes : Locked(q)
  BY Zenon DEF IInv
<1>3. n \in Nat /\ \A d \in 0 .. n : InFile(d)
  BY <1>1, SMTT(30) DEF Layout, InFile
<1>4. PointerPageIsThere
  <2> SUFFICES ASSUME NEW p \in Processes PROVE InFile(PointerPage(last_allocated_page[p]))
    BY Zenon DEF PointerPageIsThere
  <2>1. PICK m \in 0 .. n : m = last_allocated_page[p]
    BY <1>1, Zenon DEF Tree
  <2>2. PointerPage(m) \in 0 .. m
    BY <1>3, PointerOffset, SMTT(30)
  <2> QED BY <1>3, <2>1, <2>2, SMTT(30)
<1>5. BufferIsCurrent
  <2> SUFFICES ASSUME NEW p \in Processes, pc[p] = "allocate"
               PROVE  Offset(last_allocated_page[p]) = Len(alloc_buffer[p])
    BY Zenon DEF BufferIsCurrent
  <2>1. last_allocated_page[p] = n /\ alloc_buffer[p] = FilePage(PointerPage(n))
    BY <1>1, <1>2, ZenonT(30) DEF Copy, Locked
  <2> QED BY <1>1, <1>3, <2>1, PointerOffset, Zenon DEF Layout
<1>6. OwnPlace
  BY <1>1, <1>3, SMTT(30) DEF OwnPlace, Tree, Layout, Places
<1> QED BY <1>4, <1>5, <1>6, Zenon

(* actualize_alloc never reads a pointer page beyond the end of the        *)
(* difference file: allocate_difference_page writes the next pointer page  *)
(* before the last item of the one before it, so this survives the death   *)
(* of any process.                                                         *)
THEOREM PointerPageIsThereHolds == Spec => []PointerPageIsThere
BY Invariance, Consequences, PTL

(* The assertion of allocate_difference_page: under the lock for write     *)
(* alloc_buffer is the pointer page that last_allocated_page is on.        *)
THEOREM BufferIsCurrentHolds == Spec => []BufferIsCurrent
BY Invariance, Consequences, PTL

(* write_difference never writes over a pointer page or over another page  *)
(* of the database: the place that set_diff_page or                        *)
(* allocate_difference_page gave a page is behind the item of that page.   *)
THEOREM OwnPlaceHolds == Spec => []OwnPlace
BY Invariance, Consequences, PTL

-----------------------------------------------------------------------------
(* The items of the table, in the order of their places. *)
LEMMA IndexStep ==
  ASSUME NEW d \in Nat
  PROVE  IndexOf(d + 1) = IndexOf(d) + (IF Offset(d + 1) = 0 THEN 0 ELSE 1) /\ IndexOf(d) \in Nat
<1> DEFINE q == d \div PageItems
           r == d % PageItems
<1>1. q \in Nat /\ r \in 0 .. PageItems - 1 /\ d = q * PageItems + r
  BY PageItemsAssumption
<1>2. IndexOf(d) = d - q
  BY Zenon DEF IndexOf
<1> HIDE DEF q, r
<1>3. CASE r = PageItems - 1
  <2>1. d + 1 = (q + 1) * PageItems
    BY <1>1, <1>3, PageItemsAssumption
  <2>2. (d + 1) \div PageItems = q + 1 /\ (d + 1) % PageItems = 0
    BY <1>1, <2>1, PageItemsAssumption
  <2> QED BY <1>1, <1>2, <2>2, PageItemsAssumption DEF IndexOf, Offset
<1>4. CASE r # PageItems - 1
  <2>1. d + 1 = q * PageItems + (r + 1) /\ r + 1 \in 1 .. PageItems - 1
    BY <1>1, <1>4, PageItemsAssumption
  <2>2. (d + 1) \div PageItems = q /\ (d + 1) % PageItems = r + 1
    BY <1>1, <2>1, PageItemsAssumption
  <2> QED BY <1>1, <1>2, <2>1, <2>2, PageItemsAssumption DEF IndexOf, Offset
<1> QED BY <1>3, <1>4, Zenon

(* A later place has no smaller index. *)
LEMMA IndexOrder ==
  ASSUME NEW n \in Nat, NEW d \in Nat, n <= d
  PROVE  IndexOf(n) <= IndexOf(d)
<1>1. /\ n \div PageItems \in Nat /\ n % PageItems \in 0 .. PageItems - 1
      /\ n = (n \div PageItems) * PageItems + (n % PageItems)
  BY DivMod, PageItemsAssumption
<1>2. /\ d \div PageItems \in Nat /\ d % PageItems \in 0 .. PageItems - 1
      /\ d = (d \div PageItems) * PageItems + (d % PageItems)
  BY DivMod, PageItemsAssumption
<1> QED BY <1>1, <1>2, PageItemsAssumption DEF IndexOf

(* Which entries of the table have their place up to n. *)
LEMMA PlacesUpTo ==
  ASSUME NEW n \in Nat, NEW i \in Nat \ {0}
  PROVE  PlaceOf(i) \in Places(n) <=> i <= IndexOf(n)
<1>1. PlaceOf(i) \in Nat \ {0} /\ Offset(PlaceOf(i)) # 0 /\ IndexOf(PlaceOf(i)) = i
  BY IndexOfPlaceOf, Zenon
<1>2. IndexOf(n) \in Nat
  BY IndexStep, Zenon
<1>3. CASE PlaceOf(i) <= n
  <2>1. i <= IndexOf(n)
    BY <1>1, <1>3, IndexOrder, Zenon
  <2> QED BY <1>1, <1>3, <2>1 DEF Places
<1>4. CASE ~ PlaceOf(i) <= n
  <2>1. PICK d \in Nat : PlaceOf(i) = d + 1 /\ n <= d
    <3>1. PlaceOf(i) - 1 \in Nat /\ PlaceOf(i) = (PlaceOf(i) - 1) + 1 /\ n <= PlaceOf(i) - 1
      BY <1>1, <1>4
    <3> QED BY <3>1, Zenon
  <2>2. i = IndexOf(d) + 1 /\ IndexOf(d) \in Nat
    BY <1>1, <2>1, IndexStep, Zenon
  <2>3. IndexOf(n) <= IndexOf(d)
    BY <2>1, IndexOrder, Zenon
  <2>4. ~ i <= IndexOf(n)
    BY <1>2, <2>2, <2>3
  <2> QED BY <1>1, <1>4, <2>4 DEF Places
<1> QED BY <1>3, <1>4, Zenon

(* A place is listed on a pointer page if and only if it is taken. *)
LEMMA ListedPlaces ==
  ASSUME NEW n, Layout(n), NEW d \in Nat, Offset(d) # 0
  PROVE  Listed(d) <=> d \in Places(n)
<1>1. /\ n \in Nat /\ file \in Seq(Seq(Pages)) /\ Len(file) \in n + 1 .. n + 3
      /\ Len(file) \in Nat
  BY DEF Layout
<1>2. CASE d \in Places(n)
  <2>1. /\ PointerPage(d) \in 0 .. n /\ Offset(d) \in 1 .. Len(FilePage(PointerPage(d)))
        /\ FilePage(PointerPage(d)) \in Seq(Pages)
    BY <1>2, ItemThere, Zenon
  <2>2. Offset(d) \in DOMAIN FilePage(PointerPage(d))
    BY <2>1
  <2>3. InFile(PointerPage(d))
    BY <1>1, <2>1 DEF InFile
  <2> QED BY <1>2, <2>2, <2>3, Zenon DEF Listed
<1>3. CASE d \notin Places(n)
  <2> SUFFICES ASSUME Listed(d) PROVE FALSE
    BY <1>3, Zenon
  <2>1. d > n
    <3>1. d # 0
      BY PageItemsAssumption, PointerOffset, Split DEF Offset
    <3> QED BY <1>1, <1>3, <3>1 DEF Places
  <2>2. n \in 0 .. d
    BY <1>1, <2>1
  <2>3. \/ PointerPage(n) = PointerPage(d) /\ Offset(n) <= Offset(d)
        \/ PointerPage(n) + PageItems <= PointerPage(d)
    BY <2>2, PointerPageOrder, Zenon
  <2>4. /\ PointerPage(d) \in Nat /\ Offset(d) \in 0 .. PageItems - 1 /\ d =
             PointerPage(d) + Offset(d)
        /\ PointerPage(n) \in Nat /\ Offset(n) \in 0 .. PageItems - 1 /\ n =
             PointerPage(n) + Offset(n)
    BY <1>1, Split, Zenon
  <2>5. PointerPage(n) \in 0 .. n /\ Offset(PointerPage(n)) = 0
    BY <1>1, PointerOffset, Zenon
  <2>6. CASE PointerPage(n) = PointerPage(d)
    <3>1. Len(FilePage(PointerPage(d))) = Offset(n) /\ FilePage(PointerPage(d)) \in Seq(Pages)
      BY <1>1, <2>5, <2>6, SMTT(30) DEF Layout, FilePage
    <3>2. Offset(d) \in 1 .. Offset(n)
      BY <3>1 DEF Listed
    <3> QED BY <2>1, <2>4, <2>6, <3>2
  <2>7. CASE PointerPage(n) + PageItems <= PointerPage(d)
    <3>1. PointerPage(d) + 1 \in 1 .. Len(file)
      BY <1>1 DEF Listed, InFile
    <3>2. PointerPage(d) \in n + 1 .. Len(file) - 1
      <4>1. PointerPage(d) >= n + 1
        BY <2>4, <2>7, PageItemsAssumption
      <4> QED BY <1>1, <2>4, <3>1, <4>1, SMTT(30)
    <3>3. FilePage(PointerPage(d)) = <<>>
      BY <3>2, Zenon DEF Layout, Empty
    <3>4. Offset(d) \in DOMAIN <<>>
      BY <3>3, Zenon DEF Listed
    <3> QED BY <3>4
  <2> QED BY <2>3, <2>6, <2>7, Zenon
<1> QED BY <1>2, <1>3, Zenon

(* What the table of n places lists. *)
TableIs(n) ==
  /\ IndexOf(n) \in Nat
  /\ Items = [i \in 1 .. IndexOf(n) |-> Item(PlaceOf(i))]
  /\ \A i \in 1 .. IndexOf(n) : PlaceOf(i) \in Places(n) /\ Item(PlaceOf(i)) \in Pages
  /\ \A d \in Places(n) : IndexOf(d) \in 1 .. IndexOf(n) /\ PlaceOf(IndexOf(d)) = d
  /\ \A i \in 1 .. IndexOf(n) : IndexOf(PlaceOf(i)) = i

(* Any layout gives the table. *)
TablesAre == \A n \in Nat : Layout(n) => TableIs(n)

(* The table lists the items of the places that are taken, in their order. *)
LEMMA TableItems == TablesAre
<1> SUFFICES ASSUME NEW n \in Nat, Layout(n) PROVE TableIs(n)
  BY Zenon DEF TablesAre
<1>1. IndexOf(n) \in Nat
  BY IndexStep, Zenon
<1>2. \A i \in 1 .. IndexOf(n) : /\ PlaceOf(i) \in Places(n) /\ IndexOf(PlaceOf(i)) = i
                                 /\ Item(PlaceOf(i)) \in Pages
  <2> SUFFICES ASSUME NEW i \in 1 .. IndexOf(n)
               PROVE  /\ PlaceOf(i) \in Places(n) /\ IndexOf(PlaceOf(i)) = i
                      /\ Item(PlaceOf(i)) \in Pages
    OBVIOUS
  <2>1. i \in Nat \ {0} /\ i <= IndexOf(n)
    BY <1>1
  <2>2. PlaceOf(i) \in Places(n) /\ IndexOf(PlaceOf(i)) = i
    BY <2>1, PlacesUpTo, IndexOfPlaceOf, Zenon
  <2> QED BY <2>2, ItemThere, Zenon
<1>3. \A d \in Places(n) : IndexOf(d) \in 1 .. IndexOf(n) /\ PlaceOf(IndexOf(d)) = d
  <2> SUFFICES ASSUME NEW d \in Places(n)
               PROVE  IndexOf(d) \in 1 .. IndexOf(n) /\ PlaceOf(IndexOf(d)) = d
    OBVIOUS
  <2>1. IndexOf(d) \in Nat \ {0} /\ PlaceOf(IndexOf(d)) = d
    BY PlaceOfIndexOf DEF Places
  <2>2. IndexOf(d) <= IndexOf(n)
    BY <2>1, PlacesUpTo, Zenon
  <2> QED BY <1>1, <2>1, <2>2
<1>4. {j \in 1 .. Len(file) : Listed(PlaceOf(j))} = 1 .. IndexOf(n)
  <2>0. Len(file) \in Nat /\ n <= Len(file)
    BY DEF Layout
  <2>1. ASSUME NEW j \in 1 .. Len(file) PROVE Listed(PlaceOf(j)) <=> j <= IndexOf(n)
    <3>1. PlaceOf(j) \in Nat \ {0} /\ Offset(PlaceOf(j)) # 0 /\ j \in Nat \ {0}
      BY <2>0, IndexOfPlaceOf
    <3>2. Listed(PlaceOf(j)) <=> PlaceOf(j) \in Places(n)
      BY <3>1, ListedPlaces, Zenon
    <3>3. PlaceOf(j) \in Places(n) <=> j <= IndexOf(n)
      BY <3>1, PlacesUpTo, Zenon
    <3> QED BY <3>2, <3>3, Zenon
  <2>2. \A j \in 1 .. IndexOf(n) : j \in 1 .. Len(file)
    <3>1. IndexOf(n) <= n
      BY PageItemsAssumption DEF IndexOf
    <3> QED BY <1>1, <2>0, <3>1
  <2>3. \A j \in 1 .. Len(file) : j <= IndexOf(n) <=> j \in 1 .. IndexOf(n)
    BY <1>1, <2>0
  <2> QED BY <2>1, <2>2, <2>3, Zenon
<1>5. Items = [i \in 1 .. IndexOf(n) |-> Item(PlaceOf(i))]
  BY <1>4, Zenon DEF Items
<1> QED BY <1>1, <1>2, <1>3, <1>5, Zenon DEF TableIs

-----------------------------------------------------------------------------
(* The steps of the abstract table. *)
Known == [p \in Processes |-> [g \in DOMAIN alloc_table[p] |-> IndexOf(alloc_table[p][g])]]
(* A step of the abstract table, or none. *)
AbstractStep == [Table!Next]_<<Items, Known>>

(* A step that keeps the places and their items keeps the table. *)
LEMMA SameTable ==
  ASSUME NEW n \in Nat, Layout(n), Layout(n)', \A d \in Places(n) : Item(d)' = Item(d)
  PROVE  Items' = Items
<1>1. TablesAre /\ TablesAre'
  BY TableItems, PTL
<1>2. /\ Items = [i \in 1 .. IndexOf(n) |-> Item(PlaceOf(i))]
      /\ \A i \in 1 .. IndexOf(n) : PlaceOf(i) \in Places(n)
  BY <1>1, Zenon DEF TablesAre, TableIs
<1>3. Items' = [i \in 1 .. IndexOf(n) |-> Item(PlaceOf(i))']
  BY <1>1, Zenon DEF TablesAre, TableIs
<1> QED BY <1>2, <1>3, Zenon

(* A step that keeps the table and the trees. *)
LEMMA StutterStep ==
  ASSUME Items' = Items, alloc_table' = alloc_table
  PROVE  AbstractStep
BY Zenon DEF AbstractStep, Known

(* A step that adds an item adds a page to the table. *)
LEMMA AddStep ==
  ASSUME NEW n \in Nat, Layout(n), Offset(n) # PageItems - 1, Layout(After(n))',
         NEW g \in Pages, \A d \in Places(n) : Item(d) # g,
         Item(n + 1)' = g, \A d \in Places(n) : Item(d)' = Item(d),
         alloc_table' = alloc_table
  PROVE  Table!Add(g)
<1>1. TablesAre /\ TablesAre'
  BY TableItems, PTL
<1>2. /\ IndexOf(n) \in Nat /\ Items = [i \in 1 .. IndexOf(n) |-> Item(PlaceOf(i))]
      /\ \A i \in 1 .. IndexOf(n) : PlaceOf(i) \in Places(n) /\ Item(PlaceOf(i)) \in Pages
  BY <1>1, Zenon DEF TablesAre, TableIs
<1>3. /\ After(n) \in Nat /\ PointerPage(n + 1) = PointerPage(n) /\ Offset(n + 1) = Offset(n) + 1
      /\ Offset(n) = PageItems - 2 => After(n) = n + 2 /\ Offset(After(n)) = 0
      /\ Offset(n) # PageItems - 2 => After(n) = n + 1
  BY AfterPlaces, Zenon
<1>4. Offset(n + 1) # 0
  BY <1>3, Split
<1>5. IndexOf(n + 1) = IndexOf(n) + 1 /\ PlaceOf(IndexOf(n) + 1) = n + 1
  <2>1. IndexOf(n + 1) = IndexOf(n) + 1
    BY <1>4, IndexStep, Zenon
  <2> QED BY <1>4, <2>1, PlaceOfIndexOf
<1>6. IndexOf(After(n)) = IndexOf(n) + 1
  <2>1. CASE Offset(n) = PageItems - 2
    <3>1. n + 1 \in Nat /\ n + 2 = (n + 1) + 1
      OBVIOUS
    <3>2. IndexOf(n + 2) = IndexOf(n + 1) + 0
      BY <1>3, <2>1, <3>1, IndexStep, Zenon
    <3> QED BY <1>2, <1>3, <1>5, <2>1, <3>2
  <2>2. CASE Offset(n) # PageItems - 2
    BY <1>3, <1>5, <2>2, Zenon
  <2> QED BY <2>1, <2>2, Zenon
<1>7. Items' = [i \in 1 .. IndexOf(n) + 1 |-> Item(PlaceOf(i))']
  <2>1. Items' = [i \in 1 .. IndexOf(After(n)) |-> Item(PlaceOf(i))']
    BY <1>1, <1>3, Zenon DEF TablesAre, TableIs
  <2> QED BY <1>6, <2>1, Zenon
<1>8. Items' = Append(Items, g)
  <2>1. Items \in Seq(Pages) /\ Len(Items) = IndexOf(n)
    BY <1>2
  <2>2. /\ Append(Items, g) \in Seq(Pages) /\ Len(Append(Items, g)) = IndexOf(n) + 1
        /\ Append(Items, g)[IndexOf(n) + 1] = g
        /\ \A i \in 1 .. IndexOf(n) : Append(Items, g)[i] = Items[i]
    BY <2>1, Appended
  <2>3. Append(Items, g) = [i \in 1 .. IndexOf(n) + 1 |-> Append(Items, g)[i]]
    <3>1. ASSUME NEW s \in Seq(Pages) PROVE s = [i \in 1 .. Len(s) |-> s[i]]
      OBVIOUS
    <3> QED BY <2>2, <3>1, Zenon
  <2>4. \A i \in 1 .. IndexOf(n) + 1 : Item(PlaceOf(i))' = Append(Items, g)[i]
    <3> SUFFICES ASSUME NEW i \in 1 .. IndexOf(n) + 1
                 PROVE  Item(PlaceOf(i))' = Append(Items, g)[i]
      OBVIOUS
    <3>1. CASE i = IndexOf(n) + 1
      BY <1>5, <2>2, <3>1, Zenon
    <3>2. CASE i \in 1 .. IndexOf(n)
      BY <1>2, <2>2, <3>2, Zenon
    <3> QED BY <1>2, <3>1, <3>2
  <2> QED BY <1>7, <2>3, <2>4, Zenon
<1>9. \A i \in DOMAIN Items : Items[i] # g
  BY <1>2, Zenon
<1> QED BY <1>8, <1>9, Zenon DEF Table!Add

(* What a process has in its tree is where the pages are. *)
LEMMA TreePlaces ==
  ASSUME NEW n \in Nat, Layout(n), NEW m \in 0 .. n, NEW t,
         DOMAIN t = {Item(d) : d \in Places(m)}, \A d \in Places(m) : t[Item(d)] = d,
         NEW g \in DOMAIN t
  PROVE  (\E i \in DOMAIN Items : Items[i] = g) /\ IndexOf(t[g]) = Table!Place(g)
<1>1. /\ IndexOf(n) \in Nat /\ Items = [i \in 1 .. IndexOf(n) |-> Item(PlaceOf(i))]
      /\ \A i \in 1 .. IndexOf(n) : PlaceOf(i) \in Places(n) /\ IndexOf(PlaceOf(i)) = i
      /\ \A d \in Places(n) : IndexOf(d) \in 1 .. IndexOf(n) /\ PlaceOf(IndexOf(d)) = d
  BY TableItems, Zenon DEF TablesAre, TableIs
<1>2. PICK d \in Places(m) : g = Item(d) /\ t[g] = d
  OBVIOUS
<1>3. d \in Places(n)
  BY DEF Places
<1>4. IndexOf(d) \in DOMAIN Items /\ Items[IndexOf(d)] = g
  BY <1>1, <1>2, <1>3, Zenon
<1>5. ASSUME NEW i \in DOMAIN Items, Items[i] = g PROVE i = IndexOf(d)
  <2>1. PlaceOf(i) \in Places(n) /\ Item(PlaceOf(i)) = Item(d) /\ IndexOf(PlaceOf(i)) = i
    BY <1>1, <1>2, <1>5, Zenon
  <2>2. PlaceOf(i) = d
    BY <1>3, <2>1, Zenon DEF Layout
  <2> QED BY <2>1, <2>2, Zenon
<1>6. (CHOOSE i \in DOMAIN Items : Items[i] = g) = IndexOf(d)
  BY <1>4, <1>5, Zenon
<1> QED BY <1>2, <1>4, <1>6, Zenon DEF Table!Place

(* A step that makes a process know more of the table. *)
LEMMA LearnStep ==
  ASSUME IInv', TypeOK, NEW p \in Processes, file' = file, DOMAIN alloc_table' = Processes,
         DOMAIN alloc_table[p] \subseteq DOMAIN alloc_table'[p],
         \A q \in Processes \ {p} : alloc_table'[q] = alloc_table[q]
  PROVE  AbstractStep
<1>1. PICK n \in 0 .. Len(file') : Layout(n)' /\ Tree(p, n)'
  BY Zenon DEF IInv
<1>2. \A d : Item(d)' = Item(d) /\ FilePage(d)' = FilePage(d)
  BY Zenon DEF Item, FilePage
<1>3. Layout(n) /\ n \in Nat
  BY <1>1, <1>2, Zenon DEF Layout
<1>4. PICK m : m = last_allocated_page'[p]
  OBVIOUS
<1>5. /\ m \in 0 .. n /\ DOMAIN alloc_table'[p] = {Item(d)' : d \in Places(m)}
      /\ \A d \in Places(m) : alloc_table'[p][Item(d)'] = d
  BY <1>1, <1>4, Zenon DEF Tree, Places
<1>6. /\ DOMAIN alloc_table'[p] = {Item(d) : d \in Places(m)}
      /\ \A d \in Places(m) : alloc_table'[p][Item(d)] = d
  BY <1>2, <1>5
<1>7. \A g \in DOMAIN alloc_table'[p] :
        (\E i \in DOMAIN Items : Items[i] = g) /\ IndexOf(alloc_table'[p][g]) = Table!Place(g)
  BY <1>3, <1>5, <1>6, TreePlaces, Zenon
<1>8. Items' = Items
  BY Zenon DEF Items, Listed, InFile, FilePage, Item
<1>9. /\ Known[p] = [g \in DOMAIN alloc_table[p] |-> IndexOf(alloc_table[p][g])]
      /\ Known'[p] = [g \in DOMAIN alloc_table'[p] |-> IndexOf(alloc_table'[p][g])]
      /\ \A q \in Processes \ {p} : Known'[q] = Known[q]
  BY Zenon DEF Known
<1>10. Table!Learn(p)
  BY <1>7, <1>8, <1>9, Zenon DEF Table!Learn, Known
<1> QED BY <1>10, Zenon DEF AbstractStep, Table!Next

(* Every step is a step of the abstract table, or none. *)
LEMMA RefinementStep ==
  ASSUME IInv, IInv', [Next]_vars
  PROVE  AbstractStep
<1>1. PICK n \in 0 .. Len(file) :
        Layout(n) /\ \A q \in Processes : Tree(q, n) /\ Copy(q, n)
  BY Zenon DEF IInv
<1>2. /\ TypeOK /\ (\A q \in Processes :
           Locked(q)) /\ n \in Nat /\ DOMAIN alloc_table' = Processes
  BY <1>1, Zenon DEF IInv, Layout, TypeOK
<1>3. ASSUME file' = file, alloc_table' = alloc_table PROVE AbstractStep
  BY <1>3, StutterStep, Zenon DEF Items, Listed, InFile, FilePage, Item
<1>4. ASSUME NEW p \in Processes, NEW g \in Pages, set_diff_page(p, g) PROVE AbstractStep
  BY <1>3, <1>4, Zenon DEF set_diff_page, table
<1>5. ASSUME NEW p \in Processes, NEW g \in Pages, write_difference(p, g) PROVE AbstractStep
  <2>1. PICK d \in Places(n) : d = diff_page[p][g] /\ Item(d) = g
    BY <1>1, <1>5, Zenon DEF write_difference, Tree
  <2>2. file' = Written(d, <<Item(d)>>) /\ alloc_table' = alloc_table
    BY <1>5, <2>1, Zenon DEF write_difference, table
  <2>3. Layout(n)' /\ \A e \in Places(n) : Item(e)' = Item(e)
    BY <1>1, <2>2, PageWritten, Zenon
  <2> QED BY <1>1, <1>2, <2>2, <2>3, SameTable, StutterStep, Zenon
<1>6. ASSUME NEW p \in Processes, actualize_alloc(p) PROVE AbstractStep
  <2>1. /\ file' = file /\ DOMAIN alloc_table[p] \subseteq DOMAIN alloc_table'[p]
        /\ \A q \in Processes \ {p} : alloc_table'[q] = alloc_table[q]
    BY <1>2, <1>6, Zenon DEF actualize_alloc, TypeOK
  <2> QED BY <1>2, <2>1, LearnStep, Zenon
<1>7. ASSUME NEW p \in Processes, get_page_index(p) PROVE AbstractStep
  BY <1>3, <1>7, Zenon DEF get_page_index, table
<1>8. ASSUME NEW p \in Processes, lock_alloc_write(p) PROVE AbstractStep
  BY <1>3, <1>8, Zenon DEF lock_alloc_write, table
<1>9. ASSUME NEW p \in Processes, allocate_difference_page(p) PROVE AbstractStep
  <2>1. alloc_table' = alloc_table
    BY <1>9, Zenon DEF allocate_difference_page, table
  <2>2. CASE page[p] \in DOMAIN alloc_table[p]
    BY <1>3, <1>9, <2>1, <2>2, Zenon DEF allocate_difference_page
  <2>3. CASE page[p] \notin DOMAIN alloc_table[p]
    <3>1. last_allocated_page[p] = n
      BY <1>1, <1>2, <1>9, Levels, Zenon DEF allocate_difference_page, Copy, Locked
    <3>2. file' = Written(n + 1, Empty)
      BY <1>9, <2>3, <3>1, Zenon DEF allocate_difference_page
    <3>3. InFile(n) /\ n \in n .. n + 1 /\ n # n + 1
      BY <1>1, <1>2 DEF Layout, InFile
    <3>4. Layout(n)' /\ FileStep(p, n, n)
      BY <1>1, <3>2, <3>3, EmptyPage, Zenon
    <3> QED BY <1>1, <1>2, <2>1, <3>4, SameTable, StutterStep, Zenon DEF FileStep
  <2> QED BY <2>2, <2>3, Zenon
<1>10. ASSUME NEW p \in Processes, allocate_pointer_page(p) PROVE AbstractStep
  <2>1. /\ last_allocated_page[p] = n /\ InFile(n + 1) /\ Offset(n) = PageItems - 2
    BY <1>1, <1>2, <1>10, Levels DEF allocate_pointer_page, Copy, Locked
  <2>2. file' = Written(n + 2, Empty) /\ alloc_table' = alloc_table
    BY <1>10, <2>1, Zenon DEF allocate_pointer_page, table
  <2>3. n + 2 = (n + 1) + 1 /\ n + 1 \in n .. n + 1
    BY <1>2
  <2>4. Layout(n)' /\ FileStep(p, n, n)
    BY <1>1, <2>1, <2>2, <2>3, EmptyPage, Zenon
  <2> QED BY <1>1, <1>2, <2>2, <2>4, SameTable, StutterStep, Zenon DEF FileStep
<1>11. ASSUME NEW p \in Processes, allocate_item(p) PROVE AbstractStep
  <2>0. pc[p] = "item" /\ p \in fresh
    BY <1>2, <1>11, Levels, Zenon DEF allocate_item, Locked
  <2>1. /\ last_allocated_page[p] = n /\ alloc_buffer[p] = FilePage(PointerPage(n))
        /\ page[p] \notin DOMAIN alloc_table[p] /\ InFile(n + 1) /\ page[p] \in Pages
        /\ Offset(n) = PageItems - 2 => InFile(n + 2)
        /\ Offset(n) # PageItems - 1
    <3>1. Copy(p, n) /\ Offset(n) # PageItems - 1
      BY <1>1, Zenon DEF Layout
    <3>2. page[p] \in Pages
      BY <1>2, <2>0, Zenon DEF TypeOK
    <3>3. last_allocated_page[p] = n /\ alloc_buffer[p] = FilePage(PointerPage(n))
      BY <2>0, <3>1, Zenon DEF Copy
    <3> QED BY <2>0, <3>1, <3>2, <3>3, Zenon DEF Copy
  <2>2. /\ file' = Written(PointerPage(n), Append(FilePage(PointerPage(n)), page[p]))
        /\ alloc_table' = alloc_table
    BY <1>11, <2>1, ZenonT(30) DEF allocate_item
  <2>3. \A d \in Places(n) : Item(d) # page[p]
    BY <1>1, <2>1 DEF Tree
  <2>4. /\ Layout(After(n))' /\ Item(n + 1)' = page[p]
        /\ \A d \in Places(n) : Item(d)' = Item(d)
    BY <1>1, <2>1, <2>2, <2>3, NewItem, Zenon
  <2>5. Table!Add(page[p])
    BY <1>1, <1>2, <2>1, <2>2, <2>3, <2>4, AddStep, Zenon
  <2> QED BY <2>1, <2>5, Zenon DEF AbstractStep, Table!Next
<1>12. ASSUME NEW p \in Processes, allocate_register(p) PROVE AbstractStep
  <2>1. /\ file' = file /\ DOMAIN alloc_table[p] \subseteq DOMAIN alloc_table'[p]
        /\ \A q \in Processes \ {p} : alloc_table'[q] = alloc_table[q]
    BY <1>2, <1>12, Zenon DEF allocate_register, TypeOK
  <2> QED BY <1>2, <2>1, LearnStep, Zenon
<1>13. ASSUME NEW p \in Processes, allocate_fails(p) PROVE AbstractStep
  BY <1>3, <1>13, Zenon DEF allocate_fails
<1>14. ASSUME NEW p \in Processes, crash(p) PROVE AbstractStep
  <2>1. file' = file /\ alloc_table' = [alloc_table EXCEPT ![p] = <<>>]
    BY <1>14, Zenon DEF crash
  <2>2. Items' = Items
    BY <2>1, Zenon DEF Items, Listed, InFile, FilePage, Item
  <2>3. Known' = [Known EXCEPT ![p] = <<>>]
    <3>1. /\ Known' = [q \in Processes |->
                        [g \in DOMAIN alloc_table'[q] |-> IndexOf(alloc_table'[q][g])]]
          /\ Known = [q \in Processes |->
                       [g \in DOMAIN alloc_table[q] |-> IndexOf(alloc_table[q][g])]]
      BY Zenon DEF Known
    <3>2. alloc_table'[p] = <<>> /\ \A q \in Processes \ {p} : alloc_table'[q] = alloc_table[q]
      BY <1>2, <2>1, Zenon DEF TypeOK
    <3>3. [g \in DOMAIN <<>> |-> IndexOf(<<>>[g])] = <<>>
      OBVIOUS
    <3> QED BY <3>1, <3>2, <3>3, SMTT(30)
  <2>4. Table!Forget(p)
    BY <2>2, <2>3, Zenon DEF Table!Forget, Known
  <2> QED BY <2>4, Zenon DEF AbstractStep, Table!Next
<1>15. CASE UNCHANGED vars
  BY <1>3, <1>15, Zenon DEF vars, table
<1> QED
  BY <1>4, <1>5, <1>6, <1>7, <1>8, <1>9, <1>10, <1>11, <1>12, <1>13, <1>14, <1>15, Zenon DEF Next

(* The first pointer page is an empty table. *)
LEMMA RefinementInit == Init => Table!Init
<1> SUFFICES ASSUME Init PROVE Items = <<>> /\ Known = [p \in Processes |-> <<>>]
  BY Zenon DEF Table!Init, Known
<1>1. [g \in DOMAIN <<>> |-> IndexOf(<<>>[g])] = <<>>
  OBVIOUS
<1>2. Known = [p \in Processes |-> <<>>]
  BY <1>1, Zenon DEF Init, Known
<1>3. IInv /\ Len(file) = 1 /\ FilePage(0) = <<>>
  BY InitInv DEF Init, FilePage, Empty
<1>4. {j \in 1 .. Len(file) : Listed(PlaceOf(j))} = {}
  <2> SUFFICES ASSUME NEW j \in 1 .. Len(file), Listed(PlaceOf(j)) PROVE FALSE
    OBVIOUS
  <2>1. InFile(PointerPage(PlaceOf(j))) /\
          Offset(PlaceOf(j)) \in DOMAIN FilePage(PointerPage(PlaceOf(j)))
    BY Zenon DEF Listed
  <2>2. PlaceOf(j) \in Nat
    BY <1>3, IndexOfPlaceOf
  <2>3. PointerPage(PlaceOf(j)) = 0
    BY <1>3, <2>1, <2>2, Split, SMTT(30) DEF InFile, Init
  <2> QED BY <1>3, <2>1, <2>3
<1>5. Items = <<>>
  BY <1>4 DEF Items
<1> QED BY <1>2, <1>5, Zenon

(* Whatever writes fail and whoever dies, the pointer pages of             *)
(* the difference file are the one growing table that DeltaTable promises, *)
(* and what a process has in its tree is a part of it: actualize_alloc and *)
(* allocate_difference_page agree about full pointer pages.                *)
THEOREM Refinement == Spec => ImplementsDeltaTable
<1>1. IInv /\ IInv' /\ [Next]_vars =>
        [Table!Next]_<<Items, [p \in Processes |->
                                 [g \in DOMAIN alloc_table[p] |-> IndexOf(alloc_table[p][g])]]>>
  BY RefinementStep, Zenon DEF AbstractStep, Known
<1> QED
  BY <1>1, RefinementInit, Invariance, PTL DEF Spec, ImplementsDeltaTable, Table!Spec
=============================================================================
