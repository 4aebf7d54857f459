---------------------------- MODULE SharedQueue ----------------------------
(* The self-relative queues of the lock table (lock.cpp, que.h) and their  *)
(* recovery.  Every store to shared memory is a step of its own, in the    *)
(* order of the source, and a process may die between any two of them; the *)
(* next one to acquire() the table finishes or undoes what it finds.       *)
EXTENDS Integers, Sequences

CONSTANTS
  Queues,         \* heads of queues
  Nodes,          \* links of blocks that are in a queue or in none
  SHB,            \* the secondary header block
  NULL,           \* offset 0
  MaxDeaths,      \* bound on the deaths of processes
  LateDeath,      \* deaths between the last two stores of an insertion
  StaleRemoval    \* second removals of nodes whose links are stale

ASSUME ConstantsAssumption ==
  /\ Queues \cap Nodes = {} /\ {SHB, NULL} \cap (Queues \cup Nodes) = {}
  /\ SHB # NULL
  /\ MaxDeaths \in Nat /\ LateDeath \in BOOLEAN /\ StaleRemoval \in BOOLEAN

VARIABLES
  word,              \* shared memory: the links of all cells and the recovery words
  lhb_active_owner,  \* the header says that somebody is in the table
  held,              \* somebody really is
  todo,              \* the stores that the current call has still to make
  call,              \* the current call: what it does and to which node and queue
  queue,             \* what the callers have been promised: the contents of the queues
  again,             \* nodes that a process had in hand when it died
  deaths

vars == <<word, lhb_active_owner, held, todo, call, queue, again, deaths>>

Cells == Queues \cup Nodes
srq_forward(c) == <<c, "forward">>
srq_backward(c) == <<c, "backward">>
shb_remove_node == <<SHB, "remove_node">>
shb_insert_que == <<SHB, "insert_que">>
shb_insert_prior == <<SHB, "insert_prior">>
Links == Cells \X {"forward", "backward"}
Addresses == Links \cup {shb_remove_node, shb_insert_que, shb_insert_prior}

Idle == [op |-> "none", que |-> NULL, node |-> NULL]
Ops == {"none", "insert_tail", "remove_que", "recover"}

TypeOK ==
  /\ word \in [Addresses -> Cells \cup {NULL}]
  /\ lhb_active_owner \in BOOLEAN /\ held \in BOOLEAN
  /\ todo \in Seq(Addresses \X (Cells \cup {NULL}))
  /\ call \in [op : Ops, que : Queues \cup {NULL}, node : Nodes \cup {NULL}]
  /\ queue \in [Queues -> Seq(Nodes)]
  /\ again \subseteq Nodes
  /\ deaths \in 0 .. MaxDeaths

(* init_shared_file(): SRQ_INIT of all heads.  Nodes come from a free list *)
(* and are self-linked as well.                                            *)
Init ==
  /\ word = [a \in Addresses |-> IF a \in Links THEN a[1] ELSE NULL]
  /\ lhb_active_owner = FALSE
  /\ held = FALSE
  /\ todo = <<>>
  /\ call = Idle
  /\ queue = [q \in Queues |-> <<>>]
  /\ again = {}
  /\ deaths = 0

-----------------------------------------------------------------------------
(* The stores of a call, computed from memory when it starts: nobody else  *)
(* writes before it ends, and no store changes what a later one of the     *)
(* same call reads.                                                        *)

insert_tail(q, n) ==
  LET prior == word[srq_backward(q)]
  IN << <<shb_insert_que, q>>,
        <<shb_insert_prior, prior>>,
        <<srq_forward(n), q>>,
        <<srq_backward(n), prior>>,
        <<srq_forward(prior), n>>,
        <<srq_backward(q), n>>,
        <<shb_insert_que, NULL>>,
        <<shb_insert_prior, NULL>> >>

remove_que_early(n) ==                 \* mutant: the recovery word is cleared too early
  LET next == word[srq_forward(n)]
      prior == word[srq_backward(n)]
  IN << <<shb_remove_node, n>>,
        <<srq_backward(next), prior>>,
        <<shb_remove_node, NULL>>,
        <<srq_forward(prior), next>>,
        <<srq_backward(n), n>>,
        <<srq_forward(n), n>> >>
(* The last two stores are SRQ_INIT. *)
remove_que(n) ==
  LET next == word[srq_forward(n)]
      prior == word[srq_backward(n)]
  IN << <<shb_remove_node, n>>,
        <<srq_backward(next), prior>>,
        <<srq_forward(prior), next>>,
        <<shb_remove_node, NULL>>,
        <<srq_backward(n), n>>,
        <<srq_forward(n), n>> >>

recovery_unchecked(w) ==               \* mutant: shb_insert_prior is not tested
  LET que == w[shb_insert_que]
      prior == w[shb_insert_prior]
  IN IF w[shb_remove_node] # NULL THEN remove_que(w[shb_remove_node])
     ELSE IF que # NULL
     THEN << <<srq_backward(que), prior>>, <<srq_forward(prior), que>> >>
     ELSE <<>>
(* The part of acquire() that runs when the header names an active owner.  *)
recovery(w) ==
  LET que == w[shb_insert_que]
      prior == w[shb_insert_prior]
  IN IF w[shb_remove_node] # NULL THEN remove_que(w[shb_remove_node])
     ELSE IF que # NULL /\ prior # NULL
     THEN << <<srq_backward(que), prior>>,
             <<srq_forward(prior), que>>,
             <<shb_insert_que, NULL>>,
             <<shb_insert_prior, NULL>> >>
     ELSE <<>>

-----------------------------------------------------------------------------
Member(n) == \E q \in Queues : \E i \in 1 .. Len(queue[q]) : queue[q][i] = n
InSection == held /\ todo = <<>>

acquire ==
  /\ ~held
  /\ held' = TRUE
  /\ lhb_active_owner' = TRUE
  /\ todo' = IF lhb_active_owner THEN recovery(word) ELSE <<>>
  /\ call' = [op |-> "recover", que |-> NULL, node |-> word[shb_remove_node]]
  /\ UNCHANGED <<word, queue, again, deaths>>

release_mutex ==
  /\ InSection
  /\ held' = FALSE
  /\ lhb_active_owner' = FALSE
  /\ call' = Idle
  /\ UNCHANGED <<word, todo, queue, again, deaths>>

(* A caller puts a block into a queue that is in none. *)
Insert(q, n) ==
  /\ InSection
  /\ ~Member(n) /\ n \notin again
  /\ todo' = insert_tail(q, n)
  /\ call' = [op |-> "insert_tail", que |-> q, node |-> n]
  /\ UNCHANGED <<word, lhb_active_owner, held, queue, again, deaths>>

Remove(n) ==
  /\ InSection
  /\ Member(n)
  /\ todo' = remove_que(n)
  /\ call' = [op |-> "remove_que", que |-> NULL, node |-> n]
  /\ UNCHANGED <<word, lhb_active_owner, held, queue, again, deaths>>

(* purge_owner() releases what the dead process still owned, a block that  *)
(* it had just released, or was about to queue, included.                  *)
SelfLinked(n) == word[srq_forward(n)] = n /\ word[srq_backward(n)] = n
RemoveAgain(n) ==
  /\ InSection
  /\ n \in again
  /\ StaleRemoval \/ SelfLinked(n)
  /\ again' = again \ {n}
  /\ todo' = remove_que(n)
  /\ call' = [op |-> "remove_que", que |-> NULL, node |-> n]
  /\ UNCHANGED <<word, lhb_active_owner, held, queue, deaths>>

(* A removal counts from the moment the recovery would complete it, an     *)
(* insertion from the moment the recovery would no longer undo it.         *)
Store ==
  /\ todo # <<>>
  /\ LET at == Head(todo)[1]
         value == Head(todo)[2]
     IN /\ word' = [word EXCEPT ![at] = value]
        /\ queue' =
             IF at = shb_remove_node /\ value # NULL
               THEN [q \in Queues |-> SelectSeq(queue[q], LAMBDA n : n # value)]
             ELSE IF at = shb_insert_que /\ value = NULL /\ call.op = "insert_tail"
               THEN [queue EXCEPT ![call.que] = Append(@, call.node)]
             ELSE queue
  /\ todo' = Tail(todo)
  /\ UNCHANGED <<lhb_active_owner, held, call, again, deaths>>

(* The process in the table dies; the system releases its mutex. *)
Die ==
  /\ held
  /\ deaths < MaxDeaths
  /\ LateDeath \/ word[shb_insert_que] # NULL \/ word[shb_insert_prior] = NULL
  /\ deaths' = deaths + 1
  /\ held' = FALSE
  /\ again' = again \cup {n \in Nodes : n = call.node /\ ~Member(n)}
  /\ todo' = <<>>
  /\ call' = Idle
  /\ UNCHANGED <<word, lhb_active_owner, queue>>

Next ==
  \/ acquire
  \/ release_mutex
  \/ \E q \in Queues, n \in Nodes : Insert(q, n)
  \/ \E n \in Nodes : Remove(n) \/ RemoveAgain(n)
  \/ Store
  \/ Die

Spec == Init /\ [][Next]_vars

-----------------------------------------------------------------------------
(* The ring of q, forwards and backwards, is the sequence s. *)
Ring(q, s) ==
  LET cell == <<q>> \o s \o <<q>>
  IN \A i \in 1 .. Len(s) + 1 :
       /\ word[srq_forward(cell[i])] = cell[i + 1]
       /\ word[srq_backward(cell[i + 1])] = cell[i]

(* Whoever works in the table, after the recovery, finds every queue as    *)
(* the finished insert_tail() and remove_que() calls left it: an insertion *)
(* cut short has not happened and a removal cut short has.                 *)
Whole == InSection => \A q \in Queues : Ring(q, queue[q])
=============================================================================
