-------------------------------- MODULE Queue --------------------------------
(***************************************************************************)
(* os_queue_t: a linked list of heap blocks with a head, a tail and a      *)
(* count, on the control blocks of module Task.                            *)
(*                                                                         *)
(* os_queue_send() allocates its node before its critical section, and on  *)
(* a full queue frees it between two critical sections: the full test is   *)
(* in the first, the parking in the second.                                *)
(*                                                                         *)
(* Both heap calls run with interrupts enabled, so another task can enter  *)
(* the heap while one is inside.  A call alone in the heap takes or gives  *)
(* back one block; calls that overlap may do anything to the block list    *)
(* (module Heap, run heap_race).  heap_raced remembers that two did.  From *)
(* then on nothing is said of the nodes; the counts, the wakeups and the   *)
(* waits go on as long as the damage stays in the blocks and spares the    *)
(* queues' own fields and the control blocks.                              *)
(***************************************************************************)
EXTENDS Task, Sequences

CONSTANTS
  Queues,       \* the queues of the application
  MaxItems,     \* max_count of each, 0 for an unbounded queue
  Items,        \* the payloads
  Nodes,        \* the blocks the heap has room for
  Senders,      \* the tasks that send
  Receivers     \* the tasks that receive

ASSUME QueueAssumption ==
  /\ Queues \subseteq Resources
  /\ MaxItems \in [Queues -> Nat]
  /\ NULL \notin Items \cup Nodes
  /\ Senders \subseteq AppTasks
  /\ Receivers \subseteq AppTasks

VARIABLES
  head, tail, q_count,   \* the fields of each os_queue_t
  next, data,            \* the fields of each os_queue_node_t
  heap_free,             \* the blocks the heap has free
  in_heap,               \* the tasks inside os_malloc or os_mfree
  heap_raced,            \* history: two of them were inside at once
  node,                  \* the local variable node of each task
  sent,                  \* the argument data of its os_queue_send
  buffer,                \* what its last os_queue_receive stored
  switched               \* history: a scan has chosen who runs

blockVars == <<head, tail, next, data, heap_free, node, buffer>>
heapVars  == <<in_heap, heap_raced>>
queueVars == <<blockVars, heapVars, q_count, sent>>
qVars     == <<taskVars, queueVars, switched>>

os_queue_init ==
  /\ head = [q \in Queues |-> NULL]
  /\ tail = [q \in Queues |-> NULL]
  /\ q_count = [q \in Queues |-> 0]

QueueInit ==
  /\ TaskInit
  /\ os_queue_init
  /\ next = [n \in Nodes |-> NULL]
  /\ data = [n \in Nodes |-> NULL]
  /\ heap_free = Nodes
  /\ node = [t \in Tasks |-> NULL]
  /\ buffer = [t \in Tasks |-> NULL]
  /\ in_heap = {}
  /\ heap_raced = FALSE
  /\ sent = [t \in Tasks |-> NULL]
  /\ switched = FALSE

(* The nodes are given up: from here on these values stand for nothing. *)
LoseBlocks ==
  /\ head' = [q \in Queues |-> NULL]
  /\ tail' = [q \in Queues |-> NULL]
  /\ next' = [n \in Nodes |-> NULL]
  /\ data' = [n \in Nodes |-> NULL]
  /\ heap_free' = {}
  /\ node' = [t \in Tasks |-> NULL]
  /\ buffer' = [t \in Tasks |-> NULL]

(* Task t begins a heap call, maybe while another task is inside one. *)
EnterHeap(t) ==
  /\ in_heap' = in_heap \cup {t}
  /\ heap_raced' = (heap_raced \/ in_heap # {})
  /\ IF heap_raced \/ in_heap # {} THEN LoseBlocks ELSE UNCHANGED blockVars

LeaveHeap(t) ==
  /\ in_heap' = in_heap \ {t}
  /\ UNCHANGED heap_raced

(* What a step does to the nodes, while blocks still have one owner. *)
UntilRace(change) == IF heap_raced THEN UNCHANGED blockVars ELSE change

(* A freed block keeps nothing anybody may read. *)
os_mfree(n) ==
  /\ heap_free' = heap_free \cup {n}
  /\ next' = [next EXCEPT ![n] = NULL]
  /\ data' = [data EXCEPT ![n] = NULL]

(* A wake for receivers only when the queue was empty. *)
queue_wake_one_onlyempty(q, waiting_state) ==
  IF waiting_state = "QUEUE_RECV_WAITING" /\ q_count[q] > 0
  THEN {}
  ELSE Woken(waiting_state, q, priority)

(* The task one send or one receive wakes. *)
queue_wake_one(q, waiting_state) == Woken(waiting_state, q, priority)

At(t, label) == Running(t) /\ pc[t] = label

AtMfree == { "queue_full", "queue_free", "queue_free_woke" }
-----------------------------------------------------------------------------
(* The head of the send loop, up to the first instruction of os_malloc. *)
os_queue_send(t, q) ==
  /\ \/ /\ Calls(t)
        /\ \E d \in Items : sent' = [sent EXCEPT ![t] = d]
     \/ /\ At(t, "queue_send") /\ t \notin in_heap /\ arg[t] = q
        /\ UNCHANGED sent
  /\ pc' = [pc EXCEPT ![t] = "queue_send"]
  /\ arg' = [arg EXCEPT ![t] = q]
  /\ EnterHeap(t)
  /\ UNCHANGED <<q_count, tcbVars>>
  /\ UNCHANGED cpuVars

(* os_malloc returns a block, and the send fills it. *)
SendAlloc(t) ==
  /\ At(t, "queue_send") /\ t \in in_heap
  /\ UntilRace(\E n \in heap_free :
       /\ heap_free' = heap_free \ {n}
       /\ next' = [next EXCEPT ![n] = NULL]
       /\ data' = [data EXCEPT ![n] = sent[t]]
       /\ node' = [node EXCEPT ![t] = n]
       /\ UNCHANGED <<head, tail, buffer>>)
  /\ LeaveHeap(t)
  /\ pc' = [pc EXCEPT ![t] = "queue_link"]
  /\ UNCHANGED <<arg, sent, q_count, tcbVars>>
  /\ UNCHANGED cpuVars

(* os_malloc returns NULL, and the send -1. *)
SendFails(t) ==
  /\ At(t, "queue_send") /\ t \in in_heap
  /\ heap_free = {} \/ heap_raced
  /\ LeaveHeap(t)
  /\ Return(t, "run")
  /\ sent' = [sent EXCEPT ![t] = NULL]
  /\ UNCHANGED <<blockVars, q_count, tcbVars>>
  /\ UNCHANGED cpuVars

HasRoom(q) == MaxItems[q] = 0 \/ q_count[q] < MaxItems[q]

(* The link at the wrong end of the list. *)
Append_front(q, n) ==
  /\ head' = [head EXCEPT ![q] = n]
  /\ next' = [next EXCEPT ![n] = head[q]]
  /\ tail' = [tail EXCEPT ![q] = IF @ = NULL THEN n ELSE @]

AppendNode(q, n) ==
  /\ tail' = [tail EXCEPT ![q] = n]
  /\ \/ tail[q] = NULL /\ head' = [head EXCEPT ![q] = n] /\ UNCHANGED next
     \/ tail[q] # NULL /\ next' = [next EXCEPT ![tail[q]] = n] /\ UNCHANGED head

(* A send that returns without pending PendSV for the task it woke. *)
AfterWake_return(woken, yield, label) == label

AfterWake(woken, yield, label) == IF woken # {} THEN yield ELSE label

(* The first critical section of a send, its branch with room. *)
SendLink(t) ==
  /\ At(t, "queue_link") /\ HasRoom(arg[t])
  /\ UntilRace(/\ AppendNode(arg[t], node[t])
               /\ node' = [node EXCEPT ![t] = NULL]
               /\ UNCHANGED <<data, heap_free, buffer>>)
  /\ LET woken == queue_wake_one(arg[t], "QUEUE_RECV_WAITING")
     IN  /\ Wake(woken)
         /\ Return(t, AfterWake(woken, "wake_yield", "run"))
  /\ q_count' = [q_count EXCEPT ![arg[t]] = @ + 1]
  /\ sent' = [sent EXCEPT ![t] = NULL]
  /\ UNCHANGED <<delay_ticks, priority, heapVars>>
  /\ UNCHANGED cpuVars

(* Its branch without. *)
SendFull(t) ==
  /\ At(t, "queue_link") /\ ~ HasRoom(arg[t])
  /\ pc' = [pc EXCEPT ![t] = "queue_full"]
  /\ UNCHANGED <<arg, tcbVars, queueVars>>
  /\ UNCHANGED cpuVars

(* The call of os_mfree, after one critical section or the other. *)
MfreeBegins(t) ==
  /\ Running(t) /\ pc[t] \in AtMfree /\ t \notin in_heap
  /\ EnterHeap(t)
  /\ UNCHANGED <<pc, arg, tcbVars, q_count, sent>>
  /\ UNCHANGED cpuVars

(* os_mfree returns; the node is the caller's no more. *)
MfreeEnds(t) ==
  /\ Running(t) /\ t \in in_heap
  /\ UntilRace(/\ os_mfree(node[t])
               /\ node' = [node EXCEPT ![t] = NULL]
               /\ UNCHANGED <<head, tail, buffer>>)
  /\ LeaveHeap(t)
  /\ UNCHANGED <<arg, tcbVars, q_count, sent>>
  /\ UNCHANGED cpuVars

(* The full branch that parks without freeing its node. *)
SendFree_leak(t) ==
  /\ At(t, "queue_full") /\ t \in in_heap
  /\ UntilRace(/\ node' = [node EXCEPT ![t] = NULL]
               /\ UNCHANGED <<head, tail, buffer, next, data, heap_free>>)
  /\ LeaveHeap(t)
  /\ pc' = [pc EXCEPT ![t] = "queue_park"]
  /\ UNCHANGED <<arg, tcbVars, q_count, sent>>
  /\ UNCHANGED cpuVars

SendFree(t) ==
  /\ At(t, "queue_full")
  /\ MfreeEnds(t)
  /\ pc' = [pc EXCEPT ![t] = "queue_park"]

(* The second critical section: the queue is not looked at again. *)
SendPark(t) ==
  /\ At(t, "queue_park")
  /\ Park(t, "QUEUE_SEND_WAITING", arg[t], "send_yield")
  /\ UNCHANGED <<delay_ticks, priority, queueVars>>
  /\ UNCHANGED cpuVars
-----------------------------------------------------------------------------
(* The head of the receive loop; the node is freed after the section. *)
os_queue_receive(t, q) ==
  /\ AtHead(t, "queue_receive", q)
  /\ \/ /\ q_count[q] > 0
        /\ UntilRace(LET n == head[q] IN
             /\ buffer' = [buffer EXCEPT ![t] = data[n]]
             /\ head' = [head EXCEPT ![q] = next[n]]
             /\ tail' = [tail EXCEPT ![q] = IF next[n] = NULL THEN NULL ELSE @]
             /\ node' = [node EXCEPT ![t] = n]
             /\ UNCHANGED <<next, data, heap_free>>)
        /\ LET woken == queue_wake_one(q, "QUEUE_SEND_WAITING")
           IN  /\ Wake(woken)
               /\ Return(t, AfterWake(woken, "queue_free_woke", "queue_free"))
        /\ q_count' = [q_count EXCEPT ![q] = @ - 1]
     \/ /\ q_count[q] = 0
        /\ Park(t, "QUEUE_RECV_WAITING", q, "recv_yield")
        /\ UNCHANGED <<blockVars, q_count>>
  /\ UNCHANGED <<delay_ticks, priority, heapVars, sent>>
  /\ UNCHANGED cpuVars

(* The return of a receive that does not look at woke once it has freed. *)
ReceiveFree_return(t) ==
  /\ At(t, "queue_free") \/ At(t, "queue_free_woke")
  /\ MfreeEnds(t)
  /\ pc' = [pc EXCEPT ![t] = "run"]

(* woke was stored in the section; ICSR is written after the free. *)
ReceiveFree(t) ==
  /\ At(t, "queue_free") \/ At(t, "queue_free_woke")
  /\ MfreeEnds(t)
  /\ pc' = [pc EXCEPT ![t] =
              IF pc[t] = "queue_free_woke" THEN "wake_yield" ELSE "run"]
-----------------------------------------------------------------------------
QueueStep ==
  \/ \E t \in Senders :
       \/ \E q \in Queues : os_queue_send(t, q)
       \/ SendAlloc(t) \/ SendFails(t) \/ SendLink(t)
       \/ SendFull(t) \/ SendFree(t) \/ SendPark(t)
  \/ \E t \in Receivers :
       \/ \E q \in Queues : os_queue_receive(t, q)
       \/ ReceiveFree(t)
  \/ \E t \in Senders \cup Receivers : MfreeBegins(t)

(* A scan ends and the task it chose is launched. *)
ScanEnds == scan_i # NotScanning /\ scan_i' = NotScanning

QueueNext ==
  \/ /\ TaskNext
     /\ switched' = (switched \/ ScanEnds)
     /\ UNCHANGED queueVars
  \/ QueueStep /\ UNCHANGED switched

QueueSpec == QueueInit /\ [][QueueNext]_qVars
-----------------------------------------------------------------------------
(* Types; a bounded queue never holds more than its limit. *)
QueueTypeOK ==
  /\ TaskTypeOK
  /\ head \in [Queues -> Nodes \cup {NULL}]
  /\ tail \in [Queues -> Nodes \cup {NULL}]
  /\ q_count \in [Queues -> Nat]
  /\ \A q \in Queues : MaxItems[q] # 0 => q_count[q] <= MaxItems[q]
  /\ next \in [Nodes -> Nodes \cup {NULL}]
  /\ data \in [Nodes -> Items \cup {NULL}]
  /\ heap_free \subseteq Nodes
  /\ in_heap \subseteq Senders \cup Receivers
  /\ heap_raced \in BOOLEAN
  /\ node \in [Tasks -> Nodes \cup {NULL}]
  /\ sent \in [Tasks -> Items \cup {NULL}]
  /\ buffer \in [Tasks -> Items \cup {NULL}]
  /\ switched \in BOOLEAN

(* The nodes of a queue in list order: n of them from h on. *)
ListFrom(h, nx, n) ==
  LET at[i \in 1 .. n] == IF i = 1 THEN h ELSE nx[at[i - 1]]
  IN  at

NodeAt(q) == ListFrom(head[q], next, q_count[q])

(***************************************************************************)
(* Until two heap calls overlap the list of nodes is a bounded FIFO: items *)
(* come out in the order of the critical sections that linked them, with   *)
(* tasks preempting one another between allocation, linking, unlinking and *)
(* free.  Nothing is claimed from the step in which a second task enters   *)
(* the heap.                                                               *)
(***************************************************************************)
Fifo == INSTANCE BoundedFifo
          WITH Clients <- Tasks, Capacity <- MaxItems, NoItem <- NULL,
               items <- [q \in Queues |->
                          [i \in 1 .. q_count[q] |-> data[NodeAt(q)[i]]]],
               buffer <- buffer

FifoUntilRace == Fifo!Init /\ [][heap_raced' \/ Fifo!Next]_(Fifo!vars)

(***************************************************************************)
(* Every block has one owner: it is free, or linked once in one queue with *)
(* the tail last, or in the hands of one task that will link or free it.   *)
(* So nothing leaks and nothing is freed while it is linked.               *)
(***************************************************************************)
Linked(q) == { NodeAt(q)[i] : i \in 1 .. q_count[q] }

InHand == { node[t] : t \in { u \in Tasks : node[u] # NULL } }

BlocksAccounted ==
  /\ Nodes = heap_free \cup InHand \cup UNION { Linked(q) : q \in Queues }
  /\ heap_free \cap InHand = {}
  /\ \A q \in Queues :
       /\ Linked(q) \cap (heap_free \cup InHand) = {}
       /\ Cardinality(Linked(q)) = q_count[q]
       /\ tail[q] = IF q_count[q] = 0 THEN NULL ELSE NodeAt(q)[q_count[q]]
       /\ \A p \in Queues \ {q} : Linked(p) \cap Linked(q) = {}
  /\ \A t, u \in Tasks : node[t] = node[u] /\ node[t] # NULL => t = u

(* Each list ends where its count says, and every node in it holds an item. *)
ListsEnd ==
  \A q \in Queues :
    /\ \A i \in 1 .. q_count[q] : data[NodeAt(q)[i]] \in Items
    /\ IF q_count[q] = 0 THEN head[q] = NULL
                         ELSE next[NodeAt(q)[q_count[q]]] = NULL

(* Where a task is in the code decides what it has in hand: a node between  *)
(* allocation and linking, or between unlinking and free.                   *)
Holding == { "queue_link" } \cup AtMfree

HandOf(t) ==
  /\ node[t] # NULL <=> pc[t] \in Holding
  /\ pc[t] = "queue_link" => next[node[t]] = NULL /\ data[node[t]] = sent[t]

BlocksOwned == BlocksAccounted /\ ListsEnd /\ \A t \in Tasks : HandOf(t)

(* A sender has the item it came to send until the send returns; a parked   *)
(* receiver will try the queue it waits for again; and a task inside the    *)
(* heap is at one of the calls of it.                                       *)
Sending == { "queue_send", "queue_link", "queue_full", "queue_park", "send_yield" }

LocalsOf(t) ==
  /\ pc[t] \in Sending => arg[t] \in Queues /\ sent[t] \in Items
  /\ t \in in_heap => pc[t] \in {"queue_send"} \cup AtMfree
  /\ state[t] = "QUEUE_RECV_WAITING" =>
       /\ pc[t] \in {"queue_receive", "recv_yield"}
       /\ arg[t] = waiting_for_resource[t]

LocalsFollow == \A t \in Tasks : LocalsOf(t)

(***************************************************************************)
(* Types and bounds always; and until two heap calls overlap, every block  *)
(* of the heap has exactly one owner at every point where a task in the    *)
(* queue's code can be preempted, the inside of the heap calls included.   *)
(***************************************************************************)
QueueInv ==
  /\ QueueTypeOK
  /\ SchedInv
  /\ LocalsFollow
  /\ ~heap_raced => BlocksOwned

(***************************************************************************)
(* No item is stranded: while receivers are parked on a queue, every item  *)
(* in it is matched by a woken receiver that will try to take it.          *)
(***************************************************************************)
NoStrandedItem ==
  \A q \in Queues : Waiters("QUEUE_RECV_WAITING", q) # {} =>
    q_count[q] <= Cardinality(Retriers("queue_receive", "recv_yield", q))

(***************************************************************************)
(* A woken task is not kept waiting by a lower one: once a scan has chosen *)
(* who runs, no READY task outranks the task that executes, except between *)
(* the critical section of a send or a receive that woke it and the write  *)
(* of ICSR that ends the same call, after the free.                        *)
(***************************************************************************)
OwesYield == { "wake_yield", "queue_free_woke" }

NobodyOutranksRunner ==
  switched =>
    \A t, u \in Tasks :
      Running(t) /\ pc[t] \notin OwesYield /\ state[u] = "READY" =>
        priority[u] <= priority[t]

(***************************************************************************)
(* A sender and a receiver never both wait for the same queue with nobody  *)
(* woken: the queue is full, or empty, or some task is about to use it.    *)
(* Stated of runs in which no two heap calls overlapped.                   *)
(***************************************************************************)
NoMutualWait ==
  ~heap_raced =>
    \A q \in Queues :
      \/ Waiters("QUEUE_SEND_WAITING", q) = {}
      \/ Waiters("QUEUE_RECV_WAITING", q) = {}
      \/ Retriers("queue_send", "send_yield", q) # {}
      \/ Retriers("queue_receive", "recv_yield", q) # {}
=============================================================================
