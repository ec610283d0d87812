------------------------------- MODULE Queue --------------------------------
(***************************************************************************)
(* The lock-free send queue of queue.h: a singly linked list of nodes      *)
(* embedded in packets, with a sentinel node q->node in front and a tail   *)
(* pointer q->p.  Any thread whose script calls pkt.send() is a producer;  *)
(* the transmit loop is the only consumer.                                 *)
(*                                                                         *)
(* Every load, store and atomic operation on shared memory is a step of    *)
(* its own, so all interleavings of producers and consumer are explored.   *)
(* A node is a piece of memory: once the consumer is done with a packet    *)
(* its node may be freed and handed out again by a later pkt_new().        *)
(*                                                                         *)
(* Assumed of scripts: no packet object is given to pkt.send() twice, not  *)
(* even after it was transmitted.  queue_enqueue does not clear            *)
(* node->next, pop_pkt leaves the script a reference (script.c:543), and a *)
(* packet that was followed by another when it was dequeued still points   *)
(* at it.  scripts/http.lua:75 keeps the rule: "We can't reuse pkt_ip4 and *)
(* pkt_tcp again [...] so we creare new ones."                             *)
(***************************************************************************)
EXTENDS Integers, Sequences

CONSTANTS Nodes,      \* the queue nodes of packets
          Producers,  \* the threads that call queue_enqueue
          Consumer,   \* the thread that calls queue_dequeue
          QNode,      \* the sentinel &q->node
          NULL

ASSUME QueueAssumption ==
    /\ QNode \notin Nodes
    /\ NULL \notin Nodes \cup {QNode}

VARIABLES next,      \* node->next, for every packet node and the sentinel
          p,         \* q->p, the tail pointer
          owner,     \* what a node is: "free" memory (or the rest of a
                     \* packet already sent), "new" and private to a
                     \* script, "queued", or "taken" by the consumer
          epc,       \* where a producer is in queue_enqueue
          enode,     \* the node it is enqueueing
          old_tail,  \* what its exchange of q->p returned
          dpc,       \* where the consumer is in queue_dequeue
          dnode,     \* its local variable node
          dnext,     \* its local variable next
          queue,     \* history: nodes in the order of their exchange of q->p,
                     \* minus the ones already returned by queue_dequeue
          result     \* history: what the last finished queue_dequeue returned

prodVars == <<epc, enode, old_tail>>
consVars == <<dpc, dnode, dnext>>
vars == <<next, p, owner, prodVars, consVars, queue, result>>

AllNodes == Nodes \cup {QNode}
Pointers == AllNodes \cup {NULL}

(* queue_init, run by main before any thread is started.                   *)
Init ==
    /\ next = [n \in AllNodes |-> NULL]
    /\ p = QNode
    /\ owner = [n \in Nodes |-> "free"]
    /\ epc = [t \in Producers |-> "idle"]
    /\ enode = [t \in Producers |-> NULL]
    /\ old_tail = [t \in Producers |-> NULL]
    /\ dpc = "idle"
    /\ dnode = NULL
    /\ dnext = NULL
    /\ queue = <<>>
    /\ result = NULL

-----------------------------------------------------------------------------
(* A script allocates a packet.                                            *)

(* Mutant: a reused node keeps the next pointer of its former life.        *)
PktNewUncleared(n) ==
    /\ owner[n] = "free"
    /\ owner' = [owner EXCEPT ![n] = "new"]
    /\ UNCHANGED <<next, p, prodVars, consVars, queue, result>>

(* pkt_new clears node->next: the only place where that happens.  Which    *)
(* thread's script holds the packet makes no difference to the queue.      *)
PktNew(n) ==
    /\ owner[n] = "free"
    /\ owner' = [owner EXCEPT ![n] = "new"]
    /\ next' = [next EXCEPT ![n] = NULL]
    /\ UNCHANGED <<p, prodVars, consVars, queue, result>>

-----------------------------------------------------------------------------
(* queue_enqueue: an exchange of the tail pointer, then a store that links *)
(* the old tail to the new node.  The transmit loop enqueues too (from the *)
(* script's loop()), but never in the middle of its own dequeue.           *)

EnqExchange(t, n) ==
    /\ epc[t] = "idle"
    /\ t = Consumer => dpc = "idle"
    /\ owner[n] = "new"
    /\ p' = n
    /\ old_tail' = [old_tail EXCEPT ![t] = p]
    /\ enode' = [enode EXCEPT ![t] = n]
    /\ owner' = [owner EXCEPT ![n] = "queued"]
    /\ epc' = [epc EXCEPT ![t] = "link"]
    /\ queue' = Append(queue, n)
    /\ UNCHANGED <<next, consVars, result>>

(* Mutant: no link is stored when the queue was empty.                     *)
EnqLinkOnlyBehind(t) ==
    /\ epc[t] = "link"
    /\ next' = IF old_tail[t] = QNode THEN next
               ELSE [next EXCEPT ![old_tail[t]] = enode[t]]
    /\ epc' = [epc EXCEPT ![t] = "idle"]
    /\ UNCHANGED <<p, owner, enode, old_tail, consVars, queue, result>>

EnqLink(t) ==
    /\ epc[t] = "link"
    /\ next' = [next EXCEPT ![old_tail[t]] = enode[t]]
    /\ epc' = [epc EXCEPT ![t] = "idle"]
    /\ UNCHANGED <<p, owner, enode, old_tail, consVars, queue, result>>

-----------------------------------------------------------------------------
(* queue_dequeue.                                                          *)

(* The first half of queue_empty: is q->node.next NULL?                    *)
DeqLoadHead ==
    /\ dpc = "idle"
    /\ Consumer \in Producers => epc[Consumer] = "idle"
    /\ dpc' = IF next[QNode] = NULL THEN "tail" ELSE "first"
    /\ UNCHANGED <<next, p, owner, prodVars, dnode, dnext, queue, result>>

(* Mutant: a NULL link at the sentinel is taken for an empty queue.        *)
DeqLoadTailUnread ==
    /\ dpc = "tail"
    /\ dpc' = "idle"
    /\ result' = NULL
    /\ UNCHANGED <<next, p, owner, prodVars, dnode, dnext, queue>>

(* Mutant: the dequeue goes on to the first node without reading q->p.     *)
DeqLoadTailSkipped ==
    /\ dpc = "tail"
    /\ dpc' = "first"
    /\ UNCHANGED <<next, p, owner, prodVars, dnode, dnext, queue, result>>

(* The second half: does q->p point at the sentinel?  If so, return NULL.  *)
DeqLoadTail ==
    /\ dpc = "tail"
    /\ IF p = QNode
         THEN dpc' = "idle" /\ result' = NULL
         ELSE dpc' = "first" /\ UNCHANGED result
    /\ UNCHANGED <<next, p, owner, prodVars, dnode, dnext, queue>>

(* queue_node_next(&q->node) spins until the first link is there.          *)
DeqFirst ==
    /\ dpc = "first"
    /\ next[QNode] # NULL
    /\ dnode' = next[QNode]
    /\ dpc' = "next"
    /\ UNCHANGED <<next, p, owner, prodVars, dnext, queue, result>>

(* Load node->next: with a successor, go on to unlink; without, the node   *)
(* may be the last one.                                                    *)
DeqLoadNext ==
    /\ dpc = "next"
    /\ dnext' = next[dnode]
    /\ dpc' = IF next[dnode] = NULL THEN "reset" ELSE "unlink"
    /\ UNCHANGED <<next, p, owner, prodVars, dnode, queue, result>>

(* queue_node_init(&q->node), before the compare-and-exchange.             *)
DeqReset ==
    /\ dpc = "reset"
    /\ next' = [next EXCEPT ![QNode] = NULL]
    /\ dpc' = "cas"
    /\ UNCHANGED <<p, owner, prodVars, dnode, dnext, queue, result>>

(* Return dnode to the transmit loop.                                      *)
Return ==
    /\ result' = dnode
    /\ owner' = [owner EXCEPT ![dnode] = "taken"]
    /\ queue' = Tail(queue)
    /\ dpc' = "hold"

(* Mutant: a plain store to q->p instead of a compare-and-exchange.        *)
DeqCasLastPlainStore ==
    /\ dpc = "cas"
    /\ p' = QNode
    /\ Return
    /\ UNCHANGED <<next, prodVars, dnode, dnext>>

(* cmpxchg(&q->p, node, &q->node): the node was still the last one, and    *)
(* the queue is empty now.                                                 *)
DeqCasLast ==
    /\ dpc = "cas"
    /\ p = dnode
    /\ p' = QNode
    /\ Return
    /\ UNCHANGED <<next, prodVars, dnode, dnext>>

(* Mutant: a dequeue that loses the exchange gives up until the next call. *)
DeqCasFailGivesUp ==
    /\ dpc = "cas"
    /\ p # dnode
    /\ dpc' = "idle"
    /\ UNCHANGED <<next, p, owner, prodVars, dnode, dnext, queue, result>>

(* The exchange fails: a producer has enqueued behind the node.            *)
DeqCasFail ==
    /\ dpc = "cas"
    /\ p # dnode
    /\ dpc' = "succ"
    /\ UNCHANGED <<next, p, owner, prodVars, dnode, dnext, queue, result>>

(* queue_node_next(node) spins until that producer has stored its link.    *)
DeqSucc ==
    /\ dpc = "succ"
    /\ next[dnode] # NULL
    /\ dnext' = next[dnode]
    /\ dpc' = "unlink"
    /\ UNCHANGED <<next, p, owner, prodVars, dnode, queue, result>>

(* q->node.next = next; return node.                                       *)
DeqUnlink ==
    /\ dpc = "unlink"
    /\ next' = [next EXCEPT ![QNode] = dnext]
    /\ Return
    /\ UNCHANGED <<p, prodVars, dnode, dnext>>

(* The transmit loop has sent the packet and dropped its reference; from   *)
(* here on the memory of the node may be freed and reused.                 *)
Release ==
    /\ dpc = "hold"
    /\ owner' = [owner EXCEPT ![dnode] = "free"]
    /\ dpc' = "idle"
    /\ UNCHANGED <<next, p, prodVars, dnode, dnext, queue, result>>

-----------------------------------------------------------------------------
Enqueue == \E t \in Producers : (\E n \in Nodes : EnqExchange(t, n)) \/ EnqLink(t)

Dequeue ==
    \/ DeqLoadHead
    \/ DeqLoadTail
    \/ DeqFirst
    \/ DeqLoadNext
    \/ DeqReset
    \/ DeqCasLast
    \/ DeqCasFail
    \/ DeqSucc
    \/ DeqUnlink

Next == (\E n \in Nodes : PktNew(n)) \/ Enqueue \/ Dequeue \/ Release

Spec == Init /\ [][Next]_vars

(* The kernel schedules every runnable thread: a producer inside           *)
(* queue_enqueue finishes it, and the transmit loop keeps going round its  *)
(* while loop, calling queue_dequeue each time.  No script is obliged to   *)
(* send anything.                                                          *)
Fairness ==
    /\ \A t \in Producers : WF_vars(EnqLink(t))
    /\ WF_vars(Dequeue \/ Release)

FairSpec == Spec /\ Fairness

-----------------------------------------------------------------------------
TypeOK ==
    /\ next \in [AllNodes -> Nodes \cup {NULL}]
    /\ p \in AllNodes
    /\ owner \in [Nodes -> {"free", "new", "queued", "taken"}]
    /\ epc \in [Producers -> {"idle", "link"}]
    /\ enode \in [Producers -> Nodes \cup {NULL}]
    /\ old_tail \in [Producers -> Pointers]
    /\ dpc \in {"idle", "tail", "first", "next", "reset", "cas", "succ",
                "unlink", "hold"}
    /\ dnode \in Nodes \cup {NULL}
    /\ dnext \in Nodes \cup {NULL}
    /\ queue \in Seq(Nodes)
    /\ result \in Nodes \cup {NULL}

(* A producer that is about to store through old_tail->next (queue_enqueue *)
(* line 59) stores into the sentinel or into a packet still in the queue,  *)
(* never into one the transmit loop has already taken and may have freed.  *)
LinkTargetAlive ==
    \A t \in Producers :
        epc[t] = "link" =>
            \/ old_tail[t] = QNode
            \/ old_tail[t] \in Nodes /\ owner[old_tail[t]] = "queued"

(* Whenever queue_dequeue spins on a NULL link (queue_node_next), another  *)
(* thread is between its exchange and its store to exactly that link: the  *)
(* loop never spins on a link nobody will write, nor on its own.           *)
SpinHasWriter ==
    LET Writes(n) == \E t \in Producers \ {Consumer} :
                         epc[t] = "link" /\ old_tail[t] = n
    IN  /\ dpc = "first" /\ next[QNode] = NULL => Writes(QNode)
        /\ dpc = "succ" /\ next[dnode] = NULL => Writes(dnode)

(* The list is a linearizable FIFO queue: packets come out in the order in *)
(* which their producers exchanged q->p, each exactly once, and NULL is    *)
(* returned only at an instant when the queue is empty.                    *)
Abstract == INSTANCE Fifo
IsFifo == Abstract!Spec

(* A call of queue_dequeue that has started returns, whatever producers do *)
DequeueReturns == dpc \notin {"idle", "hold"} ~> dpc \in {"idle", "hold"}

(* Every packet handed to queue_enqueue is returned by a queue_dequeue.    *)
EveryPacketDequeued ==
    \A n \in Nodes : owner[n] = "queued" ~> owner[n] = "taken"

-----------------------------------------------------------------------------
(* The inductive invariant behind the safety properties above.             *)

Elements == {queue[i] : i \in 1..Len(queue)}

(* The node from which position i of the queue is linked.                  *)
Before(i) == IF i = 1 THEN QNode ELSE queue[i - 1]

(* Producer t still owes the link into position i.                         *)
Owes(t, i) == epc[t] = "link" /\ enode[t] = queue[i]

(* Between resetting the sentinel and its return the consumer keeps the    *)
(* sentinel detached from the first node.                                  *)
HeadDetached == dpc \in {"cas", "succ", "unlink"}

Membership ==
    /\ \A n \in Nodes : owner[n] = "queued" <=> n \in Elements
    /\ \A i, j \in 1..Len(queue) : queue[i] = queue[j] => i = j

TailPointer == p = IF queue = <<>> THEN QNode ELSE queue[Len(queue)]

(* Each link is in place, or NULL and owed by a producer.                  *)
Links ==
    /\ \A i \in 1..Len(queue) :
         \/ next[Before(i)] = queue[i]
         \/ next[Before(i)] = NULL /\ \E t \in Producers : Owes(t, i)
         \/ i = 1 /\ HeadDetached
    /\ next[p] = NULL

(* A packet not sent yet links to nothing.                                 *)
Fresh == \A n \in Nodes : owner[n] = "new" => next[n] = NULL

(* What a producer between its two steps owes.                             *)
Debts ==
    /\ \A t \in Producers : epc[t] = "link" =>
         \E i \in 1..Len(queue) :
             /\ enode[t] = queue[i]
             /\ old_tail[t] = Before(i)
             /\ next[Before(i)] = NULL
             /\ i = 1 => dpc \notin {"next", "reset", "cas", "succ", "unlink"}
    /\ \A t, u \in Producers :
         epc[t] = "link" /\ epc[u] = "link" /\ enode[t] = enode[u] => t = u
    /\ Consumer \in Producers /\ epc[Consumer] = "link" => dpc = "idle"

(* What the consumer knows at each point of queue_dequeue.                 *)
ConsumerView ==
    /\ dpc = "first" => queue # <<>>
    /\ dpc \in {"next", "reset", "cas", "succ", "unlink"} =>
         queue # <<>> /\ dnode = queue[1]
    /\ dpc \in {"next", "reset"} => next[QNode] = queue[1]
    /\ dpc \in {"cas", "succ"} => next[QNode] = NULL
    /\ dpc \in {"succ", "unlink"} => Len(queue) > 1
    /\ dpc = "unlink" => next[dnode] = queue[2] /\ dnext = queue[2]
    /\ dpc = "hold" => dnode \in Nodes /\ owner[dnode] = "taken"
    /\ \A n \in Nodes : owner[n] = "taken" => dpc = "hold" /\ n = dnode

(* The links in memory, the tail pointer, the stores producers still have  *)
(* to make and the consumer's local copies spell out the abstract queue,   *)
(* at every point of every queue_enqueue and queue_dequeue; of a packet    *)
(* about to be sent it takes that it is fresh from pkt_new().              *)
IInv ==
    /\ TypeOK
    /\ Membership
    /\ TailPointer
    /\ Links
    /\ Fresh
    /\ Debts
    /\ ConsumerView
=============================================================================
