-------------------------------- MODULE Fifo --------------------------------
(***************************************************************************)
(* What the send queue promises the transmit loop: a first-in first-out    *)
(* queue of packets in which an enqueue and a dequeue each take effect at  *)
(* one instant, and in which a dequeue that reports "nothing there" does   *)
(* so only while the queue is empty.                                       *)
(*                                                                         *)
(* Queue.tla (the lock-free list of queue.h) is shown to implement this    *)
(* module; Pktizr.tla (the three threads) uses it in place of the list.    *)
(***************************************************************************)
EXTENDS Sequences

CONSTANTS Nodes,   \* the packets (their embedded queue nodes)
          NULL     \* "nothing there"

VARIABLES queue,   \* the packets enqueued and not dequeued, oldest first
          result   \* what the last finished dequeue returned

fifoVars == <<queue, result>>

Init ==
    /\ queue = <<>>
    /\ result = NULL

Enqueue(n) ==
    /\ queue' = Append(queue, n)
    /\ UNCHANGED result

Dequeue ==
    /\ queue # <<>>
    /\ result' = Head(queue)
    /\ queue' = Tail(queue)

DequeueEmpty ==
    /\ queue = <<>>
    /\ result' = NULL
    /\ UNCHANGED queue

Next ==
    \/ \E n \in Nodes : Enqueue(n)
    \/ Dequeue
    \/ DequeueEmpty

Spec == Init /\ [][Next]_fifoVars
=============================================================================
