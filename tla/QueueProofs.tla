---------------------------- MODULE QueueProofs -----------------------------
(***************************************************************************)
(* Proofs about the send queue of queue.h for any number of packets and    *)
(* producers.                                                              *)
(***************************************************************************)
EXTENDS Queue, TLAPS

USE QueueAssumption DEF AllNodes, Pointers

LEMMA InitIInv == Init => IInv
<1> SUFFICES ASSUME Init PROVE IInv
  OBVIOUS
<1> USE DEF Init
<1>1. TypeOK
  BY DEF TypeOK
<1>2. Membership
  BY DEF Membership, Elements
<1>3. TailPointer /\ Links /\ Fresh /\ Debts /\ ConsumerView
  BY DEF TailPointer, Links, Fresh, Debts, ConsumerView, Owes, Before, HeadDetached
<1> QED
  BY <1>1, <1>2, <1>3 DEF IInv

LEMMA PktNewInv ==
  ASSUME IInv, NEW n \in Nodes, PktNew(n)
  PROVE  IInv'
<1> USE DEF IInv
<1>1. TypeOK'
  BY DEF PktNew, TypeOK, prodVars, consVars
<1>2. \A m \in AllNodes : m # n => next'[m] = next[m]
  BY DEF PktNew, TypeOK
<1>3. /\ \A m \in Nodes : m # n => owner'[m] = owner[m]
      /\ owner[n] = "free" /\ owner'[n] = "new" /\ next'[n] = NULL
  BY DEF PktNew, TypeOK
<1>4. /\ UNCHANGED <<p, queue, prodVars, consVars>>
      /\ Len(queue) \in Nat
      /\ \A i \in 1..Len(queue) : queue[i] \in Nodes /\ queue[i] # n
  BY <1>3 DEF PktNew, TypeOK, Membership, Elements
<1>5. Membership' /\ TailPointer'
  BY <1>3, <1>4 DEF Membership, TailPointer, Elements
<1>6. /\ \A i \in 1..Len(queue) : Before(i) \in AllNodes /\ Before(i) # n
      /\ p \in AllNodes /\ p # n
  BY <1>4 DEF Before, TailPointer
<1>7. /\ \A i \in 1..Len(queue) : /\ Before(i)' = Before(i)
                                  /\ next'[Before(i)] = next[Before(i)]
                                  /\ \A t \in Producers : Owes(t, i)' <=> Owes(t, i)
      /\ next'[p] = next[p]
  BY <1>2, <1>4, <1>6 DEF Before, Owes, prodVars
<1>8. Links' /\ Debts'
  BY <1>4, <1>7 DEF Links, Debts, HeadDetached, prodVars, consVars
<1>9. Fresh'
  BY <1>2, <1>3 DEF Fresh
<1>10. ConsumerView'
  <2>1. queue # <<>> => queue[1] \in Nodes /\ queue[1] # n
    BY <1>4 DEF TypeOK
  <2>2. /\ next'[QNode] = next[QNode]
        /\ dpc = "unlink" => next'[dnode] = next[dnode]
    BY <1>2, <2>1 DEF ConsumerView
  <2> QED
    BY <1>3, <1>4, <2>2 DEF ConsumerView, consVars
<1> QED
  BY <1>1, <1>5, <1>8, <1>9, <1>10

LEMMA EnqExchangeInv ==
  ASSUME IInv, NEW t \in Producers, NEW n \in Nodes, EnqExchange(t, n)
  PROVE  IInv'
<1> USE DEF IInv
<1>1. TypeOK'
  BY DEF EnqExchange, TypeOK, consVars
<1>0. PICK L \in Nat : L = Len(queue)
  BY DEF TypeOK
<1>2. /\ L = Len(queue)
      /\ Len(queue') = L + 1
      /\ queue'[L + 1] = n
      /\ \A i \in 1..L : queue'[i] = queue[i]
      /\ \A i \in 1..L : queue[i] \in Nodes
  BY <1>0 DEF EnqExchange, TypeOK
<1>3. n \notin Elements /\ \A i \in 1..L : queue[i] # n
  BY <1>2 DEF EnqExchange, Membership, Elements
<1>4. Membership'
  <2>1. \A m \in Nodes : owner'[m] = "queued" <=> m \in Elements'
    BY <1>2, <1>3 DEF EnqExchange, TypeOK, Membership, Elements
  <2>2. \A i, j \in 1..Len(queue') : queue'[i] = queue'[j] => i = j
    BY <1>2, <1>3 DEF EnqExchange, Membership
  <2> QED
    BY <2>1, <2>2 DEF Membership
<1>5. TailPointer'
  BY <1>2 DEF EnqExchange, TailPointer
<1>6. /\ \A i \in 1..L : Before(i)' = Before(i)
      /\ Before(L + 1)' = p
      /\ p # n
  BY <1>2, <1>3 DEF Before, TailPointer, EnqExchange, TypeOK
<1>7. \A i \in 1..L : Before(i) # n /\ Before(i) \in AllNodes
  BY <1>2, <1>3 DEF Before
<1>8. Links'
  <2>1. ASSUME NEW i \in 1..L
        PROVE  \/ next'[Before(i)'] = queue'[i]
               \/ next'[Before(i)'] = NULL /\ \E u \in Producers : Owes(u, i)'
               \/ i = 1 /\ HeadDetached'
    <3>1. next'[Before(i)'] = next[Before(i)]
      BY <1>6, <1>7 DEF EnqExchange, TypeOK
    <3>2. ASSUME NEW u \in Producers, Owes(u, i) PROVE Owes(u, i)'
      BY <1>2, <3>2 DEF Owes, EnqExchange, TypeOK
    <3> QED
      BY <1>2, <3>1, <3>2 DEF Links, HeadDetached, EnqExchange, consVars
  <2>2. next'[p] = NULL /\ Owes(t, L + 1)'
    BY <1>2, <1>6 DEF Links, Owes, EnqExchange, TypeOK
  <2>3. next'[p'] = NULL
    BY DEF EnqExchange, Fresh
  <2> QED
    BY <1>2, <1>6, <2>1, <2>2, <2>3 DEF Links
<1>9. Debts'
  <2>1. ASSUME NEW u \in Producers, epc'[u] = "link"
        PROVE  \E i \in 1..Len(queue') :
                 /\ enode'[u] = queue'[i]
                 /\ old_tail'[u] = Before(i)'
                 /\ next'[Before(i)'] = NULL
                 /\ i = 1 => dpc' \notin {"next", "reset", "cas", "succ", "unlink"}
    <3>1. CASE u = t
      <4>1. /\ enode'[u] = queue'[L + 1]
            /\ old_tail'[u] = Before(L + 1)'
            /\ next'[Before(L + 1)'] = NULL
        <5>1. enode'[u] = n /\ old_tail'[u] = p
          BY <3>1 DEF EnqExchange, TypeOK
        <5>2. next'[p] = NULL
          BY <1>6 DEF EnqExchange, TypeOK, Links
        <5> QED
          BY <1>2, <1>6, <5>1, <5>2
      <4>2. L = 0 => dpc' \notin {"next", "reset", "cas", "succ", "unlink"}
        BY <1>2 DEF EnqExchange, consVars, ConsumerView, TypeOK
      <4> QED
        BY <1>2, <4>1, <4>2
    <3>2. CASE u # t
      <4>1. PICK i \in 1..L :
               /\ enode[u] = queue[i]
               /\ old_tail[u] = Before(i)
               /\ next[Before(i)] = NULL
               /\ i = 1 => dpc \notin {"next", "reset", "cas", "succ", "unlink"}
        BY <1>2, <2>1, <3>2 DEF Debts, EnqExchange, TypeOK
      <4>2. next'[Before(i)'] = NULL
        BY <1>6, <1>7, <4>1 DEF EnqExchange, TypeOK
      <4> QED
        BY <1>2, <1>6, <3>2, <4>1, <4>2 DEF EnqExchange, consVars, TypeOK
    <3> QED
      BY <3>1, <3>2
  <2>2. ASSUME NEW u \in Producers, NEW v \in Producers,
               epc'[u] = "link", epc'[v] = "link", enode'[u] = enode'[v]
        PROVE  u = v
    <3>1. \A w \in Producers \ {t} : epc[w] = "link" => enode[w] # n
      BY <1>2, <1>3 DEF Debts
    <3> QED
      BY <2>2, <3>1 DEF Debts, EnqExchange, TypeOK
  <2>3. Consumer \in Producers /\ epc'[Consumer] = "link" => dpc' = "idle"
    BY DEF Debts, EnqExchange, consVars, TypeOK
  <2> QED
    BY <2>1, <2>2, <2>3 DEF Debts
<1>11. Fresh'
  BY DEF Fresh, EnqExchange, TypeOK
<1>10. ConsumerView'
  <2>1. queue # <<>> => L > 0 /\ queue' # <<>> /\ queue'[1] = queue[1]
    BY <1>2 DEF TypeOK, EnqExchange
  <2>2. Len(queue) > 1 => Len(queue') > 1 /\ queue'[2] = queue[2]
    BY <1>2
  <2>3. \A m \in AllNodes : m # n => next'[m] = next[m]
    BY DEF EnqExchange, TypeOK
  <2>4. dpc \in {"next", "reset", "cas", "succ", "unlink"} => dnode # n
    BY <1>2, <1>3, <2>1 DEF ConsumerView
  <2>5. \A m \in Nodes : owner'[m] = "taken" <=> owner[m] = "taken"
    BY DEF EnqExchange, TypeOK
  <2> QED
    BY <2>1, <2>2, <2>3, <2>4, <2>5 DEF ConsumerView, EnqExchange, consVars, TypeOK
<1> QED
  BY <1>1, <1>4, <1>5, <1>8, <1>9, <1>10, <1>11

(* Positions are linked from distinct nodes, none of them the last.        *)
LEMMA BeforeFacts ==
  ASSUME IInv
  PROVE  /\ Len(queue) \in Nat
         /\ \A i \in 1..Len(queue) : /\ queue[i] \in Nodes
                                     /\ Before(i) \in AllNodes
                                     /\ Before(i) # p
         /\ \A i, j \in 1..Len(queue) : Before(i) = Before(j) => i = j
<1>1. Len(queue) \in Nat /\ \A i \in 1..Len(queue) : queue[i] \in Nodes
  BY DEF IInv, TypeOK
<1>2. \A i \in 2..Len(queue) : i - 1 \in 1..Len(queue) /\ Before(i) = queue[i - 1]
  BY <1>1 DEF Before
<1>3. Before(1) = QNode
  BY DEF Before
<1>4. \A i \in 1..Len(queue) : i = 1 \/ i \in 2..Len(queue)
  BY <1>1
<1>5. ASSUME NEW i \in 1..Len(queue) PROVE Before(i) \in AllNodes
  BY <1>1, <1>2, <1>3, <1>4
<1>6. ASSUME NEW i \in 1..Len(queue) PROVE Before(i) # p
  <2>1. p = queue[Len(queue)] /\ Len(queue) \in 1..Len(queue)
    BY <1>1 DEF IInv, TailPointer
  <2> QED
    BY <1>1, <1>2, <1>3, <1>4, <2>1 DEF IInv, Membership
<1>7. ASSUME NEW i \in 1..Len(queue), NEW j \in 1..Len(queue), Before(i) = Before(j)
      PROVE  i = j
  <2>1. CASE i = 1 \/ j = 1
    BY <1>1, <1>2, <1>3, <1>4, <1>7, <2>1
  <2>2. CASE i \in 2..Len(queue) /\ j \in 2..Len(queue)
    <3>1. i - 1 = j - 1
      BY <1>2, <1>7, <2>2 DEF IInv, Membership
    <3> QED
      BY <1>1, <2>2, <3>1
  <2> QED
    BY <1>4, <2>1, <2>2
<1> QED
  BY <1>1, <1>5, <1>6, <1>7

LEMMA EnqLinkInv ==
  ASSUME IInv, NEW t \in Producers, EnqLink(t)
  PROVE  IInv'
<1>1. PICK k \in 1..Len(queue) :
         /\ enode[t] = queue[k]
         /\ old_tail[t] = Before(k)
         /\ next[Before(k)] = NULL
         /\ k = 1 => dpc \notin {"next", "reset", "cas", "succ", "unlink"}
  BY DEF IInv, Debts, EnqLink
<1>2. /\ next'[Before(k)] = queue[k]
      /\ \A m \in AllNodes : m # Before(k) => next'[m] = next[m]
  BY <1>1, BeforeFacts DEF IInv, TypeOK, EnqLink
<1>3. TypeOK'
  BY <1>1, BeforeFacts DEF IInv, TypeOK, EnqLink, consVars
<1>4. Membership' /\ TailPointer'
  BY DEF IInv, Membership, Elements, TailPointer, EnqLink
<1>5. \A i \in 1..Len(queue) : Before(i)' = Before(i)
  BY DEF Before, EnqLink
<1>6. \A u \in Producers : u # t => epc'[u] = epc[u]
  BY DEF EnqLink, IInv, TypeOK
<1>7. Links'
  <2>1. ASSUME NEW i \in 1..Len(queue), i # k
        PROVE  \/ next'[Before(i)] = queue[i]
               \/ next'[Before(i)] = NULL /\ \E u \in Producers : Owes(u, i)'
               \/ i = 1 /\ HeadDetached
    <3>1. next'[Before(i)] = next[Before(i)]
      BY <1>2, <2>1, BeforeFacts
    <3>2. ASSUME NEW u \in Producers, Owes(u, i) PROVE Owes(u, i)'
      <4>1. u # t
        BY <1>1, <2>1, <3>2 DEF IInv, Membership, Owes
      <4> QED
        BY <1>6, <3>2, <4>1 DEF Owes, EnqLink
    <3> QED
      BY <3>1, <3>2 DEF IInv, Links
  <2>2. next'[p] = NULL
    BY <1>2, BeforeFacts DEF IInv, Links, TypeOK
  <2> QED
    BY <1>2, <1>5, <2>1, <2>2 DEF Links, HeadDetached, EnqLink, consVars
<1>8. Debts'
  <2>1. ASSUME NEW u \in Producers, epc'[u] = "link"
        PROVE  \E i \in 1..Len(queue) :
                 /\ enode[u] = queue[i]
                 /\ old_tail[u] = Before(i)
                 /\ next'[Before(i)] = NULL
                 /\ i = 1 => dpc \notin {"next", "reset", "cas", "succ", "unlink"}
    <3>1. u # t /\ epc[u] = "link"
      BY <1>6, <2>1 DEF EnqLink, IInv, TypeOK
    <3>2. PICK i \in 1..Len(queue) :
                 /\ enode[u] = queue[i]
                 /\ old_tail[u] = Before(i)
                 /\ next[Before(i)] = NULL
                 /\ i = 1 => dpc \notin {"next", "reset", "cas", "succ", "unlink"}
      BY <3>1 DEF IInv, Debts
    <3>3. i # k
      BY <1>1, <3>1, <3>2 DEF IInv, Debts, EnqLink
    <3>4. next'[Before(i)] = NULL
      BY <1>2, <3>2, <3>3, BeforeFacts
    <3> QED
      BY <3>2, <3>4
  <2>2. \A u \in Producers : epc'[u] = "link" => epc[u] = "link"
    BY <1>6 DEF EnqLink, IInv, TypeOK
  <2> QED
    BY <1>5, <2>1, <2>2 DEF IInv, Debts, EnqLink, consVars
<1>9. ConsumerView'
  <2>1. dpc \in {"next", "reset", "cas", "succ"} => next'[QNode] = next[QNode]
    BY <1>1, <1>2, BeforeFacts DEF Before
  <2>2. dpc = "unlink" => next'[dnode] = next[dnode]
    <3>1. dpc = "unlink" => 2 \in 1..Len(queue) /\ dnode = Before(2) /\ next[dnode] = queue[2]
      BY BeforeFacts DEF IInv, ConsumerView, Before
    <3> QED
      BY <1>1, <1>2, <3>1, BeforeFacts
  <2> QED
    BY <2>1, <2>2 DEF IInv, ConsumerView, EnqLink, consVars
<1>10. Fresh'
  <2>1. Before(k) = QNode \/ (Before(k) \in Nodes /\ owner[Before(k)] = "queued")
    BY BeforeFacts DEF Before, IInv, Membership, Elements
  <2> QED
    BY <1>2, <2>1 DEF IInv, Fresh, EnqLink
<1> QED
  BY <1>3, <1>4, <1>7, <1>8, <1>9, <1>10 DEF IInv

(* The steps of queue_dequeue that only read shared memory.                *)
LEMMA DeqReadInv ==
  ASSUME IInv,
         DeqLoadHead \/ DeqLoadTail \/ DeqFirst \/ DeqLoadNext \/ DeqCasFail \/ DeqSucc
  PROVE  IInv'
<1> USE DEF IInv
<1>1. UNCHANGED <<next, p, owner, prodVars, queue>>
  BY DEF DeqLoadHead, DeqLoadTail, DeqFirst, DeqLoadNext, DeqCasFail, DeqSucc
<1>2. /\ Before(1) = QNode
      /\ Len(queue) > 1 => Before(2) = queue[1]
      /\ \A i \in 1..Len(queue) : Before(i)' = Before(i)
      /\ \A t \in Producers : \A i \in 1..Len(queue) : Owes(t, i)' <=> Owes(t, i)
  BY <1>1 DEF Before, Owes, prodVars
<1>3. Membership' /\ TailPointer' /\ Fresh'
  BY <1>1 DEF Membership, TailPointer, Elements, Fresh
<1>4. queue # <<>> => 1 \in 1..Len(queue) /\ queue[1] \in Nodes
  BY DEF TypeOK
<1>5. CASE DeqLoadHead
  <2>1. TypeOK'
    BY <1>5 DEF TypeOK, DeqLoadHead, prodVars
  <2>2. Links'
    BY <1>1, <1>2, <1>5 DEF Links, HeadDetached, DeqLoadHead, prodVars
  <2>4. Debts'
    BY <1>1, <1>2, <1>5 DEF Debts, DeqLoadHead, prodVars
  <2>3. next[QNode] # NULL => queue # <<>>
    BY DEF Links, TailPointer
  <2> QED
    BY <1>3, <1>5, <2>1, <2>2, <2>3, <2>4 DEF ConsumerView, DeqLoadHead, TypeOK
<1>6. CASE DeqLoadTail
  <2>1. TypeOK'
    BY <1>6 DEF TypeOK, DeqLoadTail, prodVars
  <2>2. Links'
    BY <1>1, <1>2, <1>6 DEF Links, HeadDetached, DeqLoadTail, prodVars
  <2>3. Debts'
    BY <1>1, <1>2, <1>6 DEF Debts, DeqLoadTail, prodVars
  <2> QED
    BY <1>3, <1>6, <2>1, <2>2, <2>3 DEF ConsumerView, DeqLoadTail, TailPointer, TypeOK
<1>7. CASE DeqFirst
  <2>1. TypeOK'
    BY <1>7 DEF TypeOK, DeqFirst, prodVars
  <2>2. queue # <<>> /\ next[QNode] = queue[1]
    BY <1>2, <1>4, <1>7 DEF DeqFirst, ConsumerView, Links, HeadDetached
  <2>3. Links'
    BY <1>1, <1>2, <1>7 DEF Links, HeadDetached, DeqFirst, prodVars
  <2>4. Debts'
    BY <1>1, <1>2, <1>7 DEF Debts, DeqFirst, prodVars
  <2> QED
    BY <1>3, <1>7, <2>1, <2>2, <2>3, <2>4 DEF ConsumerView, DeqFirst
<1>8. CASE DeqLoadNext
  <2>1. /\ queue # <<>> /\ dnode = queue[1] /\ next[QNode] = queue[1]
        /\ dnode \in Nodes
    BY <1>4, <1>8 DEF DeqLoadNext, ConsumerView
  <2>2. TypeOK'
    BY <1>8, <2>1 DEF TypeOK, DeqLoadNext, prodVars
  <2>3. next[dnode] # NULL => Len(queue) > 1 /\ next[dnode] = queue[2]
    <3>1. next[dnode] # NULL => dnode # p
      BY DEF Links
    <3>2. dnode # p => Len(queue) > 1
      BY <2>1 DEF TailPointer, TypeOK
    <3>3. Len(queue) > 1 /\ next[dnode] # NULL => next[dnode] = queue[2]
      BY <1>2, <2>1, BeforeFacts DEF Links
    <3> QED
      BY <3>1, <3>2, <3>3
  <2>4. Links'
    BY <1>1, <1>2, <1>8 DEF Links, HeadDetached, DeqLoadNext, prodVars
  <2>5. Debts'
    BY <1>1, <1>2, <1>8 DEF Debts, DeqLoadNext, prodVars
  <2> QED
    BY <1>3, <1>8, <2>1, <2>2, <2>3, <2>4, <2>5 DEF ConsumerView, DeqLoadNext
<1>9. CASE DeqCasFail
  <2>1. TypeOK'
    BY <1>9 DEF TypeOK, DeqCasFail, prodVars
  <2>2. Len(queue) > 1
    BY <1>4, <1>9 DEF DeqCasFail, ConsumerView, TailPointer, TypeOK
  <2>3. Links'
    BY <1>1, <1>2, <1>9 DEF Links, HeadDetached, DeqCasFail, prodVars
  <2>4. Debts'
    BY <1>1, <1>2, <1>9 DEF Debts, DeqCasFail, prodVars
  <2> QED
    BY <1>3, <1>9, <2>1, <2>2, <2>3, <2>4 DEF ConsumerView, DeqCasFail
<1>10. CASE DeqSucc
  <2>1. /\ queue # <<>> /\ dnode = queue[1] /\ dnode \in Nodes
        /\ Len(queue) > 1 /\ next[dnode] = queue[2]
    BY <1>2, <1>4, <1>10, BeforeFacts DEF DeqSucc, ConsumerView, Links
  <2>2. TypeOK'
    BY <1>10, <2>1 DEF TypeOK, DeqSucc, prodVars
  <2>3. Links'
    BY <1>1, <1>2, <1>10 DEF Links, HeadDetached, DeqSucc, prodVars
  <2>4. Debts'
    BY <1>1, <1>2, <1>10 DEF Debts, DeqSucc, prodVars
  <2> QED
    BY <1>3, <1>10, <2>1, <2>2, <2>3, <2>4 DEF ConsumerView, DeqSucc
<1> QED
  BY <1>5, <1>6, <1>7, <1>8, <1>9, <1>10

LEMMA DeqResetInv ==
  ASSUME IInv, DeqReset
  PROVE  IInv'
<1> USE DEF IInv
<1>1. /\ \A m \in Nodes : next'[m] = next[m]
      /\ next'[QNode] = NULL
  BY DEF DeqReset, TypeOK
<1>2. TypeOK'
  BY DEF DeqReset, TypeOK, prodVars
<1>3. Membership' /\ TailPointer' /\ Fresh'
  BY <1>1 DEF DeqReset, Membership, TailPointer, Elements, Fresh
<1>4. /\ \A i \in 1..Len(queue) : Before(i)' = Before(i)
      /\ \A t \in Producers : \A i \in 1..Len(queue) : Owes(t, i)' <=> Owes(t, i)
  BY DEF DeqReset, Before, Owes, prodVars
<1>5. \A i \in 1..Len(queue) : i # 1 => next'[Before(i)] = next[Before(i)]
  BY <1>1, BeforeFacts DEF Before
<1>6. Links'
  <2>1. next'[p'] = NULL
    BY <1>1 DEF DeqReset, Links, TypeOK
  <2> QED
    BY <1>4, <1>5, <2>1 DEF DeqReset, Links, HeadDetached
<1>7. Debts'
  BY <1>4, <1>5 DEF DeqReset, Debts, prodVars
<1>8. ConsumerView'
  BY <1>1 DEF DeqReset, ConsumerView
<1> QED
  BY <1>2, <1>3, <1>6, <1>7, <1>8

LEMMA DeqCasLastInv ==
  ASSUME IInv, DeqCasLast
  PROVE  IInv'
<1> USE DEF IInv
<1>1. /\ queue # <<>> /\ dnode = queue[1]
      /\ p = queue[Len(queue)]
      /\ Len(queue) = 1
  <2>1. queue # <<>> /\ dnode = queue[1] /\ p = queue[Len(queue)] /\ p = queue[1]
    BY DEF DeqCasLast, ConsumerView, TailPointer
  <2>2. Len(queue) \in Nat /\ 1 \in 1..Len(queue) /\ Len(queue) \in 1..Len(queue)
    BY <2>1 DEF TypeOK
  <2>3. Len(queue) = 1
    BY <2>1, <2>2 DEF Membership
  <2> QED
    BY <2>1, <2>3
<1>2. queue' = <<>> /\ dnode \in Nodes
  BY <1>1 DEF DeqCasLast, Return, TypeOK
<1>3. TypeOK'
  BY <1>1, <1>2 DEF DeqCasLast, Return, TypeOK, prodVars
<1>4. Membership'
  <2>1. Elements = {dnode} /\ Elements' = {}
    BY <1>1, <1>2 DEF Elements
  <2>2. \A m \in Nodes : owner'[m] # "queued"
    BY <1>2, <2>1 DEF DeqCasLast, Return, TypeOK, Membership
  <2> QED
    BY <1>2, <2>1, <2>2 DEF Membership
<1>5. TailPointer' /\ Links'
  BY <1>2 DEF DeqCasLast, TailPointer, Links, ConsumerView
<1>6. ASSUME NEW t \in Producers, epc[t] = "link" PROVE FALSE
  <2>1. PICK k \in 1..Len(queue) :
           k = 1 => dpc \notin {"next", "reset", "cas", "succ", "unlink"}
    BY <1>6 DEF Debts
  <2>2. k = 1
    BY <1>1
  <2> QED
    BY <2>1, <2>2 DEF DeqCasLast
<1>7. Debts'
  BY <1>6 DEF DeqCasLast, Debts, prodVars
<1>8. ConsumerView'
  BY <1>2 DEF DeqCasLast, Return, ConsumerView, TypeOK
<1>9. Fresh'
  BY <1>2 DEF DeqCasLast, Return, Fresh, TypeOK
<1> QED
  BY <1>3, <1>4, <1>5, <1>7, <1>8, <1>9

LEMMA DeqUnlinkInv ==
  ASSUME IInv, DeqUnlink
  PROVE  IInv'
<1> USE DEF IInv
<1>1. PICK L \in Nat : L = Len(queue)
  BY DEF TypeOK
<1>2. /\ L > 1
      /\ Len(queue') = L - 1
      /\ \A i \in 1..(L - 1) : queue'[i] = queue[i + 1]
      /\ \A i \in 1..L : queue[i] \in Nodes
      /\ queue' \in Seq(Nodes) /\ queue' # <<>>
  <2>1. L > 1 /\ queue # <<>> /\ queue \in Seq(Nodes) /\ queue' = Tail(queue)
    BY <1>1 DEF DeqUnlink, Return, ConsumerView, TypeOK
  <2> HIDE DEF IInv
  <2>2. Len(queue') = L - 1 /\ \A i \in 1..(L - 1) : queue'[i] = queue[i + 1]
    BY <1>1, <2>1
  <2>3. queue' \in Seq(Nodes)
    BY <2>1
  <2>4. \A i \in 1..L : queue[i] \in Nodes
    BY <1>1, <2>1
  <2>5. queue' # <<>>
    BY <2>1, <2>2
  <2> QED
    BY <2>1, <2>2, <2>3, <2>4, <2>5
<1>3. /\ dnode = queue[1] /\ dnext = queue[2] /\ next[dnode] = queue[2]
      /\ dnode \in Nodes
      /\ dnext \in Nodes
  BY <1>1, <1>2 DEF DeqUnlink, ConsumerView
<1>4. /\ \A m \in Nodes : next'[m] = next[m]
      /\ next'[QNode] = queue[2]
      /\ \A m \in Nodes : m # dnode => owner'[m] = owner[m]
      /\ owner'[dnode] = "taken"
  BY <1>3 DEF DeqUnlink, Return, TypeOK
<1>5. TypeOK'
  BY <1>2, <1>3 DEF DeqUnlink, Return, TypeOK, prodVars
<1>6. Membership'
  <2>1. \A m \in Nodes : m \in Elements' <=> m \in Elements /\ m # dnode
    <3>1. ASSUME NEW m \in Elements' PROVE m \in Elements /\ m # dnode
      <4>1. PICK i \in 1..(L - 1) : m = queue[i + 1]
        BY <1>2 DEF Elements
      <4>2. i + 1 \in 1..L /\ i + 1 # 1 /\ 1 \in 1..L
        BY <1>2
      <4> QED
        BY <1>1, <1>3, <4>1, <4>2 DEF Elements, Membership
    <3>2. ASSUME NEW m \in Elements, m # dnode PROVE m \in Elements'
      <4>1. PICK i \in 1..L : m = queue[i]
        BY <1>1 DEF Elements
      <4>2. i - 1 \in 1..(L - 1) /\ queue'[i - 1] = m
        BY <1>2, <1>3, <3>2, <4>1
      <4> QED
        BY <1>2, <4>2 DEF Elements
    <3> QED
      BY <3>1, <3>2
  <2>2. ASSUME NEW i \in 1..(L - 1), NEW j \in 1..(L - 1), queue'[i] = queue'[j]
        PROVE  i = j
    <3>1. i + 1 \in 1..L /\ j + 1 \in 1..L /\ queue[i + 1] = queue[j + 1]
      BY <1>2, <2>2
    <3>2. i + 1 = j + 1
      BY <1>1, <3>1 DEF Membership
    <3> QED
      BY <3>2
  <2>3. \A i, j \in 1..Len(queue') : queue'[i] = queue'[j] => i = j
    BY <1>2, <2>2
  <2> QED
    BY <1>3, <1>4, <2>1, <2>3 DEF Membership
<1>7. TailPointer'
  BY <1>1, <1>2 DEF DeqUnlink, TailPointer
<1>8. /\ Before(1)' = QNode
      /\ \A i \in 2..(L - 1) : Before(i)' = Before(i + 1) /\ Before(i + 1) \in Nodes
  BY <1>2 DEF Before
<1>9. \A i \in 2..(L - 1) : next'[Before(i)'] = next[Before(i + 1)]
  BY <1>4, <1>8
<1>10. Links'
  <2>1. ASSUME NEW i \in 1..(L - 1)
        PROVE  \/ next'[Before(i)'] = queue'[i]
               \/ next'[Before(i)'] = NULL /\ \E u \in Producers : Owes(u, i)'
    <3>1. CASE i = 1
      BY <1>2, <1>4, <1>8, <3>1
    <3>2. CASE i \in 2..(L - 1)
      <4>1. i + 1 \in 1..L /\ i + 1 # 1
        BY <1>2
      <4>2. \/ next[Before(i + 1)] = queue[i + 1]
            \/ next[Before(i + 1)] = NULL /\ \E u \in Producers : Owes(u, i + 1)
        BY <1>1, <4>1 DEF Links
      <4>3. \A u \in Producers : Owes(u, i + 1) => Owes(u, i)'
        BY <1>2 DEF Owes, DeqUnlink, prodVars
      <4> QED
        BY <1>2, <1>9, <3>2, <4>2, <4>3
    <3> QED
      BY <1>2, <3>1, <3>2
  <2>2. next'[p'] = NULL
    BY <1>1, <1>2, <1>4 DEF Links, TailPointer, DeqUnlink
  <2> QED
    BY <1>2, <2>1, <2>2 DEF Links
<1>11. Debts'
  <2>1. ASSUME NEW u \in Producers, epc'[u] = "link"
        PROVE  \E i \in 1..Len(queue') :
                 /\ enode'[u] = queue'[i]
                 /\ old_tail'[u] = Before(i)'
                 /\ next'[Before(i)'] = NULL
                 /\ i = 1 => dpc' \notin {"next", "reset", "cas", "succ", "unlink"}
    <3>1. PICK k \in 1..L :
                 /\ enode[u] = queue[k]
                 /\ old_tail[u] = Before(k)
                 /\ next[Before(k)] = NULL
                 /\ k = 1 => dpc \notin {"next", "reset", "cas", "succ", "unlink"}
      BY <1>1, <2>1 DEF Debts, DeqUnlink, prodVars
    <3>2. k # 1
      BY <3>1 DEF DeqUnlink
    <3>3. k # 2
      BY <1>2, <1>3, <3>1 DEF Before
    <3>4. k - 1 \in 2..(L - 1) /\ (k - 1) + 1 = k /\ k - 1 \in 1..(L - 1)
      BY <1>2, <3>2, <3>3
    <3>5. /\ queue'[k - 1] = queue[k]
          /\ Before(k - 1)' = Before(k)
          /\ next'[Before(k - 1)'] = NULL
      BY <1>2, <1>8, <1>9, <3>1, <3>4
    <3> QED
      BY <1>2, <3>1, <3>4, <3>5 DEF DeqUnlink, Return, prodVars
  <2> QED
    BY <2>1 DEF Debts, DeqUnlink, Return, prodVars
<1>12. ConsumerView'
  BY <1>3, <1>4 DEF ConsumerView, DeqUnlink, Return
<1>13. Fresh'
  BY <1>3, <1>4 DEF Fresh
<1> QED
  BY <1>5, <1>6, <1>7, <1>10, <1>11, <1>12, <1>13

LEMMA ReleaseInv ==
  ASSUME IInv, Release
  PROVE  IInv'
<1> USE DEF IInv
<1>1. TypeOK'
  <2>1. owner' \in [Nodes -> {"free", "new", "queued", "taken"}]
    BY DEF Release, TypeOK
  <2> QED
    BY <2>1 DEF Release, TypeOK, prodVars
<1>2. Membership' /\ TailPointer'
  <2>1. \A n \in Nodes : owner'[n] = "queued" <=> owner[n] = "queued"
    BY DEF Release, ConsumerView, TypeOK
  <2> QED
    BY <2>1 DEF Release, Membership, TailPointer, Elements
<1>3. Links'
  BY DEF Release, Links, Owes, Before, HeadDetached, prodVars
<1>4. Debts'
  BY DEF Release, Debts, Before, prodVars
<1>5. ConsumerView'
  BY DEF Release, ConsumerView, TypeOK
<1>6. Fresh'
  BY DEF Release, Fresh, TypeOK
<1> QED
  BY <1>1, <1>2, <1>3, <1>4, <1>5, <1>6

LEMMA StutterInv ==
  ASSUME IInv, UNCHANGED vars
  PROVE  IInv'
<1> USE DEF IInv, vars, prodVars, consVars
<1>1. TypeOK'
  BY DEF TypeOK
<1>2. Membership' /\ TailPointer' /\ Fresh'
  BY DEF Membership, TailPointer, Fresh, Elements
<1>3. Links' /\ Debts'
  BY DEF Links, Debts, Before, Owes, HeadDetached
<1>4. ConsumerView'
  BY DEF ConsumerView
<1> QED
  BY <1>1, <1>2, <1>3, <1>4

LEMMA NextInv ==
  ASSUME IInv, [Next]_vars
  PROVE  IInv'
<1>1. CASE Enqueue
  BY <1>1, EnqExchangeInv, EnqLinkInv DEF Enqueue
<1>2. CASE Dequeue
  BY <1>2, DeqReadInv, DeqResetInv, DeqCasLastInv, DeqUnlinkInv DEF Dequeue
<1> QED
  BY <1>1, <1>2, PktNewInv, ReleaseInv, StutterInv DEF Next

(* IInv holds in every reachable state, for any set of packets and any     *)
(* set of producer threads.                                                *)
THEOREM Invariance == Spec => []IInv
BY InitIInv, NextInv, PTL DEF Spec

(* queue_enqueue never stores its link into a packet the transmit loop has *)
(* already dequeued (line 59), with any number of threads enqueueing.      *)
THEOREM LinkTargets == Spec => []LinkTargetAlive
<1>1. ASSUME IInv PROVE LinkTargetAlive
  <2> SUFFICES ASSUME NEW t \in Producers, epc[t] = "link", old_tail[t] # QNode
               PROVE  old_tail[t] \in Nodes /\ owner[old_tail[t]] = "queued"
    BY DEF LinkTargetAlive
  <2>1. PICK i \in 1..Len(queue) : old_tail[t] = Before(i)
    BY <1>1 DEF IInv, Debts
  <2>2. i - 1 \in 1..Len(queue) /\ old_tail[t] = queue[i - 1]
    BY <1>1, <2>1 DEF Before, IInv, TypeOK
  <2>3. old_tail[t] \in Elements /\ old_tail[t] \in Nodes
    BY <1>1, <2>2 DEF Elements, IInv, TypeOK
  <2> QED
    BY <1>1, <2>3 DEF IInv, Membership
<1> QED
  BY Invariance, <1>1, PTL

(* A NULL link on which queue_dequeue spins (lines 79 and 87) is owed by a *)
(* thread other than the one that spins.                                   *)
THEOREM SpinsEnd == Spec => []SpinHasWriter
<1>1. ASSUME IInv PROVE SpinHasWriter
  <2>1. ASSUME NEW i \in 1..Len(queue), next[Before(i)] = NULL,
               ~(i = 1 /\ HeadDetached), dpc # "idle"
        PROVE  \E t \in Producers \ {Consumer} :
                  epc[t] = "link" /\ old_tail[t] = Before(i)
    <3>1. queue[i] # NULL
      BY <1>1, BeforeFacts
    <3>2. PICK t \in Producers : epc[t] = "link" /\ enode[t] = queue[i]
      BY <1>1, <2>1, <3>1 DEF IInv, Links, Owes
    <3>3. old_tail[t] = Before(i)
      BY <1>1, <3>2 DEF IInv, Debts, Membership
    <3>4. t # Consumer
      BY <1>1, <2>1, <3>2 DEF IInv, Debts
    <3> QED
      BY <3>2, <3>3, <3>4
  <2>2. /\ dpc = "first" => 1 \in 1..Len(queue) /\ Before(1) = QNode
        /\ dpc = "succ" => 2 \in 1..Len(queue) /\ Before(2) = dnode
    BY <1>1 DEF IInv, TypeOK, ConsumerView, Before
  <2>3. dpc = "first" => ~HeadDetached
    BY DEF HeadDetached
  <2>4. dpc = "first" /\ next[QNode] = NULL =>
          \E t \in Producers \ {Consumer} : epc[t] = "link" /\ old_tail[t] = QNode
    BY <2>1, <2>2, <2>3
  <2>5. dpc = "succ" /\ next[dnode] = NULL =>
          \E t \in Producers \ {Consumer} : epc[t] = "link" /\ old_tail[t] = dnode
    BY <2>1, <2>2
  <2> QED
    BY <2>4, <2>5 DEF SpinHasWriter
<1> QED
  BY Invariance, <1>1, PTL

(* The list of queue.h implements the atomic first-in first-out queue of   *)
(* Fifo: an enqueue takes effect at its exchange of q->p, a dequeue at its *)
(* return (or where it read q->p, when the queue was empty).               *)
THEOREM Linearizable == Spec => IsFifo
<1>1. Init => Abstract!Init
  BY DEF Init, Abstract!Init
<1>2. ASSUME IInv, [Next]_vars PROVE [Abstract!Next]_(Abstract!fifoVars)
  <2> USE DEF Abstract!fifoVars
  <2>1. ASSUME NEW t \in Producers, NEW n \in Nodes, EnqExchange(t, n)
        PROVE  Abstract!Next
    BY <2>1 DEF EnqExchange, Abstract!Next, Abstract!Enqueue
  <2>2. CASE DeqCasLast \/ DeqUnlink
    <3>1. queue # <<>> /\ dnode = queue[1]
      BY <1>2, <2>2 DEF IInv, ConsumerView, DeqCasLast, DeqUnlink
    <3>2. Head(queue) = queue[1]
      BY <1>2, <3>1 DEF IInv, TypeOK
    <3> QED
      BY <2>2, <3>1, <3>2 DEF DeqCasLast, DeqUnlink, Return, Abstract!Next, Abstract!Dequeue
  <2>3. CASE DeqLoadTail
    <3>1. p = QNode => queue = <<>>
      BY <1>2 DEF IInv, TypeOK, TailPointer
    <3> QED
      BY <2>3, <3>1 DEF DeqLoadTail, Abstract!Next, Abstract!DequeueEmpty
  <2>4. CASE \/ \E t \in Producers : EnqLink(t)
             \/ DeqLoadHead \/ DeqFirst \/ DeqLoadNext \/ DeqReset
             \/ DeqCasFail \/ DeqSucc \/ Release
             \/ \E n \in Nodes : PktNew(n)
    BY <2>4 DEF EnqLink, DeqLoadHead, DeqFirst, DeqLoadNext, DeqReset,
                DeqCasFail, DeqSucc, Release, PktNew
  <2>5. CASE UNCHANGED vars
    BY <2>5 DEF vars
  <2> QED
    BY <1>2, <2>1, <2>2, <2>3, <2>4, <2>5 DEF Next, Enqueue, Dequeue
<1> QED
  BY <1>1, <1>2, Invariance, PTL DEF Spec, IsFifo, Abstract!Spec
=============================================================================
