CONSTANTS
    n1 = n1
    n2 = n2
    n3 = n3
    recv = recv
    loop = loop
    QNode = QNode
    NULL = NULL
    Nodes <- MCNodes
    Producers <- MCProducers
    Consumer <- MCConsumer
SPECIFICATION FairSpec
INVARIANTS
    LinkTargetAlive
    SpinHasWriter
    IInv
PROPERTIES
    IsFifo
    DequeueReturns
    EveryPacketDequeued
