------------------------------ MODULE MCQueue -------------------------------
(***************************************************************************)
(* Queue.tla with two producers, the receive thread and the transmit loop  *)
(* itself, and few enough nodes that they are freed and reused.            *)
(***************************************************************************)
EXTENDS Queue, TLC

CONSTANTS n1, n2, n3, recv, loop

MCNodes == {n1, n2, n3}
MCProducers == {recv, loop}
MCConsumer == loop
=============================================================================
