------------------------------ MODULE MCPktizr ------------------------------
(***************************************************************************)
(* Small instances of Pktizr.  Two packets let a script send two in one    *)
(* call, and one be queued while another is being sent.                    *)
(***************************************************************************)
EXTENDS Pktizr

CONSTANTS k1, k2

OnePacket == {k1}
TwoPackets == {k1, k2}
MCGarbage == {0, 2}
AllAnswered == {}
FirstSkipped == {0}
=============================================================================
