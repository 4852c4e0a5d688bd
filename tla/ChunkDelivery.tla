---------------------------- MODULE ChunkDelivery ----------------------------
(***************************************************************************)
(* What one call of Transfer.SendToPeer (src/internal/transfer/transfer.go) *)
(* promises to the peer it serves, without the goroutine that reads the    *)
(* file, the channels between the two and the buffered writer: the chunks  *)
(* of the file reach the connection in groups, and COMPLETED is recorded   *)
(* only when every one of them has.                                        *)
(***************************************************************************)
EXTENDS Naturals

CONSTANT NumChunks      \* chunks the file is cut into

VARIABLES peerState,    \* t.peerStates[peerID]
          delivered     \* chunks handed to the connection so far

vars == <<peerState, delivered>>

Init == peerState = "Accepted" /\ delivered = 0

Start == /\ peerState = "Accepted"
         /\ peerState' = "InProgress"
         /\ UNCHANGED delivered

Deliver == /\ peerState = "InProgress"
           /\ \E n \in (delivered + 1)..NumChunks : delivered' = n
           /\ UNCHANGED peerState

Complete == /\ peerState = "InProgress"
            /\ delivered = NumChunks
            /\ peerState' = "Completed"
            /\ UNCHANGED delivered

Fail == /\ peerState = "InProgress"
        /\ peerState' = "Failed"
        /\ UNCHANGED delivered

Next == Start \/ Deliver \/ Complete \/ Fail

Safety == Init /\ [][Next]_vars

\* Every call of SendToPeer that was started comes to an end state.
Spec == Safety /\ WF_vars(Start) /\ WF_vars(Deliver \/ Complete \/ Fail)
==============================================================================
