----------------------------- MODULE FileDelivery -----------------------------
(***************************************************************************)
(* What an accepted transfer promises the two people it is between: the    *)
(* one at the host reads its state there (PeerProgress.State in            *)
(* src/internal/transfer/transfer.go), the one at the receiver reads the   *)
(* state its readLoop pushes (src/internal/receiver/receiver.go) and finds *)
(* the file in the save directory.  Goroutines, channels, buffers and      *)
(* chunks are left out.                                                    *)
(*                                                                         *)
(* The receiver hears of a transfer through its chunks alone.  A transfer  *)
(* is hopeless when they cannot all come: the connection is down, or what  *)
(* the host reads ends before the size it offered.  Nothing is promised to *)
(* the receiver then, as the protocol has no message for it.               *)
(***************************************************************************)
VARIABLES host,       \* the state the host shows for the peer
          shown,      \* the state the receiver shows
          named,      \* the file is in the save directory under its real name
          hopeless    \* the chunks of the offered size cannot all come

vars == <<host, shown, named, hopeless>>

Settled == shown \in {"Completed", "Failed"}

Init == /\ host = "Accepted" /\ shown = "nothing" /\ named = FALSE
        /\ hopeless \in BOOLEAN

HostStarts == host = "Accepted" /\ host' = "InProgress" /\ UNCHANGED <<shown, named, hopeless>>

HostEnds == /\ host = "InProgress" /\ host' \in {"Completed", "Failed"}
            /\ UNCHANGED <<shown, named, hopeless>>

\* Chunks come in only once the host sends, and the real name comes with COMPLETED.
Arrive(states) ==
  /\ host # "Accepted" /\ ~Settled
  /\ shown' \in states
  /\ named' = (shown' = "Completed")
  /\ UNCHANGED <<host, hopeless>>

GiveUp == ~hopeless /\ hopeless' = TRUE /\ UNCHANGED <<host, shown, named>>

Next == \/ HostStarts \/ HostEnds \/ GiveUp
        \/ Arrive({"InProgress", "Completed", "Failed"})

\* What the host has sent to its end, the receiver settles, unless it is hopeless.
Settle == host = "Completed" /\ ~hopeless /\ Arrive({"Completed", "Failed"})

Spec == /\ Init /\ [][Next]_vars
        /\ WF_vars(HostStarts) /\ WF_vars(HostEnds) /\ WF_vars(Settle)
==============================================================================
