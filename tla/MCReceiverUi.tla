----------------------------- MODULE MCReceiverUi -----------------------------
(* ReceiverApp with two offers, one of them an empty file, for TLC.           *)
EXTENDS ReceiverApp, TLC
CONSTANTS o1, o2
MCTwo == o1 :> 2 @@ o2 :> 0
==============================================================================
