------------------------------ MODULE HostRoom ------------------------------
(***************************************************************************)
(* The host's room (src/internal/host/host.go) and the state it keeps of   *)
(* every transfer (Transfer, src/internal/transfer/transfer.go): OfferFile *)
(* on the goroutine of the user interface, one handleConn/readLoop         *)
(* goroutine per connection, one SendToPeer goroutine per accepted offer,  *)
(* and one forwarder goroutine per transfer that drains its progress       *)
(* channel and drops the transfer when every peer is settled.              *)
(*                                                                         *)
(* A peer is one authenticated connection; the receiver at its far end     *)
(* answers offers, or breaks the connection, whenever it likes.            *)
(*                                                                         *)
(* Locks.  Transfer.mu is `mu`: SetState holds it while it waits for room  *)
(* in progressCh.  Host.mu is a readers-writer lock: only the loop of      *)
(* OfferFile keeps it (for reading) across steps, every other critical     *)
(* section is one step, and a writer at its Lock call keeps new readers    *)
(* out until that loop ends.                                               *)
(***************************************************************************)
EXTENDS Naturals, Sequences

CONSTANTS Peers,         \* connections that may join
          Transfers,     \* calls of OfferFile
          Chunks,        \* chunks of each file
          ProgressCap,   \* capacity of Transfer.progressCh (100 in the code)
          LinksMayFail   \* writes may time out and connections may break

ASSUME HostRoomAssumption ==
  /\ Chunks \in Nat
  /\ ProgressCap \in Nat \ {0}

ASSUME LinksAssumption == LinksMayFail \in BOOLEAN

VARIABLES
  peers,       \* h.peers
  transfers,   \* h.transfers
  peerStates,  \* Transfer.peerStates, "Untracked" for a peer without an entry
  progressCh,  \* Transfer.progressCh
  mu,          \* Transfer.mu is held by a SetState
  offered,     \* how far OfferFile is with a transfer
  offerPc,     \* how far its loop is with each peer
  handler,     \* where handleConn of a peer stands
  inbox,       \* replies of a peer not yet handled, the one in hand first
  sender,      \* where SendToPeer stands, for each transfer and peer
  sent,        \* chunks it has written
  forward,     \* where the forwarder of a transfer stands
  update,      \* the progress value the forwarder has in hand
  answer,      \* what the receiver did with an offer
  cut          \* peers whose connection is broken

vars == <<peers, transfers, peerStates, progressCh, mu, offered, offerPc,
          handler, inbox, sender, sent, forward, update, answer, cut>>

hostVars == <<peers, transfers>>
stateVars == <<peerStates, progressCh, mu>>
offerVars == <<offered, offerPc>>
connVars == <<handler, inbox>>
sendVars == <<sender, sent>>
fwdVars == <<forward, update>>
peerVars == <<answer, cut>>

Init ==
  /\ peers = {} /\ transfers = {}
  /\ peerStates = [t \in Transfers |-> [p \in Peers |-> "Untracked"]]
  /\ progressCh = [t \in Transfers |-> <<>>]
  /\ mu = [t \in Transfers |-> FALSE]
  /\ offered = [t \in Transfers |-> "no"]
  /\ offerPc = [t \in Transfers |-> [p \in Peers |-> "out"]]
  /\ handler = [p \in Peers |-> "off"]
  /\ inbox = [p \in Peers |-> <<>>]
  /\ sender = [t \in Transfers |-> [p \in Peers |-> "none"]]
  /\ sent = [t \in Transfers |-> [p \in Peers |-> 0]]
  /\ forward = [t \in Transfers |-> "off"]
  /\ update = [t \in Transfers |-> <<>>]
  /\ answer = [t \in Transfers |-> [p \in Peers |-> "none"]]
  /\ cut = {}

------------------------------------------------------------------------------
(* Host.mu                                                                 *)

\* OfferFile is between its RLock and its RUnlock.
OfferLoopRuns == \E t \in Transfers : offered[t] = "loop"

WriterWaits == \/ \E p \in Peers : handler[p] \in {"register", "unregister"}
               \/ \E t \in Transfers : forward[t] = "remove"

\* h.mu.Lock() and h.mu.RLock() return.
CanLock  == ~OfferLoopRuns
CanRLock == ~(OfferLoopRuns /\ WriterWaits)

------------------------------------------------------------------------------
(* Transfer                                                                *)

IsTerminal(s) == s \in {"Rejected", "Completed", "Failed", "Disconnected"}

Tracked(t) == {p \in Peers : peerStates[t][p] # "Untracked"}

AllPeersSettled(t) ==
  /\ Tracked(t) # {}
  /\ \A p \in Tracked(t) : IsTerminal(peerStates[t][p])

HasRoom(t) == Len(progressCh[t]) < ProgressCap

Progress(p, s) == [peer |-> p, state |-> s]

\* SetState up to its send: the lock is taken and the entry written.
SetStateEnter(t, p, s) ==
  /\ ~mu[t]
  /\ mu' = [mu EXCEPT ![t] = TRUE]
  /\ peerStates' = [peerStates EXCEPT ![t][p] = s]
  /\ UNCHANGED progressCh

\* A SetState that drops the update when the channel is full.
SetStateLeaveLossy(t, p) ==
  /\ progressCh' = IF HasRoom(t)
                   THEN [progressCh EXCEPT ![t] = Append(@, Progress(p, peerStates[t][p]))]
                   ELSE progressCh
  /\ mu' = [mu EXCEPT ![t] = FALSE]
  /\ UNCHANGED peerStates

\* A SetState that sends without waiting for room.
SetStateLeaveUnbounded(t, p) ==
  /\ progressCh' = [progressCh EXCEPT ![t] = Append(@, Progress(p, peerStates[t][p]))]
  /\ mu' = [mu EXCEPT ![t] = FALSE]
  /\ UNCHANGED peerStates

\* SetState's send, which waits for room with the lock held, and its unlock.
SetStateLeave(t, p) ==
  /\ HasRoom(t)
  /\ progressCh' = [progressCh EXCEPT ![t] = Append(@, Progress(p, peerStates[t][p]))]
  /\ mu' = [mu EXCEPT ![t] = FALSE]
  /\ UNCHANGED peerStates

------------------------------------------------------------------------------
(* OfferFile                                                               *)

\* The peers the loop of OfferFile goes over.
LoopOver(t) == [p \in Peers |-> IF p \in peers THEN "write" ELSE "out"]

\* The transfer is registered, its forwarder started, h.mu taken for reading.
\* The user interface calls OfferFile from its event loop: one at a time.
OfferFile(t) ==
  /\ offered[t] = "no"
  /\ ~OfferLoopRuns
  /\ transfers' = transfers \cup {t}
  /\ forward' = [forward EXCEPT ![t] = "recv"]
  /\ offered' = [offered EXCEPT ![t] = "loop"]
  /\ offerPc' = [offerPc EXCEPT ![t] = LoopOver(t)]
  /\ UNCHANGED <<peers, stateVars, connVars, sendVars, update, peerVars>>

\* One peer at a time: the body of the loop runs to its end.
Between(t) == \A p \in Peers : offerPc[t][p] \notin {"waiting", "lost", "send"}

\* peer.writeRawMessage(offer) succeeds.
WriteOffer(t, p) ==
  /\ offerPc[t][p] = "write"
  /\ Between(t)
  /\ offerPc' = [offerPc EXCEPT ![t][p] = "waiting"]
  /\ answer' = [answer EXCEPT ![t][p] = IF p \in cut THEN "none" ELSE "pending"]
  /\ UNCHANGED <<hostVars, stateVars, offered, connVars, sendVars, fwdVars, cut>>

WriteOfferFails(t, p) ==
  /\ LinksMayFail
  /\ offerPc[t][p] = "write"
  /\ Between(t)
  /\ offerPc' = [offerPc EXCEPT ![t][p] = "lost"]
  /\ UNCHANGED <<hostVars, stateVars, offered, connVars, sendVars, fwdVars, peerVars>>

\* SetState(Waiting), or SetState(Disconnected) after a failed write.
SetOffered(t, p) ==
  /\ \/ offerPc[t][p] = "waiting" /\ SetStateEnter(t, p, "Waiting")
     \/ offerPc[t][p] = "lost" /\ SetStateEnter(t, p, "Disconnected")
  /\ offerPc' = [offerPc EXCEPT ![t][p] = "send"]
  /\ UNCHANGED <<hostVars, offered, connVars, sendVars, fwdVars, peerVars>>

SentOffered(t, p) ==
  /\ offerPc[t][p] = "send"
  /\ SetStateLeave(t, p)
  /\ offerPc' = [offerPc EXCEPT ![t][p] = "done"]
  /\ UNCHANGED <<hostVars, offered, connVars, sendVars, fwdVars, peerVars>>

\* An OfferFile that returns early, without the unlock, when nobody is there.
EndOfferUnlessEmpty(t) ==
  /\ offered[t] = "loop"
  /\ \A p \in Peers : offerPc[t][p] \in {"out", "done"}
  /\ \E p \in Peers : offerPc[t][p] = "done"
  /\ offered' = [offered EXCEPT ![t] = "yes"]
  /\ UNCHANGED <<hostVars, stateVars, offerPc, connVars, sendVars, fwdVars, peerVars>>

\* The loop is over: h.mu.RUnlock() and the broadcast.
EndOffer(t) ==
  /\ offered[t] = "loop"
  /\ \A p \in Peers : offerPc[t][p] \in {"out", "done"}
  /\ offered' = [offered EXCEPT ![t] = "yes"]
  /\ UNCHANGED <<hostVars, stateVars, offerPc, connVars, sendVars, fwdVars, peerVars>>

OfferStep == \E t \in Transfers :
  \/ EndOffer(t)
  \/ \E p \in Peers : \/ WriteOffer(t, p) \/ WriteOfferFails(t, p)
                      \/ SetOffered(t, p) \/ SentOffered(t, p)

------------------------------------------------------------------------------
(* handleConn                                                              *)

\* The key exchange, the room key check and MsgPeerJoin have succeeded.
Join(p) ==
  /\ handler[p] = "off"
  /\ handler' = [handler EXCEPT ![p] = "register"]
  /\ UNCHANGED <<hostVars, stateVars, offerVars, inbox, sendVars, fwdVars, peerVars>>

\* h.peers[peer.ID] = peer, then the broadcast.
Register(p) ==
  /\ handler[p] = "register"
  /\ CanLock
  /\ peers' = peers \cup {p}
  /\ handler' = [handler EXCEPT ![p] = "read"]
  /\ UNCHANGED <<transfers, stateVars, offerVars, inbox, sendVars, fwdVars, peerVars>>

AfterLookup(p) == IF Head(inbox[p]).of \in transfers THEN "set" ELSE "read"

\* handleFileAccept and handleFileReject look the transfer up; a reply to a
\* transfer that is gone is dropped.
Lookup(p) ==
  /\ handler[p] = "read"
  /\ inbox[p] # <<>>
  /\ CanRLock
  /\ handler' = [handler EXCEPT ![p] = AfterLookup(p)]
  /\ inbox' = [inbox EXCEPT ![p] = IF AfterLookup(p) = "set" THEN @ ELSE Tail(@)]
  /\ UNCHANGED <<hostVars, stateVars, offerVars, sendVars, fwdVars, peerVars>>

\* SetState(Accepted) or SetState(Rejected).
SetReply(p) ==
  /\ handler[p] = "set"
  /\ SetStateEnter(Head(inbox[p]).of, p, Head(inbox[p]).is)
  /\ handler' = [handler EXCEPT ![p] = "send"]
  /\ UNCHANGED <<hostVars, offerVars, inbox, sendVars, fwdVars, peerVars>>

SentReply(p) ==
  /\ handler[p] = "send"
  /\ SetStateLeave(Head(inbox[p]).of, p)
  /\ handler' = [handler EXCEPT ![p] = "feed"]
  /\ UNCHANGED <<hostVars, offerVars, inbox, sendVars, fwdVars, peerVars>>

\* A handler that starts the transfer whatever the reply was.
StartsSendAlways(p) == TRUE

StartsSend(p) == Head(inbox[p]).is = "Accepted"

\* The broadcast; after an accept SendToPeer is started.
Feed(p) ==
  /\ handler[p] = "feed"
  /\ CanRLock
  /\ sender' = IF StartsSend(p)
               THEN [sender EXCEPT ![Head(inbox[p]).of][p] = "start"] ELSE sender
  /\ inbox' = [inbox EXCEPT ![p] = Tail(@)]
  /\ handler' = [handler EXCEPT ![p] = "read"]
  /\ UNCHANGED <<hostVars, stateVars, offerVars, sent, fwdVars, peerVars>>

\* protocol.Unmarshal returns an error: the loop ends.
ReadError(p) ==
  /\ handler[p] = "read"
  /\ p \in cut
  /\ handler' = [handler EXCEPT ![p] = "unregister"]
  /\ UNCHANGED <<hostVars, stateVars, offerVars, inbox, sendVars, fwdVars, peerVars>>

\* delete(h.peers, peer.ID), then the broadcast.
Unregister(p) ==
  /\ handler[p] = "unregister"
  /\ CanLock
  /\ peers' = peers \ {p}
  /\ handler' = [handler EXCEPT ![p] = "gone"]
  /\ UNCHANGED <<transfers, stateVars, offerVars, inbox, sendVars, fwdVars, peerVars>>

HandlerStep == \E p \in Peers :
  \/ Register(p) \/ Lookup(p) \/ SetReply(p) \/ SentReply(p)
  \/ Feed(p) \/ ReadError(p) \/ Unregister(p)

------------------------------------------------------------------------------
(* SendToPeer                                                              *)

At(t, p, pc) == sender[t][p] = pc
Goto(t, p, pc) == sender' = [sender EXCEPT ![t][p] = pc]

\* SetState(InProgress) at the start, Completed or Failed at the end.
SetSending(t, p) ==
  /\ \/ At(t, p, "start") /\ SetStateEnter(t, p, "InProgress") /\ Goto(t, p, "started")
     \/ At(t, p, "complete") /\ SetStateEnter(t, p, "Completed") /\ Goto(t, p, "ended")
     \/ At(t, p, "fail") /\ SetStateEnter(t, p, "Failed") /\ Goto(t, p, "ended")
  /\ UNCHANGED <<hostVars, offerVars, connVars, sent, fwdVars, peerVars>>

SentSending(t, p) ==
  /\ \/ At(t, p, "started") /\ Goto(t, p, "stream")
     \/ At(t, p, "ended") /\ Goto(t, p, "done")
  /\ SetStateLeave(t, p)
  /\ UNCHANGED <<hostVars, offerVars, connVars, sent, fwdVars, peerVars>>

\* One chunk is written.
SendChunk(t, p) ==
  /\ At(t, p, "stream")
  /\ sent[t][p] < Chunks
  /\ sent' = [sent EXCEPT ![t][p] = @ + 1]
  /\ Goto(t, p, "offset")
  /\ UNCHANGED <<hostVars, stateVars, offerVars, connVars, fwdVars, peerVars>>

\* An UpdateOffset that forgets to unlock.
UpdateOffsetKeepsLock(t, p) ==
  /\ At(t, p, "offset")
  /\ ~mu[t]
  /\ mu' = [mu EXCEPT ![t] = TRUE]
  /\ Goto(t, p, "tell")
  /\ UNCHANGED <<hostVars, peerStates, progressCh, offerVars, connVars, sent, fwdVars, peerVars>>

\* UpdateOffset takes the lock and gives it back.
UpdateOffset(t, p) ==
  /\ At(t, p, "offset")
  /\ ~mu[t]
  /\ Goto(t, p, "tell")
  /\ UNCHANGED <<hostVars, stateVars, offerVars, connVars, sent, fwdVars, peerVars>>

\* The progress value is sent only if there is room, and without the lock.
SendProgress(t, p) ==
  /\ At(t, p, "tell")
  /\ progressCh' = IF HasRoom(t)
                   THEN [progressCh EXCEPT ![t] = Append(@, Progress(p, "InProgress"))]
                   ELSE progressCh
  /\ Goto(t, p, "stream")
  /\ UNCHANGED <<hostVars, peerStates, mu, offerVars, connVars, sent, fwdVars, peerVars>>

\* chunkCh is closed and the last bytes flushed, or a write failed.
EndStream(t, p) ==
  /\ At(t, p, "stream")
  /\ \/ sent[t][p] = Chunks /\ Goto(t, p, "complete")
     \/ LinksMayFail /\ Goto(t, p, "fail")
  /\ UNCHANGED <<hostVars, stateVars, offerVars, connVars, sent, fwdVars, peerVars>>

SenderStep(t, p) == \/ SetSending(t, p) \/ SentSending(t, p) \/ SendChunk(t, p)
                    \/ UpdateOffset(t, p) \/ SendProgress(t, p) \/ EndStream(t, p)

------------------------------------------------------------------------------
(* The forwarder                                                           *)

InHand(t) == Head(update[t]).state

Announced == {"Completed", "Failed", "Disconnected"}

\* range t.ProgressChan(), and the copy to h.progressCh, which never waits.
Receive(t) ==
  /\ forward[t] = "recv"
  /\ progressCh[t] # <<>>
  /\ update' = [update EXCEPT ![t] = <<Head(progressCh[t])>>]
  /\ progressCh' = [progressCh EXCEPT ![t] = Tail(@)]
  /\ forward' = [forward EXCEPT ![t] =
       IF Head(progressCh[t]).state \in Announced THEN "feed" ELSE "judge"]
  /\ UNCHANGED <<hostVars, peerStates, mu, offerVars, connVars, sendVars, peerVars>>

\* transferResultText and broadcastEvent read h.mu.
Announce(t) ==
  /\ forward[t] = "feed"
  /\ CanRLock
  /\ forward' = [forward EXCEPT ![t] = "judge"]
  /\ UNCHANGED <<hostVars, stateVars, offerVars, connVars, sendVars, update, peerVars>>

\* A forwarder that looks only when it has something to announce.
JudgeAnnounced(t) ==
  /\ forward[t] = "judge"
  /\ IsTerminal(InHand(t)) => ~mu[t]
  /\ forward' = [forward EXCEPT ![t] =
       IF InHand(t) \in Announced /\ AllPeersSettled(t) THEN "remove" ELSE "recv"]
  /\ update' = [update EXCEPT ![t] = <<>>]
  /\ UNCHANGED <<hostVars, stateVars, offerVars, connVars, sendVars, peerVars>>

\* IsTerminal(progress.State) && t.AllPeersSettled()
Judge(t) ==
  /\ forward[t] = "judge"
  /\ IsTerminal(InHand(t)) => ~mu[t]
  /\ forward' = [forward EXCEPT ![t] =
       IF IsTerminal(InHand(t)) /\ AllPeersSettled(t) THEN "remove" ELSE "recv"]
  /\ update' = [update EXCEPT ![t] = <<>>]
  /\ UNCHANGED <<hostVars, stateVars, offerVars, connVars, sendVars, peerVars>>

\* delete(h.transfers, t.TransferID); return
Remove(t) ==
  /\ forward[t] = "remove"
  /\ CanLock
  /\ transfers' = transfers \ {t}
  /\ forward' = [forward EXCEPT ![t] = "exit"]
  /\ UNCHANGED <<peers, stateVars, offerVars, connVars, sendVars, update, peerVars>>

ForwardStep == \E t \in Transfers :
  Receive(t) \/ Announce(t) \/ Judge(t) \/ Remove(t)

------------------------------------------------------------------------------
(* The receivers                                                           *)

\* AcceptTransfer or RejectTransfer sends its reply.  A receiver deletes the
\* offer first, so it answers each one at most once.
Reply(t, p, s) ==
  /\ answer[t][p] = "pending"
  /\ p \notin cut
  /\ answer' = [answer EXCEPT ![t][p] = s]
  /\ inbox' = [inbox EXCEPT ![p] = Append(@, [of |-> t, is |-> s])]
  /\ UNCHANGED <<hostVars, stateVars, offerVars, handler, sendVars, fwdVars, cut>>

\* The receiver quits, or the network between the two breaks.
Cut(p) ==
  /\ LinksMayFail
  /\ handler[p] \notin {"off", "gone"}
  /\ p \notin cut
  /\ cut' = cut \cup {p}
  /\ UNCHANGED <<hostVars, stateVars, offerVars, connVars, sendVars, fwdVars, answer>>

PeerStep == \E p \in Peers :
  \/ Cut(p)
  \/ \E t \in Transfers, s \in {"Accepted", "Rejected"} : Reply(t, p, s)

------------------------------------------------------------------------------
Next == \/ \E t \in Transfers : OfferFile(t)
        \/ \E p \in Peers : Join(p)
        \/ OfferStep \/ HandlerStep \/ ForwardStep \/ PeerStep
        \/ \E t \in Transfers, p \in Peers : SenderStep(t, p)

Safety == Init /\ [][Next]_vars

(* Goroutines are scheduled fairly.  Nothing obliges a user to offer a     *)
(* file, a peer to join or to answer, or a connection to break.            *)
Fairness ==
  /\ \A t \in Transfers :
       /\ WF_vars(EndOffer(t))
       /\ WF_vars(\E p \in Peers : WriteOffer(t, p))
       /\ WF_vars(\E p \in Peers : SetOffered(t, p))
       /\ WF_vars(\E p \in Peers : SentOffered(t, p))
       /\ WF_vars(Receive(t) \/ Announce(t) \/ Judge(t) \/ Remove(t))
       /\ \A p \in Peers : WF_vars(SenderStep(t, p))
  /\ \A p \in Peers :
       WF_vars(\/ Register(p) \/ Lookup(p) \/ SetReply(p) \/ SentReply(p)
               \/ Feed(p) \/ ReadError(p) \/ Unregister(p))

Spec == Safety /\ Fairness

------------------------------------------------------------------------------
(* Properties                                                              *)

EndStates == {"Rejected", "Completed", "Failed", "Disconnected"}
States == EndStates \cup {"Untracked", "Waiting", "Accepted", "InProgress"}
Update == [peer : Peers, state : States]
ReplyMsg == [of : Transfers, is : {"Accepted", "Rejected"}]
OfferPC == {"out", "write", "waiting", "lost", "send", "done"}
HandlerPC == {"off", "register", "read", "set", "send", "feed", "unregister", "gone"}
SenderPC == {"none", "start", "started", "stream", "offset", "tell", "complete", "fail",
             "ended", "done"}
ForwardPC == {"off", "recv", "feed", "judge", "remove", "exit"}

\* The values the variables range over; a progress channel is never over its
\* capacity, and the forwarder has a progress value exactly while it deals with it.
TypeOK ==
  /\ peers \subseteq Peers
  /\ transfers \subseteq Transfers
  /\ peerStates \in [Transfers -> [Peers -> States]]
  /\ progressCh \in [Transfers -> Seq(Update)]
  /\ \A t \in Transfers : Len(progressCh[t]) <= ProgressCap
  /\ mu \in [Transfers -> BOOLEAN]
  /\ offered \in [Transfers -> {"no", "loop", "yes"}]
  /\ offerPc \in [Transfers -> [Peers -> OfferPC]]
  /\ handler \in [Peers -> HandlerPC]
  /\ inbox \in [Peers -> Seq(ReplyMsg)]
  /\ \A p \in Peers : handler[p] \in {"set", "send", "feed"} => inbox[p] # <<>>
  /\ sender \in [Transfers -> [Peers -> SenderPC]]
  /\ sent \in [Transfers -> [Peers -> 0..Chunks]]
  /\ forward \in [Transfers -> ForwardPC]
  /\ update \in [Transfers -> Seq(Update)]
  /\ \A t \in Transfers : forward[t] \in {"feed", "judge"} <=> update[t] # <<>>
  /\ answer \in [Transfers -> [Peers -> {"none", "pending", "Accepted", "Rejected"}]]
  /\ cut \subseteq Peers

\* Every peer the transfer was offered to has come to an end state.
Settled(t) == /\ \E p \in Peers : peerStates[t][p] # "Untracked"
              /\ \A p \in Peers : peerStates[t][p] \in EndStates \cup {"Untracked"}

\* No settlement is lost: while every tracked peer of a registered transfer is
\* in an end state and the forwarder waits for the next value, that value is
\* on its way (queued, or its SetState holds the lock), and some queued value
\* is terminal.  SetState's holding the lock from the entry to the send is
\* what makes the forwarder's check of AllPeersSettled see the last entry.
NoLostSettlement ==
  \A t \in Transfers :
    forward[t] = "recv" /\ Settled(t) =>
      \/ mu[t]
      \/ \E i \in 1..Len(progressCh[t]) : progressCh[t][i].state \in EndStates

\* SendToPeer runs only for a peer that accepted this very transfer, and never
\* for one that rejected it.
ChunksOnlyAfterAccept ==
  \A t \in Transfers, p \in Peers :
    sender[t][p] # "none" => answer[t][p] = "Accepted"

\* A transfer that every tracked peer has settled, with the offer loop over, is
\* dropped from the room.
SettledIsDropped ==
  \A t \in Transfers :
    (offered[t] = "yes" /\ Settled(t)) ~> (t \notin transfers)

\* A SendToPeer that was started comes to an end and leaves an end state behind.
SendSettles ==
  \A t \in Transfers, p \in Peers :
    (sender[t][p] = "start")
      ~> (sender[t][p] = "done" /\ peerStates[t][p] \in EndStates)

\* A peer that passed the handshake is registered, and OfferFile returns to the
\* user interface, whatever offers, replies and transfers are going on.
RoomStaysOpen ==
  /\ \A p \in Peers : (handler[p] = "register") ~> (p \in peers)
  /\ \A t \in Transfers : (offered[t] = "loop") ~> (offered[t] = "yes")

\* "IsTerminal reports whether s is an end state for a peer: no further
\* transitions are expected from it" (transfer.go:95-96).
TerminalIsFinal ==
  [][\A t \in Transfers, p \in Peers :
       peerStates[t][p] \in EndStates => peerStates'[t][p] = peerStates[t][p]]_vars

\* "Every peer is settled, so nothing more can happen to this transfer"
\* (host.go:429-431): its states do not change once it has been dropped.
NothingAfterRemoval ==
  [][\A t \in Transfers :
       forward[t] = "exit" => peerStates'[t] = peerStates[t]]_vars

\* "Drop it so a long-running host doesn't accumulate entries" (host.go:431):
\* a transfer whose every peer has settled or left is dropped.
NoAccumulation ==
  \A t \in Transfers :
    (/\ offered[t] = "yes"
     /\ \E p \in Peers : peerStates[t][p] # "Untracked"
     /\ \A p \in Peers : \/ peerStates[t][p] \in EndStates \cup {"Untracked"}
                         \/ handler[p] = "gone")
      ~> (t \notin transfers)

\* "never let a slow consumer stall the transfer hot loop" (transfer.go:246-247):
\* a SendToPeer in its loop gets past its progress report.
SlowConsumerNeverStalls ==
  \A t \in Transfers, p \in Peers : (sender[t][p] = "offset") ~> (sender[t][p] # "offset")

==============================================================================
