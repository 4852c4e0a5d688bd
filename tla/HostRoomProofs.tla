---------------------------- MODULE HostRoomProofs ----------------------------
(***************************************************************************)
(* Proofs about the host's room, for every set of peers and transfers,     *)
(* every file length and every capacity of the progress channel.           *)
(***************************************************************************)
EXTENDS HostRoom, SequenceTheorems, TLAPS

USE HostRoomAssumption

\* What SetState does to the state of one transfer.
LEMMA EnterType ==
  ASSUME TypeOK, NEW t \in Transfers, NEW p \in Peers, NEW s \in States,
         SetStateEnter(t, p, s)
  PROVE  /\ peerStates' \in [Transfers -> [Peers -> States]]
         /\ mu' \in [Transfers -> BOOLEAN]
         /\ progressCh' = progressCh
         /\ \A u \in Transfers, q \in Peers :
              peerStates'[u][q] = IF u = t /\ q = p THEN s ELSE peerStates[u][q]
         /\ ~mu[t] /\ mu'[t]
         /\ \A u \in Transfers : u # t => mu'[u] = mu[u]
  BY DEF TypeOK, SetStateEnter

LEMMA LeaveType ==
  ASSUME TypeOK, NEW t \in Transfers, NEW p \in Peers, SetStateLeave(t, p)
  PROVE  /\ progressCh' \in [Transfers -> Seq(Update)]
         /\ \A u \in Transfers : Len(progressCh'[u]) <= ProgressCap
         /\ mu' \in [Transfers -> BOOLEAN]
         /\ peerStates' = peerStates
         /\ \A u \in Transfers : u # t => progressCh'[u] = progressCh[u] /\ mu'[u] = mu[u]
         /\ progressCh'[t] = Append(progressCh[t], Progress(p, peerStates[t][p]))
<1>1. peerStates[t][p] \in States
  BY DEF TypeOK
<1>2. Progress(p, peerStates[t][p]) \in Update
  BY <1>1 DEF Progress, Update
<1>3. /\ progressCh \in [Transfers -> Seq(Update)]
      /\ \A u \in Transfers : Len(progressCh[u]) <= ProgressCap
      /\ mu \in [Transfers -> BOOLEAN]
      /\ Len(progressCh[t]) < ProgressCap
      /\ progressCh' = [progressCh EXCEPT ![t] = Append(@, Progress(p, peerStates[t][p]))]
      /\ mu' = [mu EXCEPT ![t] = FALSE]
      /\ peerStates' = peerStates
  BY DEF TypeOK, SetStateLeave, HasRoom
<1>4. /\ Append(progressCh[t], Progress(p, peerStates[t][p])) \in Seq(Update)
      /\ Len(Append(progressCh[t], Progress(p, peerStates[t][p]))) = Len(progressCh[t]) + 1
  BY <1>2, <1>3, AppendProperties
<1>5. Len(progressCh[t]) + 1 <= ProgressCap
  BY <1>3
<1> QED
  BY <1>3, <1>4, <1>5

\* The initial state is well typed.
LEMMA TypeInit == Init => TypeOK
<1> SUFFICES ASSUME Init
             PROVE  TypeOK
  OBVIOUS
<1>1. /\ progressCh \in [Transfers -> Seq(Update)]
      /\ inbox \in [Peers -> Seq(ReplyMsg)]
      /\ update \in [Transfers -> Seq(Update)]
      /\ \A t \in Transfers : Len(progressCh[t]) <= ProgressCap
  BY DEF Init
<1> QED
  BY <1>1 DEF Init, TypeOK, States, EndStates, OfferPC, HandlerPC, SenderPC, ForwardPC

\* A transfer that was not offered yet has no forwarder.
Fresh == \A t \in Transfers : offered[t] = "no" => forward[t] = "off"

LEMMA GotoType ==
  ASSUME TypeOK, NEW t \in Transfers, NEW p \in Peers, NEW pc \in SenderPC, Goto(t, p, pc)
  PROVE  /\ sender' \in [Transfers -> [Peers -> SenderPC]]
         /\ \A u \in Transfers, q \in Peers :
              sender'[u][q] = IF u = t /\ q = p THEN pc ELSE sender[u][q]
  BY DEF TypeOK, Goto

LEMMA TypeOfferFile ==
  ASSUME TypeOK, Fresh, NEW t \in Transfers, OfferFile(t)
  PROVE  TypeOK'
<1>1. LoopOver(t) \in [Peers -> OfferPC]
  BY DEF LoopOver, OfferPC
<1>2. \A u \in Transfers : forward'[u] \in {"feed", "judge"} <=> update'[u] # <<>>
  <2>1. forward[t] = "off" /\ update[t] = <<>>
    BY DEF OfferFile, TypeOK, Fresh
  <2> QED
    BY <2>1 DEF OfferFile, TypeOK
<1>3. offerPc' \in [Transfers -> [Peers -> OfferPC]]
  BY <1>1 DEF OfferFile, TypeOK
<1> QED
  BY <1>2, <1>3 DEF OfferFile, TypeOK, ForwardPC, stateVars, connVars, sendVars, peerVars

LEMMA TypeOfferStep ==
  ASSUME TypeOK, NEW t \in Transfers, NEW p \in Peers,
         \/ WriteOffer(t, p) \/ WriteOfferFails(t, p)
         \/ SetOffered(t, p) \/ SentOffered(t, p)
  PROVE  TypeOK'
<1>1. CASE WriteOffer(t, p) \/ WriteOfferFails(t, p)
  <2>1. /\ offerPc' \in [Transfers -> [Peers -> OfferPC]]
        /\ answer' \in [Transfers -> [Peers -> {"none", "pending", "Accepted", "Rejected"}]]
    <3>1. CASE WriteOffer(t, p)
      BY <3>1 DEF WriteOffer, TypeOK, OfferPC
    <3>2. CASE WriteOfferFails(t, p)
      BY <3>2 DEF WriteOfferFails, TypeOK, OfferPC, peerVars
    <3> QED
      BY <1>1, <3>1, <3>2
  <2> QED
    BY <1>1, <2>1 DEF WriteOffer, WriteOfferFails, TypeOK, hostVars, stateVars, connVars,
                      sendVars, fwdVars, peerVars
<1>2. CASE SetOffered(t, p)
  <2>1. PICK s \in {"Waiting", "Disconnected"} : SetStateEnter(t, p, s)
    BY <1>2 DEF SetOffered
  <2>2. s \in States
    BY DEF States, EndStates
  <2>3. /\ peerStates' \in [Transfers -> [Peers -> States]]
        /\ mu' \in [Transfers -> BOOLEAN] /\ progressCh' = progressCh
    BY <2>1, <2>2, EnterType
  <2>4. offerPc' \in [Transfers -> [Peers -> OfferPC]]
    BY <1>2 DEF SetOffered, TypeOK, OfferPC
  <2> QED
    BY <1>2, <2>3, <2>4 DEF SetOffered, TypeOK, hostVars, connVars, sendVars, fwdVars, peerVars
<1>3. CASE SentOffered(t, p)
  <2>1. /\ progressCh' \in [Transfers -> Seq(Update)]
        /\ \A u \in Transfers : Len(progressCh'[u]) <= ProgressCap
        /\ mu' \in [Transfers -> BOOLEAN] /\ peerStates' = peerStates
    BY <1>3, LeaveType DEF SentOffered
  <2>2. offerPc' \in [Transfers -> [Peers -> OfferPC]]
    BY <1>3 DEF SentOffered, TypeOK, OfferPC
  <2> QED
    BY <1>3, <2>1, <2>2 DEF SentOffered, TypeOK, hostVars, connVars, sendVars, fwdVars,
                            peerVars
<1> QED
  BY <1>1, <1>2, <1>3

LEMMA TypeHandlerStep ==
  ASSUME TypeOK, NEW p \in Peers,
         \/ Join(p) \/ Register(p) \/ Lookup(p) \/ SetReply(p) \/ SentReply(p)
         \/ Feed(p) \/ ReadError(p) \/ Unregister(p)
  PROVE  TypeOK'
<1> DEFINE t == Head(inbox[p]).of
<1>0. inbox[p] # <<>> => /\ Head(inbox[p]) \in ReplyMsg /\ Tail(inbox[p]) \in Seq(ReplyMsg)
                         /\ t \in Transfers /\ Head(inbox[p]).is \in {"Accepted", "Rejected"}
  <2>1. inbox[p] \in Seq(ReplyMsg)
    BY DEF TypeOK
  <2>2. inbox[p] # <<>> => Head(inbox[p]) \in ReplyMsg /\ Tail(inbox[p]) \in Seq(ReplyMsg)
    BY <2>1, HeadTailProperties
  <2> QED
    BY <2>2 DEF ReplyMsg
<1>1. CASE Join(p) \/ Register(p) \/ ReadError(p) \/ Unregister(p)
  <2>1. /\ handler' \in [Peers -> HandlerPC]
        /\ peers' \subseteq Peers
        /\ \A q \in Peers : handler'[q] \in {"set", "send", "feed"} => inbox[q] # <<>>
    BY <1>1 DEF Join, Register, ReadError, Unregister, TypeOK, HandlerPC, hostVars
  <2> QED
    BY <1>1, <2>1 DEF Join, Register, ReadError, Unregister, TypeOK, hostVars, stateVars,
                      offerVars, sendVars, fwdVars, peerVars
<1>2. CASE Lookup(p)
  <2>1. AfterLookup(p) \in {"set", "read"} /\ inbox[p] # <<>>
    BY <1>2 DEF AfterLookup, Lookup
  <2>2. /\ handler' = [handler EXCEPT ![p] = AfterLookup(p)]
        /\ inbox' = [inbox EXCEPT ![p] = IF AfterLookup(p) = "set" THEN @ ELSE Tail(@)]
    BY <1>2 DEF Lookup
  <2>3. /\ handler' \in [Peers -> HandlerPC]
        /\ inbox' \in [Peers -> Seq(ReplyMsg)]
    BY <1>0, <2>1, <2>2 DEF TypeOK, HandlerPC
  <2>4. \A q \in Peers : handler'[q] \in {"set", "send", "feed"} => inbox'[q] # <<>>
    BY <2>1, <2>2 DEF TypeOK
  <2> QED
    BY <1>2, <2>3, <2>4 DEF Lookup, TypeOK, hostVars, stateVars, offerVars, sendVars,
                            fwdVars, peerVars
<1>3. CASE SetReply(p)
  <2>1. inbox[p] # <<>> /\ SetStateEnter(t, p, Head(inbox[p]).is)
    BY <1>3 DEF SetReply, TypeOK
  <2>2. t \in Transfers /\ Head(inbox[p]).is \in States
    BY <1>0, <2>1 DEF States, EndStates
  <2>3. /\ peerStates' \in [Transfers -> [Peers -> States]]
        /\ mu' \in [Transfers -> BOOLEAN] /\ progressCh' = progressCh
    BY <2>1, <2>2, EnterType
  <2>4. /\ handler' \in [Peers -> HandlerPC]
        /\ \A q \in Peers : handler'[q] \in {"set", "send", "feed"} => inbox[q] # <<>>
    BY <1>3, <2>1 DEF SetReply, TypeOK, HandlerPC
  <2> QED
    BY <1>3, <2>3, <2>4 DEF SetReply, TypeOK, hostVars, offerVars, sendVars, fwdVars, peerVars
<1>4. CASE SentReply(p)
  <2>1. inbox[p] # <<>> /\ SetStateLeave(t, p)
    BY <1>4 DEF SentReply, TypeOK
  <2>2. t \in Transfers
    BY <1>0, <2>1
  <2>3. /\ progressCh' \in [Transfers -> Seq(Update)]
        /\ \A u \in Transfers : Len(progressCh'[u]) <= ProgressCap
        /\ mu' \in [Transfers -> BOOLEAN] /\ peerStates' = peerStates
    BY <2>1, <2>2, LeaveType
  <2>4. /\ handler' \in [Peers -> HandlerPC]
        /\ \A q \in Peers : handler'[q] \in {"set", "send", "feed"} => inbox[q] # <<>>
    BY <1>4, <2>1 DEF SentReply, TypeOK, HandlerPC
  <2> QED
    BY <1>4, <2>3, <2>4 DEF SentReply, TypeOK, hostVars, offerVars, sendVars, fwdVars, peerVars
<1>5. CASE Feed(p)
  <2>1. inbox[p] # <<>>
    BY <1>5 DEF Feed, TypeOK
  <2>2. sender' \in [Transfers -> [Peers -> SenderPC]]
    BY <1>0, <1>5, <2>1 DEF Feed, TypeOK, SenderPC
  <2>3. /\ handler' \in [Peers -> HandlerPC]
        /\ inbox' \in [Peers -> Seq(ReplyMsg)]
        /\ \A q \in Peers : handler'[q] \in {"set", "send", "feed"} => inbox'[q] # <<>>
    BY <1>0, <1>5, <2>1 DEF Feed, TypeOK, HandlerPC
  <2> QED
    BY <1>5, <2>2, <2>3 DEF Feed, TypeOK, hostVars, stateVars, offerVars, fwdVars, peerVars
<1> QED
  BY <1>1, <1>2, <1>3, <1>4, <1>5

LEMMA TypeSenderStep ==
  ASSUME TypeOK, NEW t \in Transfers, NEW p \in Peers, SenderStep(t, p)
  PROVE  TypeOK'
<1>1. CASE SetSending(t, p)
  <2>1. PICK s \in {"InProgress", "Completed", "Failed"} : SetStateEnter(t, p, s)
    BY <1>1 DEF SetSending
  <2>2. s \in States
    BY DEF States, EndStates
  <2>3. /\ peerStates' \in [Transfers -> [Peers -> States]]
        /\ mu' \in [Transfers -> BOOLEAN] /\ progressCh' = progressCh
    BY <2>1, <2>2, EnterType
  <2>4. sender' \in [Transfers -> [Peers -> SenderPC]]
    <3>1. PICK pc \in {"started", "ended"} : Goto(t, p, pc)
      BY <1>1 DEF SetSending
    <3> QED
      BY <3>1, GotoType DEF SenderPC
  <2> QED
    BY <1>1, <2>3, <2>4 DEF SetSending, TypeOK, hostVars, offerVars, connVars, fwdVars,
                            peerVars
<1>2. CASE SentSending(t, p)
  <2>1. /\ progressCh' \in [Transfers -> Seq(Update)]
        /\ \A u \in Transfers : Len(progressCh'[u]) <= ProgressCap
        /\ mu' \in [Transfers -> BOOLEAN] /\ peerStates' = peerStates
    BY <1>2, LeaveType DEF SentSending
  <2>2. sender' \in [Transfers -> [Peers -> SenderPC]]
    <3>1. PICK pc \in {"stream", "done"} : Goto(t, p, pc)
      BY <1>2 DEF SentSending
    <3> QED
      BY <3>1, GotoType DEF SenderPC
  <2> QED
    BY <1>2, <2>1, <2>2 DEF SentSending, TypeOK, hostVars, offerVars, connVars, fwdVars,
                            peerVars
<1>3. CASE SendChunk(t, p)
  <2>1. /\ sender' \in [Transfers -> [Peers -> SenderPC]]
        /\ sent' \in [Transfers -> [Peers -> 0..Chunks]]
    BY <1>3 DEF SendChunk, Goto, TypeOK, SenderPC
  <2> QED
    BY <1>3, <2>1 DEF SendChunk, TypeOK, hostVars, stateVars, offerVars, connVars, fwdVars,
                      peerVars
<1>4. CASE SendProgress(t, p)
  <2>1. sender' \in [Transfers -> [Peers -> SenderPC]]
    BY <1>4 DEF SendProgress, Goto, TypeOK, SenderPC
  <2>2. Progress(p, "InProgress") \in Update
    BY DEF Progress, Update, States
  <2>3. /\ progressCh' \in [Transfers -> Seq(Update)]
        /\ \A u \in Transfers : Len(progressCh'[u]) <= ProgressCap
    <3>1. CASE HasRoom(t)
      <4>1. progressCh' = [progressCh EXCEPT ![t] = Append(@, Progress(p, "InProgress"))]
        BY <1>4, <3>1 DEF SendProgress
      <4>2. /\ Append(progressCh[t], Progress(p, "InProgress")) \in Seq(Update)
            /\ Len(Append(progressCh[t], Progress(p, "InProgress"))) = Len(progressCh[t]) + 1
        BY <2>2, AppendProperties DEF TypeOK
      <4>3. Len(progressCh[t]) + 1 <= ProgressCap
        BY <3>1 DEF HasRoom, TypeOK
      <4> QED
        BY <4>1, <4>2, <4>3 DEF TypeOK
    <3>2. CASE ~HasRoom(t)
      BY <1>4, <3>2 DEF SendProgress, TypeOK
    <3> QED
      BY <3>1, <3>2
  <2> QED
    BY <1>4, <2>1, <2>3 DEF SendProgress, TypeOK, hostVars, offerVars, connVars, fwdVars,
                            peerVars
<1>5. CASE EndStream(t, p)
  <2>1. sender' \in [Transfers -> [Peers -> SenderPC]]
    <3>1. PICK pc \in {"complete", "fail"} : Goto(t, p, pc)
      BY <1>5 DEF EndStream
    <3> QED
      BY <3>1, GotoType DEF SenderPC
  <2> QED
    BY <1>5, <2>1 DEF EndStream, TypeOK, hostVars, stateVars, offerVars, connVars, fwdVars,
                      peerVars
<1>6. CASE UpdateOffset(t, p)
  <2>1. sender' \in [Transfers -> [Peers -> SenderPC]]
    BY <1>6 DEF UpdateOffset, Goto, TypeOK, SenderPC
  <2> QED
    BY <1>6, <2>1 DEF UpdateOffset, TypeOK, hostVars, stateVars, offerVars, connVars, fwdVars,
                      peerVars
<1> QED
  BY <1>1, <1>2, <1>3, <1>4, <1>5, <1>6 DEF SenderStep

LEMMA TypeForwardStep ==
  ASSUME TypeOK, NEW t \in Transfers, Receive(t) \/ Announce(t) \/ Judge(t) \/ Remove(t)
  PROVE  TypeOK'
<1>1. CASE Receive(t)
  <2>1. /\ progressCh[t] \in Seq(Update) /\ progressCh[t] # <<>>
        /\ Len(progressCh[t]) <= ProgressCap
    BY <1>1 DEF Receive, TypeOK
  <2>2. /\ Head(progressCh[t]) \in Update /\ Tail(progressCh[t]) \in Seq(Update)
        /\ Len(Tail(progressCh[t])) = Len(progressCh[t]) - 1
        /\ Len(progressCh[t]) \in Nat
    BY <2>1, HeadTailProperties
  <2>3. /\ progressCh' \in [Transfers -> Seq(Update)]
        /\ \A u \in Transfers : Len(progressCh'[u]) <= ProgressCap
    BY <1>1, <2>1, <2>2 DEF Receive, TypeOK
  <2>4. <<Head(progressCh[t])>> \in Seq(Update) /\ <<Head(progressCh[t])>> # <<>>
    BY <2>2
  <2>5. /\ update' \in [Transfers -> Seq(Update)]
        /\ forward' \in [Transfers -> ForwardPC]
        /\ \A u \in Transfers : forward'[u] \in {"feed", "judge"} <=> update'[u] # <<>>
    BY <1>1, <2>4 DEF Receive, TypeOK, ForwardPC
  <2> QED
    BY <1>1, <2>3, <2>5 DEF Receive, TypeOK, hostVars, offerVars, connVars, sendVars, peerVars
<1>2. CASE Announce(t)
  BY <1>2 DEF Announce, TypeOK, ForwardPC, hostVars, stateVars, offerVars, connVars,
              sendVars, peerVars
<1>3. CASE Judge(t)
  <2>1. /\ update' \in [Transfers -> Seq(Update)]
        /\ forward' \in [Transfers -> ForwardPC]
        /\ \A u \in Transfers : forward'[u] \in {"feed", "judge"} <=> update'[u] # <<>>
    BY <1>3 DEF Judge, TypeOK, ForwardPC
  <2> QED
    BY <1>3, <2>1 DEF Judge, TypeOK, hostVars, stateVars, offerVars, connVars, sendVars,
                      peerVars
<1>4. CASE Remove(t)
  BY <1>4 DEF Remove, TypeOK, ForwardPC, stateVars, offerVars, connVars, sendVars, peerVars
<1> QED
  BY <1>1, <1>2, <1>3, <1>4

LEMMA TypePeerStep == ASSUME TypeOK, PeerStep PROVE TypeOK'
<1>1. CASE \E p \in Peers : Cut(p)
  BY <1>1 DEF Cut, TypeOK, hostVars, stateVars, offerVars, connVars, sendVars, fwdVars
<1>2. ASSUME NEW p \in Peers, NEW t \in Transfers, NEW s \in {"Accepted", "Rejected"},
             Reply(t, p, s)
      PROVE  TypeOK'
  <2>1. [of |-> t, is |-> s] \in ReplyMsg
    BY DEF ReplyMsg
  <2>2. /\ Append(inbox[p], [of |-> t, is |-> s]) \in Seq(ReplyMsg)
        /\ Append(inbox[p], [of |-> t, is |-> s]) # <<>>
    <3>1. inbox[p] \in Seq(ReplyMsg)
      BY DEF TypeOK
    <3> QED
      BY <2>1, <3>1, AppendProperties
  <2>3. /\ inbox' \in [Peers -> Seq(ReplyMsg)]
        /\ \A q \in Peers : handler[q] \in {"set", "send", "feed"} => inbox'[q] # <<>>
        /\ answer' \in [Transfers -> [Peers -> {"none", "pending", "Accepted", "Rejected"}]]
    BY <1>2, <2>2 DEF Reply, TypeOK
  <2> QED
    BY <1>2, <2>3 DEF Reply, TypeOK, hostVars, stateVars, offerVars, sendVars, fwdVars
<1> QED
  BY <1>1, <1>2 DEF PeerStep

LEMMA TypeStep == TypeOK /\ Fresh /\ [Next]_vars => TypeOK' /\ Fresh'
<1> SUFFICES ASSUME TypeOK, Fresh, [Next]_vars
             PROVE  TypeOK' /\ Fresh'
  OBVIOUS
<1>1. ASSUME NEW t \in Transfers, NEW p \in Peers,
             \/ WriteOffer(t, p) \/ WriteOfferFails(t, p)
             \/ SetOffered(t, p) \/ SentOffered(t, p)
      PROVE  TypeOK' /\ Fresh'
  <2>1. TypeOK'
    BY <1>1, TypeOfferStep
  <2>2. Fresh'
    BY <1>1 DEF Fresh, WriteOffer, WriteOfferFails, SetOffered,
                SentOffered, fwdVars
  <2> QED
    BY <2>1, <2>2
<1>2. ASSUME NEW p \in Peers,
             \/ Join(p) \/ Register(p) \/ Lookup(p) \/ SetReply(p) \/ SentReply(p)
             \/ Feed(p) \/ ReadError(p) \/ Unregister(p)
      PROVE  TypeOK' /\ Fresh'
  <2>1. TypeOK'
    BY <1>2, TypeHandlerStep
  <2>2. UNCHANGED <<offered, forward>>
    BY <1>2 DEF Join, Register, Lookup, SetReply, SentReply, Feed, ReadError, Unregister,
                offerVars, fwdVars
  <2> QED
    BY <2>1, <2>2 DEF Fresh
<1>3. ASSUME NEW t \in Transfers, NEW p \in Peers, SenderStep(t, p)
      PROVE  TypeOK' /\ Fresh'
  <2>1. TypeOK'
    BY <1>3, TypeSenderStep
  <2>2. UNCHANGED <<offered, forward>>
    BY <1>3 DEF SenderStep, SetSending, SentSending, SendChunk, UpdateOffset, SendProgress,
                EndStream, offerVars, fwdVars
  <2> QED
    BY <2>1, <2>2 DEF Fresh
<1>4. ASSUME NEW t \in Transfers, Receive(t) \/ Announce(t) \/ Judge(t) \/ Remove(t)
      PROVE  TypeOK' /\ Fresh'
  <2>1. TypeOK'
    BY <1>4, TypeForwardStep
  <2>2. Fresh'
    BY <1>4 DEF Fresh, TypeOK, Receive, Announce, Judge, Remove, offerVars
  <2> QED
    BY <2>1, <2>2
<1>5. CASE PeerStep
  <2>1. TypeOK'
    BY <1>5, TypePeerStep
  <2>2. UNCHANGED <<offered, forward>>
    BY <1>5 DEF PeerStep, Cut, Reply, offerVars, fwdVars
  <2> QED
    BY <2>1, <2>2 DEF Fresh
<1>6. CASE UNCHANGED vars
  BY <1>6 DEF vars, TypeOK, Fresh
<1>7. CASE \E t \in Transfers : EndOffer(t)
  <2>1. TypeOK'
    BY <1>7 DEF EndOffer, TypeOK, hostVars, stateVars, connVars, sendVars, fwdVars, peerVars
  <2>2. Fresh'
    BY <1>7 DEF EndOffer, Fresh, TypeOK, fwdVars
  <2> QED
    BY <2>1, <2>2
<1>8. CASE \E t \in Transfers : OfferFile(t)
  <2>1. PICK t \in Transfers : OfferFile(t)
    BY <1>8
  <2>2. TypeOK'
    BY <2>1, TypeOfferFile
  <2>3. Fresh'
    BY <2>1 DEF OfferFile, Fresh, TypeOK
  <2> QED
    BY <2>2, <2>3
<1> QED
  BY <1>1, <1>2, <1>3, <1>4, <1>5, <1>6, <1>7, <1>8 DEF Next, OfferStep, HandlerStep,
                                                        ForwardStep

\* Every reachable state of the room is well typed: in particular no progress
\* channel is ever over its capacity.
THEOREM TypeCorrect == Safety => []TypeOK
<1>1. Init => TypeOK /\ Fresh
  BY TypeInit DEF Init, Fresh
<1> QED
  BY <1>1, TypeStep, PTL DEF Safety

------------------------------------------------------------------------------
(* Who is sent chunks                                                      *)

\* An answer is given once, after the offer was written; a reply under way
\* tells the answer that was given; chunks are sent after an accept.
AcceptInv ==
  /\ \A t \in Transfers, p \in Peers :
       offered[t] = "no" => answer[t][p] = "none" /\ offerPc[t][p] = "out"
  /\ \A t \in Transfers, p \in Peers : offerPc[t][p] = "write" => answer[t][p] = "none"
  /\ \A p \in Peers : \A i \in 1..Len(inbox[p]) :
       answer[inbox[p][i].of][p] = inbox[p][i].is
  /\ ChunksOnlyAfterAccept

\* The reply the handler has in hand tells the peer's answer.
LEMMA ReplyInHand ==
  ASSUME TypeOK, AcceptInv, NEW p \in Peers, inbox[p] # <<>>
  PROVE  /\ Head(inbox[p]).of \in Transfers
         /\ Head(inbox[p]).is \in {"Accepted", "Rejected"}
         /\ answer[Head(inbox[p]).of][p] = Head(inbox[p]).is
         /\ offered[Head(inbox[p]).of] # "no"
<1>1. inbox[p] \in Seq(ReplyMsg)
  BY DEF TypeOK
<1>2. Head(inbox[p]) = inbox[p][1] /\ 1 \in 1..Len(inbox[p]) /\ Head(inbox[p]) \in ReplyMsg
  BY <1>1, EmptySeq, HeadTailProperties
<1>3. answer[Head(inbox[p]).of][p] = Head(inbox[p]).is
  BY <1>2 DEF AcceptInv
<1> QED
  BY <1>2, <1>3 DEF ReplyMsg, AcceptInv

\* Dropping the reply in hand keeps the others.
LEMMA ReplyDropped ==
  ASSUME TypeOK, AcceptInv, NEW p \in Peers, inbox[p] # <<>>,
         inbox' = [inbox EXCEPT ![p] = Tail(@)], answer' = answer
  PROVE  \A q \in Peers : \A i \in 1..Len(inbox'[q]) :
           answer'[inbox'[q][i].of][q] = inbox'[q][i].is
<1> SUFFICES ASSUME NEW q \in Peers, NEW i \in 1..Len(inbox'[q])
             PROVE  answer'[inbox'[q][i].of][q] = inbox'[q][i].is
  OBVIOUS
<1>1. CASE q = p
  <2>1. inbox[p] \in Seq(ReplyMsg) /\ inbox'[p] = Tail(inbox[p])
    BY DEF TypeOK
  <2>2. i + 1 \in 1..Len(inbox[p]) /\ inbox'[p][i] = inbox[p][i + 1]
    <3>1. /\ Len(Tail(inbox[p])) = Len(inbox[p]) - 1 /\ Len(inbox[p]) \in Nat
          /\ \A j \in 1..Len(Tail(inbox[p])) : Tail(inbox[p])[j] = inbox[p][j + 1]
      BY <2>1, HeadTailProperties
    <3>2. i \in 1..Len(Tail(inbox[p]))
      BY <1>1, <2>1
    <3>3. i + 1 \in 1..Len(inbox[p])
      BY <3>1, <3>2
    <3>4. Tail(inbox[p])[i] = inbox[p][i + 1]
      BY <3>1, <3>2
    <3> QED
      BY <2>1, <3>3, <3>4
  <2> QED
    BY <1>1, <2>2 DEF AcceptInv
<1>2. CASE q # p
  BY <1>2 DEF AcceptInv, TypeOK
<1> QED
  BY <1>1, <1>2

LEMMA AcceptStep ==
  ASSUME TypeOK, AcceptInv, [Next]_vars
  PROVE  AcceptInv'
<1>1. ASSUME NEW t \in Transfers, OfferFile(t)
      PROVE  AcceptInv'
  <2>1. UNCHANGED <<answer, inbox, sender>>
    BY <1>1 DEF OfferFile, connVars, sendVars, peerVars
  <2>2. /\ offered'[t] = "loop"
        /\ \A u \in Transfers : u # t => offered'[u] = offered[u] /\ offerPc'[u] = offerPc[u]
        /\ \A p \in Peers : answer[t][p] = "none"
    BY <1>1 DEF OfferFile, TypeOK, AcceptInv
  <2> QED
    BY <2>1, <2>2 DEF AcceptInv, ChunksOnlyAfterAccept
<1>2. ASSUME NEW t \in Transfers, EndOffer(t)
      PROVE  AcceptInv'
  <2>1. /\ UNCHANGED <<answer, inbox, sender, offerPc>>
        /\ \A u \in Transfers : offered'[u] = "no" => offered[u] = "no"
    BY <1>2 DEF EndOffer, connVars, sendVars, peerVars, TypeOK
  <2> QED
    BY <2>1 DEF AcceptInv, ChunksOnlyAfterAccept
<1>3. ASSUME NEW t \in Transfers, NEW p \in Peers, WriteOffer(t, p)
      PROVE  AcceptInv'
  <2>1. /\ UNCHANGED <<offered, inbox, sender>>
        /\ offerPc[t][p] = "write"
        /\ \A u \in Transfers, q \in Peers : u # t \/ q # p =>
              offerPc'[u][q] = offerPc[u][q] /\ answer'[u][q] = answer[u][q]
        /\ offerPc'[t][p] = "waiting"
    BY <1>3 DEF WriteOffer, connVars, sendVars, TypeOK
  <2>2. answer[t][p] = "none" /\ offered[t] # "no" /\ sender[t][p] = "none"
    BY <2>1 DEF AcceptInv, ChunksOnlyAfterAccept
  <2>3. ASSUME NEW q \in Peers, NEW i \in 1..Len(inbox[q])
        PROVE  answer'[inbox[q][i].of][q] = inbox[q][i].is
    <3>1. inbox[q][i] \in ReplyMsg
      BY DEF TypeOK
    <3>2. answer[inbox[q][i].of][q] = inbox[q][i].is /\ inbox[q][i].is # "none"
          /\ inbox[q][i].of \in Transfers
      BY <3>1 DEF AcceptInv, ReplyMsg
    <3> QED
      BY <2>1, <2>2, <3>2
  <2> QED
    BY <2>1, <2>2, <2>3 DEF AcceptInv, ChunksOnlyAfterAccept
<1>4. ASSUME NEW t \in Transfers, NEW p \in Peers,
             WriteOfferFails(t, p) \/ SetOffered(t, p) \/ SentOffered(t, p)
      PROVE  AcceptInv'
  <2>1. /\ UNCHANGED <<offered, answer, inbox, sender>>
        /\ offerPc[t][p] # "out"
        /\ \A u \in Transfers, q \in Peers :
              \/ offerPc'[u][q] = offerPc[u][q]
              \/ u = t /\ q = p /\ offerPc'[u][q] \in {"lost", "send", "done"}
    BY <1>4 DEF WriteOfferFails, SetOffered, SentOffered, connVars, sendVars, peerVars, TypeOK
  <2> QED
    BY <2>1 DEF AcceptInv, ChunksOnlyAfterAccept
<1>5. ASSUME NEW p \in Peers,
             Join(p) \/ Register(p) \/ SetReply(p) \/ SentReply(p) \/ ReadError(p)
             \/ Unregister(p)
      PROVE  AcceptInv'
  <2>1. UNCHANGED <<offered, offerPc, answer, inbox, sender>>
    BY <1>5 DEF Join, Register, SetReply, SentReply, ReadError, Unregister, offerVars,
                sendVars, peerVars
  <2> QED
    BY <2>1 DEF AcceptInv, ChunksOnlyAfterAccept
<1>6. ASSUME NEW p \in Peers, Lookup(p)
      PROVE  AcceptInv'
  <2>1. /\ UNCHANGED <<offered, offerPc, answer, sender>>
        /\ inbox[p] # <<>>
        /\ inbox' = inbox \/ inbox' = [inbox EXCEPT ![p] = Tail(@)]
    BY <1>6 DEF Lookup, offerVars, sendVars, peerVars, TypeOK
  <2>2. \A q \in Peers : \A i \in 1..Len(inbox'[q]) :
          answer'[inbox'[q][i].of][q] = inbox'[q][i].is
    BY <2>1, ReplyDropped DEF AcceptInv
  <2> QED
    BY <2>1, <2>2 DEF AcceptInv, ChunksOnlyAfterAccept
<1>7. ASSUME NEW p \in Peers, Feed(p)
      PROVE  AcceptInv'
  <2>1. /\ UNCHANGED <<offered, offerPc, answer>>
        /\ inbox[p] # <<>>
        /\ inbox' = [inbox EXCEPT ![p] = Tail(@)]
    BY <1>7 DEF Feed, offerVars, peerVars, TypeOK
  <2>2. \A q \in Peers : \A i \in 1..Len(inbox'[q]) :
          answer'[inbox'[q][i].of][q] = inbox'[q][i].is
    BY <2>1, ReplyDropped
  <2>3. ASSUME NEW u \in Transfers, NEW q \in Peers, sender'[u][q] # "none"
        PROVE  answer[u][q] = "Accepted"
    <3>1. CASE sender[u][q] # "none"
      BY <3>1 DEF AcceptInv, ChunksOnlyAfterAccept
    <3>2. CASE sender[u][q] = "none"
      <4>1. u = Head(inbox[p]).of /\ q = p /\ Head(inbox[p]).is = "Accepted"
        BY <1>7, <2>3, <3>2, <2>1, ReplyInHand DEF Feed, StartsSend, TypeOK
      <4> QED
        BY <2>1, <4>1, ReplyInHand
    <3> QED
      BY <3>1, <3>2
  <2> QED
    BY <2>1, <2>2, <2>3 DEF AcceptInv, ChunksOnlyAfterAccept
<1>8. ASSUME NEW t \in Transfers, NEW p \in Peers, SenderStep(t, p)
      PROVE  AcceptInv'
  <2>1. UNCHANGED <<offered, offerPc, answer, inbox>>
    BY <1>8 DEF SenderStep, SetSending, SentSending, SendChunk, UpdateOffset, SendProgress,
                EndStream, offerVars, connVars, peerVars
  <2>2. sender[t][p] # "none" /\ \E pc \in SenderPC : Goto(t, p, pc)
    BY <1>8 DEF SenderStep, SetSending, SentSending, SendChunk, UpdateOffset, SendProgress,
                EndStream, At, SenderPC
  <2>3. \A u \in Transfers, q \in Peers : sender'[u][q] # "none" => sender[u][q] # "none"
    BY <2>2, GotoType
  <2> QED
    BY <2>1, <2>3 DEF AcceptInv, ChunksOnlyAfterAccept
<1>9. ASSUME NEW t \in Transfers, Receive(t) \/ Announce(t) \/ Judge(t) \/ Remove(t)
      PROVE  AcceptInv'
  <2>1. UNCHANGED <<offered, offerPc, answer, inbox, sender>>
    BY <1>9 DEF Receive, Announce, Judge, Remove, offerVars, connVars, sendVars, peerVars
  <2> QED
    BY <2>1 DEF AcceptInv, ChunksOnlyAfterAccept
<1>10. ASSUME NEW t \in Transfers, NEW p \in Peers, NEW s \in {"Accepted", "Rejected"},
              Reply(t, p, s)
       PROVE  AcceptInv'
  <2>1. /\ UNCHANGED <<offered, offerPc, sender>>
        /\ answer[t][p] = "pending" /\ answer'[t][p] = s
        /\ \A u \in Transfers, q \in Peers : u # t \/ q # p => answer'[u][q] = answer[u][q]
        /\ inbox' = [inbox EXCEPT ![p] = Append(@, [of |-> t, is |-> s])]
    BY <1>10 DEF Reply, offerVars, sendVars, TypeOK
  <2>2. \A q \in Peers : inbox[q] \in Seq(ReplyMsg)
    BY DEF TypeOK
  <2>3. ASSUME NEW q \in Peers, NEW i \in 1..Len(inbox[q])
        PROVE  answer'[inbox[q][i].of][q] = inbox[q][i].is
    <3>1. inbox[q][i] \in ReplyMsg
      BY <2>2
    <3>2. answer[inbox[q][i].of][q] = inbox[q][i].is /\ inbox[q][i].is # "pending"
          /\ inbox[q][i].of \in Transfers
      BY <3>1 DEF AcceptInv, ReplyMsg
    <3> QED
      BY <2>1, <3>2
  <2>4. ASSUME NEW q \in Peers, NEW i \in 1..Len(inbox'[q])
        PROVE  answer'[inbox'[q][i].of][q] = inbox'[q][i].is
    <3>1. CASE q # p
      BY <2>1, <2>3, <3>1 DEF TypeOK
    <3>2. CASE q = p
      <4>1. [of |-> t, is |-> s] \in ReplyMsg
        BY DEF ReplyMsg
      <4>2. inbox'[p] = Append(inbox[p], [of |-> t, is |-> s])
        BY <2>1 DEF TypeOK
      <4>3. CASE i \in 1..Len(inbox[p])
        <5>1. inbox'[p][i] = inbox[p][i]
          BY <2>2, <4>1, <4>2, <4>3, AppendProperties
        <5> QED
          BY <2>3, <3>2, <4>3, <5>1
      <4>4. CASE i = Len(inbox[p]) + 1
        <5>1. inbox'[p][i] = [of |-> t, is |-> s]
          BY <2>2, <4>1, <4>2, <4>4, AppendProperties
        <5> QED
          BY <2>1, <3>2, <5>1
      <4>5. Len(inbox'[p]) = Len(inbox[p]) + 1 /\ Len(inbox[p]) \in Nat
        BY <2>2, <4>1, <4>2, AppendProperties
      <4> QED
        BY <3>2, <4>3, <4>4, <4>5
    <3> QED
      BY <3>1, <3>2
  <2> QED
    BY <2>1, <2>4 DEF AcceptInv, ChunksOnlyAfterAccept
<1>11. ASSUME (\E p \in Peers : Cut(p)) \/ UNCHANGED vars
       PROVE  AcceptInv'
  <2>1. UNCHANGED <<offered, offerPc, answer, inbox, sender>>
    BY <1>11 DEF Cut, vars, offerVars, connVars, sendVars
  <2> QED
    BY <2>1 DEF AcceptInv, ChunksOnlyAfterAccept
<1> QED
  BY <1>1, <1>2, <1>3, <1>4, <1>5, <1>6, <1>7, <1>8, <1>9, <1>10, <1>11
     DEF Next, OfferStep, HandlerStep, ForwardStep, PeerStep

LEMMA AcceptInit == Init => AcceptInv
<1> SUFFICES ASSUME Init
             PROVE  AcceptInv
  OBVIOUS
<1>1. \A p \in Peers : Len(inbox[p]) = 0
  BY DEF Init
<1> QED
  BY <1>1 DEF Init, AcceptInv, ChunksOnlyAfterAccept

\* In every room, a peer is sent the chunks of a transfer only if it accepted it.
THEOREM SendsAreAccepted == Safety => []ChunksOnlyAfterAccept
<1>1. AcceptInv => ChunksOnlyAfterAccept
  BY DEF AcceptInv
<1>2. Init => TypeOK /\ Fresh
  BY TypeInit DEF Init, Fresh
<1>3. TypeOK /\ AcceptInv /\ [Next]_vars => AcceptInv'
  BY AcceptStep
<1> QED
  BY <1>1, <1>2, <1>3, AcceptInit, TypeStep, PTL DEF Safety

------------------------------------------------------------------------------
(* Settlements reach the forwarder                                         *)

\* A transfer has entries only once it was offered, and the peer whose SetState
\* waits to send has one.
Track ==
  /\ \A t \in Transfers, p \in Peers : offered[t] = "no" => peerStates[t][p] = "Untracked"
  /\ \A t \in Transfers, p \in Peers :
       offerPc[t][p] = "send" \/ sender[t][p] \in {"started", "ended"}
         => peerStates[t][p] # "Untracked"
  /\ \A p \in Peers :
       handler[p] = "send" => peerStates[Head(inbox[p]).of][p] # "Untracked"

TerminalQueued(t) ==
  \E i \in 1..Len(progressCh[t]) : progressCh[t][i].state \in EndStates

\* A settled transfer keeps its forwarder busy: a terminal value is coming, is
\* queued or is in the forwarder's hands.
Watched(t) ==
  forward[t] \in {"recv", "feed", "judge"} /\ Settled(t) =>
    \/ mu[t]
    \/ TerminalQueued(t)
    \/ update[t] # <<>> /\ InHand(t) \in EndStates

SettleInv == Track /\ \A t \in Transfers : Watched(t)

LEMMA SettleInit == Init => SettleInv
  BY DEF Init, SettleInv, Track, Watched

\* SetState, first half: the transfer is watched because its lock is held.
LEMMA EnterWatched ==
  ASSUME TypeOK, SettleInv, NEW t \in Transfers, NEW p \in Peers, NEW s \in States,
         s # "Untracked", SetStateEnter(t, p, s), UNCHANGED fwdVars
  PROVE  /\ \A u \in Transfers : Watched(u)'
         /\ \A u \in Transfers, q \in Peers :
              /\ peerStates[u][q] # "Untracked" => peerStates'[u][q] # "Untracked"
              /\ u # t => peerStates'[u][q] = peerStates[u][q]
         /\ peerStates'[t][p] # "Untracked"
<1>1. /\ progressCh' = progressCh
      /\ \A u \in Transfers, q \in Peers :
           peerStates'[u][q] = IF u = t /\ q = p THEN s ELSE peerStates[u][q]
      /\ mu'[t]
      /\ \A u \in Transfers : u # t => mu'[u] = mu[u]
  BY EnterType
<1>2. Watched(t)'
  BY <1>1 DEF Watched
<1>3. ASSUME NEW u \in Transfers, u # t
      PROVE  Watched(u)'
  <2>1. Settled(u)' => Settled(u)
    BY <1>1, <1>3 DEF Settled
  <2> QED
    BY <1>1, <1>3, <2>1 DEF SettleInv, Watched, TerminalQueued, InHand, fwdVars
<1> QED
  BY <1>1, <1>2, <1>3

\* SetState, second half: if the entry settled the transfer, its value says so.
LEMMA LeaveWatched ==
  ASSUME TypeOK, SettleInv, NEW t \in Transfers, NEW p \in Peers,
         SetStateLeave(t, p), peerStates[t][p] # "Untracked", UNCHANGED fwdVars
  PROVE  peerStates' = peerStates /\ \A u \in Transfers : Watched(u)'
<1>1. /\ peerStates' = peerStates
      /\ \A u \in Transfers : u # t => progressCh'[u] = progressCh[u] /\ mu'[u] = mu[u]
      /\ progressCh'[t] = Append(progressCh[t], Progress(p, peerStates[t][p]))
  BY LeaveType
<1>2. \A u \in Transfers : Settled(u)' = Settled(u)
  BY <1>1 DEF Settled
<1>3. Settled(t) => TerminalQueued(t)'
  <2> SUFFICES ASSUME Settled(t)
               PROVE  TerminalQueued(t)'
    OBVIOUS
  <2>1. peerStates[t][p] \in EndStates
    BY DEF Settled
  <2>2. progressCh[t] \in Seq(Update) /\ Progress(p, peerStates[t][p]) \in Update
    <3>1. progressCh[t] \in Seq(Update) /\ peerStates[t][p] \in States
      BY DEF TypeOK
    <3> QED
      BY <3>1 DEF Progress, Update
  <2>3. /\ Len(progressCh'[t]) = Len(progressCh[t]) + 1
        /\ progressCh'[t][Len(progressCh[t]) + 1] = Progress(p, peerStates[t][p])
        /\ Len(progressCh[t]) \in Nat
    BY <1>1, <2>2, AppendProperties
  <2>4. Len(progressCh[t]) + 1 \in 1..Len(progressCh'[t])
    BY <2>3
  <2>5. progressCh'[t][Len(progressCh[t]) + 1].state \in EndStates
    BY <2>1, <2>3 DEF Progress
  <2> QED
    BY <2>4, <2>5 DEF TerminalQueued
<1>4. Watched(t)'
  BY <1>2, <1>3 DEF Watched
<1>5. ASSUME NEW u \in Transfers, u # t
      PROVE  Watched(u)'
  BY <1>1, <1>2, <1>5 DEF SettleInv, Watched, TerminalQueued, InHand, fwdVars
<1> QED
  BY <1>1, <1>4, <1>5

LEMMA SettleStep ==
  ASSUME TypeOK, Fresh, AcceptInv, SettleInv, [Next]_vars
  PROVE  SettleInv'
<1>1. ASSUME NEW t \in Transfers, OfferFile(t)
      PROVE  SettleInv'
  <2>1. /\ UNCHANGED <<peerStates, progressCh, mu, handler, inbox, sender, update>>
        /\ \A u \in Transfers : u # t =>
             offered'[u] = offered[u] /\ offerPc'[u] = offerPc[u] /\ forward'[u] = forward[u]
        /\ offered[t] = "no" /\ offered'[t] = "loop"
        /\ \A p \in Peers : offerPc'[t][p] \in {"write", "out"}
    BY <1>1 DEF OfferFile, stateVars, connVars, sendVars, TypeOK, LoopOver
  <2>2. ~Settled(t)'
    BY <2>1 DEF SettleInv, Track, Settled
  <2>3. ASSUME NEW u \in Transfers
        PROVE  Watched(u)'
    BY <2>1, <2>2 DEF SettleInv, Watched, Settled, TerminalQueued, InHand
  <2>4. Track'
    BY <2>1 DEF SettleInv, Track
  <2> QED
    BY <2>3, <2>4 DEF SettleInv
<1>2. ASSUME NEW t \in Transfers, NEW p \in Peers,
             WriteOffer(t, p) \/ WriteOfferFails(t, p)
      PROVE  SettleInv'
  <2>1. /\ UNCHANGED <<peerStates, progressCh, mu, handler, inbox, sender, forward, update>>
        /\ offered' = offered
        /\ \A u \in Transfers, q \in Peers :
             offerPc'[u][q] = "send" => offerPc[u][q] = "send"
    <3>1. CASE WriteOffer(t, p)
      BY <3>1 DEF WriteOffer, stateVars, connVars, sendVars, fwdVars, TypeOK
    <3>2. CASE WriteOfferFails(t, p)
      BY <3>2 DEF WriteOfferFails, stateVars, connVars, sendVars, fwdVars, TypeOK
    <3> QED
      BY <1>2, <3>1, <3>2
  <2> QED
    BY <2>1 DEF SettleInv, Track, Watched, Settled, TerminalQueued, InHand
<1>3. ASSUME NEW t \in Transfers, NEW p \in Peers, SetOffered(t, p)
      PROVE  SettleInv'
  <2>1. PICK s \in {"Waiting", "Disconnected"} : SetStateEnter(t, p, s)
    BY <1>3 DEF SetOffered
  <2>2. s \in States /\ s # "Untracked"
    BY DEF States, EndStates
  <2>3. /\ UNCHANGED <<offered, handler, inbox, sender>> /\ UNCHANGED fwdVars
        /\ \A u \in Transfers, q \in Peers :
             offerPc'[u][q] = "send" => offerPc[u][q] = "send" \/ (u = t /\ q = p)
        /\ offerPc[t][p] # "out"
    BY <1>3 DEF SetOffered, connVars, sendVars, TypeOK
  <2>4. offered[t] # "no"
    BY <2>3 DEF AcceptInv
  <2>5. /\ \A u \in Transfers : Watched(u)'
        /\ \A u \in Transfers, q \in Peers :
              /\ peerStates[u][q] # "Untracked" => peerStates'[u][q] # "Untracked"
              /\ u # t => peerStates'[u][q] = peerStates[u][q]
        /\ peerStates'[t][p] # "Untracked"
    BY <2>1, <2>2, <2>3, EnterWatched
  <2>6. \A q \in Peers : handler[q] = "send" => Head(inbox[q]).of \in Transfers
    BY ReplyInHand DEF TypeOK
  <2> QED
    BY <2>3, <2>4, <2>5, <2>6 DEF SettleInv, Track
<1>4. ASSUME NEW t \in Transfers, NEW p \in Peers, SentOffered(t, p)
      PROVE  SettleInv'
  <2>1. /\ UNCHANGED <<offered, handler, inbox, sender>> /\ UNCHANGED fwdVars
        /\ \A u \in Transfers, q \in Peers :
             offerPc'[u][q] = "send" => offerPc[u][q] = "send"
        /\ offerPc[t][p] = "send" /\ SetStateLeave(t, p)
    BY <1>4 DEF SentOffered, connVars, sendVars, TypeOK
  <2>2. peerStates' = peerStates /\ \A u \in Transfers : Watched(u)'
    BY <2>1, LeaveWatched DEF SettleInv, Track
  <2> QED
    BY <2>1, <2>2 DEF SettleInv, Track
<1>5. ASSUME NEW p \in Peers,
             \/ Join(p) \/ Register(p) \/ Lookup(p) \/ Feed(p)
             \/ ReadError(p) \/ Unregister(p)
      PROVE  SettleInv'
  <2>1. /\ UNCHANGED <<peerStates, progressCh, mu, offered, offerPc, forward, update>>
        /\ \A q \in Peers : handler'[q] = "send" => handler[q] = "send" /\ inbox'[q] = inbox[q]
    BY <1>5 DEF Join, Register, Lookup, AfterLookup, Feed, ReadError, Unregister, stateVars,
                offerVars, fwdVars, TypeOK
  <2>2. ASSUME NEW u \in Transfers, NEW q \in Peers
        PROVE  sender'[u][q] \in {"started", "ended"} => sender[u][q] \in {"started", "ended"}
    <3>1. CASE Feed(p)
      <4>1. inbox[p] # <<>>
        BY <3>1 DEF Feed, TypeOK
      <4>2. Head(inbox[p]).of \in Transfers
        BY <4>1, ReplyInHand
      <4> QED
        BY <3>1, <4>2 DEF Feed, TypeOK
    <3>2. CASE ~Feed(p)
      BY <1>5, <3>2 DEF Join, Register, Lookup, ReadError, Unregister, sendVars
    <3> QED
      BY <3>1, <3>2
  <2> QED
    BY <2>1, <2>2 DEF SettleInv, Track, Watched, Settled, TerminalQueued, InHand
<1>6. ASSUME NEW p \in Peers, SetReply(p)
      PROVE  SettleInv'
  <2> DEFINE t == Head(inbox[p]).of
  <2>1. /\ UNCHANGED <<offered, offerPc, inbox, sender>> /\ UNCHANGED fwdVars
        /\ \A q \in Peers : handler'[q] = "send" => handler[q] = "send" \/ q = p
        /\ inbox[p] # <<>> /\ SetStateEnter(t, p, Head(inbox[p]).is)
    BY <1>6 DEF SetReply, offerVars, sendVars, TypeOK
  <2>2. t \in Transfers /\ Head(inbox[p]).is \in States \ {"Untracked"} /\ offered[t] # "no"
    BY <2>1, ReplyInHand DEF States, EndStates
  <2>3. /\ \A u \in Transfers : Watched(u)'
        /\ \A u \in Transfers, q \in Peers :
              /\ peerStates[u][q] # "Untracked" => peerStates'[u][q] # "Untracked"
              /\ u # t => peerStates'[u][q] = peerStates[u][q]
        /\ peerStates'[t][p] # "Untracked"
    BY <2>1, <2>2, EnterWatched
  <2>4. \A q \in Peers : handler[q] = "send" => Head(inbox[q]).of \in Transfers
    BY ReplyInHand DEF TypeOK
  <2> QED
    BY <2>1, <2>2, <2>3, <2>4 DEF SettleInv, Track
<1>7. ASSUME NEW p \in Peers, SentReply(p)
      PROVE  SettleInv'
  <2> DEFINE t == Head(inbox[p]).of
  <2>1. /\ UNCHANGED <<offered, offerPc, inbox, sender>> /\ UNCHANGED fwdVars
        /\ \A q \in Peers : handler'[q] = "send" => handler[q] = "send"
        /\ inbox[p] # <<>> /\ SetStateLeave(t, p) /\ handler[p] = "send"
    BY <1>7 DEF SentReply, offerVars, sendVars, TypeOK
  <2>2. t \in Transfers
    BY <2>1, ReplyInHand
  <2>3. peerStates' = peerStates /\ \A u \in Transfers : Watched(u)'
    BY <2>1, <2>2, LeaveWatched DEF SettleInv, Track
  <2> QED
    BY <2>1, <2>3 DEF SettleInv, Track
<1>8. ASSUME NEW t \in Transfers, NEW p \in Peers, SetSending(t, p)
      PROVE  SettleInv'
  <2>1. PICK s \in {"InProgress", "Completed", "Failed"} : SetStateEnter(t, p, s)
    BY <1>8 DEF SetSending
  <2>2. s \in States /\ s # "Untracked"
    BY DEF States, EndStates
  <2>3. UNCHANGED <<offered, offerPc, handler, inbox>> /\ UNCHANGED fwdVars
        /\ sender[t][p] # "none"
    BY <1>8 DEF SetSending, At, offerVars, connVars
  <2>4. \E pc \in SenderPC : Goto(t, p, pc)
    BY <1>8 DEF SetSending, SenderPC
  <2>5. \A u \in Transfers, q \in Peers : u # t \/ q # p => sender'[u][q] = sender[u][q]
    BY <2>4, GotoType
  <2>6. offered[t] # "no"
    BY <2>3 DEF AcceptInv, ChunksOnlyAfterAccept
  <2>7. /\ \A u \in Transfers : Watched(u)'
        /\ \A u \in Transfers, q \in Peers :
              /\ peerStates[u][q] # "Untracked" => peerStates'[u][q] # "Untracked"
              /\ u # t => peerStates'[u][q] = peerStates[u][q]
        /\ peerStates'[t][p] # "Untracked"
    BY <2>1, <2>2, <2>3, EnterWatched
  <2>8. \A q \in Peers : handler[q] = "send" => Head(inbox[q]).of \in Transfers
    BY ReplyInHand DEF TypeOK
  <2> QED
    BY <2>3, <2>5, <2>6, <2>7, <2>8 DEF SettleInv, Track
<1>9. ASSUME NEW t \in Transfers, NEW p \in Peers, SentSending(t, p)
      PROVE  SettleInv'
  <2>1. UNCHANGED <<offered, offerPc, handler, inbox>> /\ UNCHANGED fwdVars
        /\ sender[t][p] \in {"started", "ended"} /\ SetStateLeave(t, p)
    BY <1>9 DEF SentSending, At, offerVars, connVars
  <2>2. PICK pc \in {"stream", "done"} : Goto(t, p, pc)
    BY <1>9 DEF SentSending
  <2>3. \A u \in Transfers, q \in Peers :
          sender'[u][q] \in {"started", "ended"} => sender[u][q] \in {"started", "ended"}
    BY <2>2, GotoType DEF SenderPC
  <2>4. peerStates' = peerStates /\ \A u \in Transfers : Watched(u)'
    BY <2>1, LeaveWatched DEF SettleInv, Track
  <2> QED
    BY <2>1, <2>3, <2>4 DEF SettleInv, Track
<1>10. ASSUME NEW t \in Transfers, NEW p \in Peers,
              SendChunk(t, p) \/ UpdateOffset(t, p) \/ SendProgress(t, p) \/ EndStream(t, p)
       PROVE  SettleInv'
  <2>1. UNCHANGED <<peerStates, mu, offered, offerPc, handler, inbox, forward, update>>
    BY <1>10 DEF SendChunk, UpdateOffset, SendProgress, EndStream, stateVars, offerVars,
                 connVars, fwdVars
  <2>2. PICK pc \in {"offset", "tell", "stream", "complete", "fail"} : Goto(t, p, pc)
    BY <1>10 DEF SendChunk, UpdateOffset, SendProgress, EndStream
  <2>3. \A u \in Transfers, q \in Peers :
          sender'[u][q] \in {"started", "ended"} => sender[u][q] \in {"started", "ended"}
    BY <2>2, GotoType DEF SenderPC
  <2>4. ASSUME NEW u \in Transfers, TerminalQueued(u)
        PROVE  TerminalQueued(u)'
    <3>1. /\ progressCh[u] \in Seq(Update) /\ Progress(p, "InProgress") \in Update
          /\ progressCh \in [Transfers -> Seq(Update)]
      BY DEF TypeOK, Progress, Update, States
    <3>2. \/ progressCh'[u] = progressCh[u]
          \/ progressCh'[u] = Append(progressCh[u], Progress(p, "InProgress"))
      BY <1>10, <3>1 DEF SendChunk, UpdateOffset, SendProgress, EndStream, stateVars
    <3>3. CASE progressCh'[u] = Append(progressCh[u], Progress(p, "InProgress"))
      <4>1. /\ Len(progressCh'[u]) = Len(progressCh[u]) + 1 /\ Len(progressCh[u]) \in Nat
            /\ \A i \in 1..Len(progressCh[u]) : progressCh'[u][i] = progressCh[u][i]
        BY <3>1, <3>3, AppendProperties
      <4>2. \A i \in 1..Len(progressCh[u]) : i \in 1..Len(progressCh'[u])
        BY <4>1
      <4> QED
        BY <2>4, <4>1, <4>2 DEF TerminalQueued
    <3> QED
      BY <2>4, <3>2, <3>3 DEF TerminalQueued
  <2>5. ASSUME NEW u \in Transfers
        PROVE  Watched(u)'
    BY <2>1, <2>4 DEF SettleInv, Watched, Settled, InHand
  <2> QED
    BY <2>1, <2>3, <2>5 DEF SettleInv, Track
<1>11. ASSUME NEW t \in Transfers, Receive(t)
       PROVE  SettleInv'
  <2>1. /\ UNCHANGED <<peerStates, mu, offered, offerPc, handler, inbox, sender>>
        /\ \A u \in Transfers : u # t =>
             /\ progressCh'[u] = progressCh[u]
             /\ forward'[u] = forward[u] /\ update'[u] = update[u]
        /\ forward[t] = "recv" /\ progressCh[t] # <<>>
        /\ update'[t] = <<Head(progressCh[t])>> /\ progressCh'[t] = Tail(progressCh[t])
    BY <1>11 DEF Receive, offerVars, connVars, sendVars, TypeOK
  <2>2. \A u \in Transfers : Settled(u)' = Settled(u)
    BY <2>1 DEF Settled
  <2>3. TerminalQueued(t) => TerminalQueued(t)' \/ InHand(t)' \in EndStates
    <3> SUFFICES ASSUME NEW i \in 1..Len(progressCh[t]), progressCh[t][i].state \in EndStates
                 PROVE  TerminalQueued(t)' \/ InHand(t)' \in EndStates
      BY DEF TerminalQueued
    <3>1. progressCh[t] \in Seq(Update)
      BY DEF TypeOK
    <3>2. /\ Len(progressCh'[t]) = Len(progressCh[t]) - 1 /\ Len(progressCh[t]) \in Nat
          /\ \A j \in 1..Len(progressCh'[t]) : progressCh'[t][j] = progressCh[t][j + 1]
      BY <2>1, <3>1, HeadTailProperties
    <3>3. CASE i = 1
      <4>1. Head(progressCh[t]) = progressCh[t][1]
        BY <2>1, <3>1
      <4>2. InHand(t)' = Head(progressCh[t]).state
        BY <2>1 DEF InHand
      <4> QED
        BY <3>3, <4>1, <4>2
    <3>4. CASE i # 1
      <4>1. i - 1 \in 1..Len(progressCh'[t]) /\ (i - 1) + 1 = i
        BY <3>2, <3>4
      <4>2. progressCh'[t][i - 1] = progressCh[t][i]
        BY <3>2, <4>1
      <4> QED
        BY <4>1, <4>2 DEF TerminalQueued
    <3> QED
      BY <3>3, <3>4
  <2>4. Watched(t)'
    <3>1. Watched(t)
      BY DEF SettleInv
    <3>2. forward[t] = "recv" => update[t] = <<>>
      <4>1. forward[t] \in {"feed", "judge"} <=> update[t] # <<>>
        BY DEF TypeOK
      <4> QED
        BY <4>1
    <3>3. update'[t] # <<>>
      BY <2>1
    <3> QED
      BY <2>1, <2>2, <2>3, <3>1, <3>2, <3>3 DEF Watched
  <2>5. ASSUME NEW u \in Transfers, u # t
        PROVE  Watched(u)'
    BY <2>1, <2>2, <2>5 DEF SettleInv, Watched, TerminalQueued, InHand
  <2> QED
    BY <2>1, <2>4, <2>5 DEF SettleInv, Track
<1>12. ASSUME NEW t \in Transfers, Announce(t) \/ Judge(t) \/ Remove(t)
       PROVE  SettleInv'
  <2>1. /\ UNCHANGED <<peerStates, progressCh, mu, offered, offerPc, handler, inbox, sender>>
        /\ \A u \in Transfers : u # t => forward'[u] = forward[u] /\ update'[u] = update[u]
    BY <1>12 DEF Announce, Judge, Remove, stateVars, offerVars, connVars, sendVars, TypeOK
  <2>2. \A u \in Transfers : Settled(u)' = Settled(u) /\ TerminalQueued(u)' = TerminalQueued(u)
    BY <2>1 DEF Settled, TerminalQueued
  <2>3. Watched(t)'
    <3>1. CASE Announce(t)
      BY <2>1, <2>2, <3>1 DEF Announce, SettleInv, Watched, InHand, TypeOK
    <3>2. CASE Judge(t)
      <4>1. AllPeersSettled(t) <=> Settled(t)
        BY DEF AllPeersSettled, Tracked, Settled, IsTerminal, EndStates
      <4>2. forward'[t] = IF IsTerminal(InHand(t)) /\ AllPeersSettled(t)
                          THEN "remove" ELSE "recv"
        BY <3>2 DEF Judge, TypeOK
      <4>3. forward[t] = "judge" /\ Watched(t)
        BY <3>2 DEF Judge, SettleInv
      <4>4. forward'[t] = "recv" /\ Settled(t) => InHand(t) \notin EndStates
        BY <4>1, <4>2 DEF IsTerminal, EndStates
      <4>5. forward'[t] \in {"recv", "feed", "judge"} /\ Settled(t) => mu[t] \/ TerminalQueued(t)
        BY <4>2, <4>3, <4>4 DEF Watched
      <4> QED
        BY <2>1, <2>2, <4>5 DEF Watched
    <3>3. CASE Remove(t)
      BY <3>3 DEF Remove, Watched, TypeOK
    <3> QED
      BY <1>12, <3>1, <3>2, <3>3
  <2>4. ASSUME NEW u \in Transfers, u # t
        PROVE  Watched(u)'
    BY <2>1, <2>2, <2>4 DEF SettleInv, Watched, InHand
  <2> QED
    BY <2>1, <2>3, <2>4 DEF SettleInv, Track
<1>13. ASSUME NEW t \in Transfers, NEW p \in Peers, NEW s \in {"Accepted", "Rejected"},
              Reply(t, p, s)
       PROVE  SettleInv'
  <2>1. UNCHANGED <<peerStates, progressCh, mu, offered, offerPc, handler, sender, forward,
                    update>>
    BY <1>13 DEF Reply, stateVars, offerVars, sendVars, fwdVars
  <2>2. ASSUME NEW q \in Peers, handler[q] = "send"
        PROVE  Head(inbox'[q]) = Head(inbox[q])
    <3>1. inbox[q] \in Seq(ReplyMsg) /\ inbox[q] # <<>> /\ [of |-> t, is |-> s] \in ReplyMsg
      BY <2>2 DEF TypeOK, ReplyMsg
    <3>2. inbox'[q] = inbox[q] \/ inbox'[q] = Append(inbox[q], [of |-> t, is |-> s])
      BY <1>13 DEF Reply, TypeOK
    <3>3. Head(Append(inbox[q], [of |-> t, is |-> s])) = Head(inbox[q])
      <4>1. 1 \in 1..Len(inbox[q]) /\ Head(inbox[q]) = inbox[q][1]
        BY <3>1, EmptySeq
      <4>2. Append(inbox[q], [of |-> t, is |-> s])[1] = inbox[q][1]
        BY <3>1, <4>1, AppendProperties
      <4>3. Append(inbox[q], [of |-> t, is |-> s]) \in Seq(ReplyMsg)
            /\ Append(inbox[q], [of |-> t, is |-> s]) # <<>>
        BY <3>1, AppendProperties
      <4> QED
        BY <4>1, <4>2, <4>3
    <3> QED
      BY <3>2, <3>3
  <2> QED
    BY <2>1, <2>2 DEF SettleInv, Track, Watched, Settled, TerminalQueued, InHand
<1>14. ASSUME (\E p \in Peers : Cut(p)) \/ (\E t \in Transfers : EndOffer(t)) \/ UNCHANGED vars
       PROVE  SettleInv'
  <2>1. /\ UNCHANGED <<peerStates, progressCh, mu, offerPc, handler, inbox, sender, forward,
                       update>>
        /\ \A u \in Transfers : offered'[u] = "no" => offered[u] = "no"
    BY <1>14 DEF Cut, EndOffer, vars, stateVars, offerVars, connVars, sendVars, fwdVars, TypeOK
  <2> QED
    BY <2>1 DEF SettleInv, Track, Watched, Settled, TerminalQueued, InHand
<1> QED
  BY <1>1, <1>2, <1>3, <1>4, <1>5, <1>6, <1>7, <1>8, <1>9, <1>10, <1>11, <1>12, <1>13, <1>14
     DEF Next, OfferStep, HandlerStep, ForwardStep, PeerStep, SenderStep

\* A room of any size drops no settlement: the forwarder of a settled transfer
\* never sits waiting on a channel that holds nothing to tell it so.
THEOREM SettlementsArrive == Safety => []NoLostSettlement
<1>1. TypeOK /\ SettleInv => NoLostSettlement
  BY DEF TypeOK, SettleInv, Watched, NoLostSettlement, TerminalQueued
<1>2. Init => TypeOK /\ Fresh
  BY TypeInit DEF Init, Fresh
<1>3. TypeOK /\ AcceptInv /\ [Next]_vars => AcceptInv'
  BY AcceptStep
<1>4. TypeOK /\ Fresh /\ AcceptInv /\ SettleInv /\ [Next]_vars => SettleInv'
  BY SettleStep
<1> QED
  BY <1>1, <1>2, <1>3, <1>4, AcceptInit, SettleInit, TypeStep, PTL DEF Safety
------------------------------------------------------------------------------
(* What comes after an end                                                 *)

\* The entries of a queue without its first are those of the queue.
LEMMA InboxTail ==
  ASSUME TypeOK, NEW p \in Peers, inbox[p] # <<>>, NEW i \in 1..Len(Tail(inbox[p]))
  PROVE  /\ 1 \in 1..Len(inbox[p]) /\ Head(inbox[p]) = inbox[p][1]
         /\ i + 1 \in 1..Len(inbox[p]) /\ i + 1 # 1
         /\ Tail(inbox[p])[i] = inbox[p][i + 1]
<1>1. inbox[p] \in Seq(ReplyMsg)
  BY DEF TypeOK
<1>2. /\ Len(Tail(inbox[p])) = Len(inbox[p]) - 1 /\ Len(inbox[p]) \in Nat
      /\ \A j \in 1..Len(Tail(inbox[p])) : Tail(inbox[p])[j] = inbox[p][j + 1]
  BY <1>1, HeadTailProperties
<1>3. 1 \in 1..Len(inbox[p]) /\ i + 1 \in 1..Len(inbox[p]) /\ i + 1 # 1
  BY <1>2
<1>4. Head(inbox[p]) = inbox[p][1]
  BY <1>1
<1> QED
  BY <1>2, <1>3, <1>4

\* The queue of a peer holds one reply to a transfer at most, and none once the
\* send that it asks for has been started.
OnceInv ==
  /\ \A p \in Peers : \A i, j \in 1..Len(inbox[p]) : inbox[p][i].of = inbox[p][j].of => i = j
  /\ \A p \in Peers : \A i \in 1..Len(inbox[p]) : sender[inbox[p][i].of][p] = "none"

LEMMA OnceStep ==
  ASSUME TypeOK, AcceptInv, OnceInv, [Next]_vars
  PROVE  OnceInv'
<1>0. \A p \in Peers : \A i \in 1..Len(inbox[p]) :
        inbox[p][i].of \in Transfers /\ inbox[p][i].is \in {"Accepted", "Rejected"}
  <2>1. ASSUME NEW p \in Peers, NEW i \in 1..Len(inbox[p])
        PROVE  inbox[p][i] \in ReplyMsg
    BY DEF TypeOK
  <2> QED
    BY <2>1 DEF ReplyMsg
<1>1. ASSUME UNCHANGED inbox,
             \A u \in Transfers, q \in Peers : sender[u][q] = "none" => sender'[u][q] = "none"
      PROVE  OnceInv'
  BY <1>0, <1>1 DEF OnceInv
<1>2. ASSUME \/ \E t \in Transfers : OfferFile(t)
             \/ \E p \in Peers : \/ Join(p) \/ Register(p) \/ SetReply(p) \/ SentReply(p)
                                 \/ ReadError(p) \/ Unregister(p) \/ Cut(p)
             \/ OfferStep \/ ForwardStep \/ UNCHANGED vars
      PROVE  OnceInv'
  <2>1. UNCHANGED <<inbox, sender>>
    BY <1>2 DEF OfferFile, OfferStep, WriteOffer, WriteOfferFails, SetOffered, SentOffered,
                EndOffer, Join, Register, SetReply, SentReply, ReadError, Unregister, Cut,
                ForwardStep, Receive, Announce, Judge, Remove, vars, connVars, sendVars
  <2> QED
    BY <1>1, <2>1
<1>3. ASSUME NEW t \in Transfers, NEW p \in Peers, SenderStep(t, p)
      PROVE  OnceInv'
  <2>1. inbox' = inbox
    BY <1>3 DEF SenderStep, SetSending, SentSending, SendChunk, UpdateOffset, SendProgress,
                EndStream, connVars
  <2>2. sender[t][p] # "none" /\ \E pc \in SenderPC : Goto(t, p, pc)
    BY <1>3 DEF SenderStep, SetSending, SentSending, SendChunk, UpdateOffset, SendProgress,
                EndStream, At, SenderPC
  <2>3. \A u \in Transfers, q \in Peers : sender[u][q] = "none" => sender'[u][q] = "none"
    BY <2>2, GotoType
  <2> QED
    BY <1>1, <2>1, <2>3
<1>4. ASSUME NEW p \in Peers, Lookup(p) \/ Feed(p)
      PROVE  OnceInv'
  <2>1. CASE inbox' = inbox /\ sender' = sender
    BY <1>1, <2>1
  <2>2. CASE /\ inbox' = [inbox EXCEPT ![p] = Tail(@)]
             /\ inbox[p] # <<>>
             /\ \A u \in Transfers, q \in Peers :
                  u # Head(inbox[p]).of \/ q # p => sender'[u][q] = sender[u][q]
    <3>1. inbox'[p] = Tail(inbox[p]) /\ \A q \in Peers : q # p => inbox'[q] = inbox[q]
      BY <2>2 DEF TypeOK
    <3>2. ASSUME NEW i \in 1..Len(inbox'[p])
          PROVE  /\ i + 1 \in 1..Len(inbox[p]) /\ inbox'[p][i] = inbox[p][i + 1]
                 /\ inbox'[p][i].of # Head(inbox[p]).of
      <4>1. i \in 1..Len(Tail(inbox[p]))
        BY <3>1
      <4>2. /\ 1 \in 1..Len(inbox[p]) /\ Head(inbox[p]) = inbox[p][1]
            /\ i + 1 \in 1..Len(inbox[p]) /\ i + 1 # 1
            /\ Tail(inbox[p])[i] = inbox[p][i + 1]
        BY <2>2, <4>1, InboxTail
      <4>3. inbox[p][i + 1].of # inbox[p][1].of
        BY <4>2 DEF OnceInv
      <4> QED
        BY <3>1, <4>2, <4>3
    <3>3. ASSUME NEW i \in 1..Len(inbox'[p]), NEW j \in 1..Len(inbox'[p]),
                 inbox'[p][i].of = inbox'[p][j].of
          PROVE  i = j
      <4> DEFINE k == i + 1
                 l == j + 1
      <4>1. /\ k \in 1..Len(inbox[p]) /\ inbox'[p][i] = inbox[p][k]
            /\ l \in 1..Len(inbox[p]) /\ inbox'[p][j] = inbox[p][l]
        BY <3>2
      <4> HIDE DEF k, l
      <4>2. inbox[p][k].of = inbox[p][l].of
        BY <3>3, <4>1
      <4>3. k = l
        BY <4>1, <4>2 DEF OnceInv
      <4> QED
        BY <4>3 DEF k, l
    <3>4. ASSUME NEW i \in 1..Len(inbox'[p])
          PROVE  sender'[inbox'[p][i].of][p] = "none"
      <4> DEFINE k == inbox'[p][i].of
      <4>1. k = inbox[p][i + 1].of /\ i + 1 \in 1..Len(inbox[p]) /\ k # Head(inbox[p]).of
        BY <3>2
      <4>2. sender[k][p] = "none" /\ k \in Transfers
        BY <1>0, <4>1 DEF OnceInv
      <4> HIDE DEF k
      <4>3. sender'[k][p] = "none"
        BY <2>2, <4>1, <4>2
      <4> QED
        BY <4>3 DEF k
    <3>5. ASSUME NEW q \in Peers, q # p, NEW i \in 1..Len(inbox'[q])
          PROVE  sender'[inbox'[q][i].of][q] = "none"
      <4> DEFINE k == inbox[q][i].of
      <4>1. inbox'[q] = inbox[q] /\ sender[k][q] = "none" /\ k \in Transfers
        BY <1>0, <3>1, <3>5 DEF OnceInv
      <4> HIDE DEF k
      <4>2. sender'[k][q] = "none"
        BY <2>2, <3>5, <4>1
      <4> QED
        BY <4>1, <4>2 DEF k
    <3>6. ASSUME NEW q \in Peers, q # p, NEW i \in 1..Len(inbox'[q]), NEW j \in 1..Len(inbox'[q]),
                 inbox'[q][i].of = inbox'[q][j].of
          PROVE  i = j
      BY <3>1, <3>6 DEF OnceInv
    <3> QED
      BY <3>3, <3>4, <3>5, <3>6 DEF OnceInv
  <2>3. CASE Lookup(p)
    <3>1. /\ inbox[p] # <<>> /\ sender' = sender
          /\ inbox' = inbox \/ inbox' = [inbox EXCEPT ![p] = Tail(@)]
      BY <2>3 DEF Lookup, sendVars, TypeOK
    <3> QED
      BY <2>1, <2>2, <3>1
  <2>4. CASE Feed(p)
    <3>1. inbox[p] # <<>> /\ inbox' = [inbox EXCEPT ![p] = Tail(@)]
      BY <2>4 DEF Feed, TypeOK
    <3>2. Head(inbox[p]).of \in Transfers
      BY <3>1, ReplyInHand
    <3>3. \A u \in Transfers, q \in Peers :
            u # Head(inbox[p]).of \/ q # p => sender'[u][q] = sender[u][q]
      BY <2>4, <3>2 DEF Feed, TypeOK
    <3> QED
      BY <2>2, <3>1, <3>3
  <2> QED
    BY <1>4, <2>3, <2>4
<1>5. ASSUME NEW p \in Peers, NEW t \in Transfers, NEW s \in {"Accepted", "Rejected"},
             Reply(t, p, s)
      PROVE  OnceInv'
  <2> DEFINE m == [of |-> t, is |-> s]
  <2>1. /\ sender' = sender /\ answer[t][p] = "pending"
        /\ inbox'[p] = Append(inbox[p], m) /\ \A q \in Peers : q # p => inbox'[q] = inbox[q]
    BY <1>5 DEF Reply, sendVars, TypeOK
  <2>2. sender[t][p] = "none"
    BY <2>1 DEF AcceptInv, ChunksOnlyAfterAccept
  <2>3. ASSUME NEW i \in 1..Len(inbox[p])
        PROVE  inbox[p][i].of # t
    <3>1. answer[inbox[p][i].of][p] = inbox[p][i].is
      BY DEF AcceptInv
    <3>2. inbox[p][i].is # "pending"
      BY <1>0
    <3> QED
      BY <2>1, <3>1, <3>2
  <2>4. /\ Len(inbox'[p]) = Len(inbox[p]) + 1 /\ Len(inbox[p]) \in Nat
        /\ \A i \in 1..Len(inbox[p]) : inbox'[p][i] = inbox[p][i]
        /\ inbox'[p][Len(inbox[p]) + 1] = m
    <3> DEFINE in == inbox[p]
    <3>1. in \in Seq(ReplyMsg) /\ m \in ReplyMsg
      BY DEF TypeOK, ReplyMsg
    <3> HIDE DEF m, in
    <3>2. /\ Len(Append(in, m)) = Len(in) + 1 /\ Len(in) \in Nat
          /\ \A i \in 1..Len(in) : Append(in, m)[i] = in[i]
          /\ Append(in, m)[Len(in) + 1] = m
      BY <3>1, AppendProperties
    <3> QED
      BY <2>1, <3>2 DEF in
  <2>5. \A i \in 1..Len(inbox'[p]) :
          \/ i \in 1..Len(inbox[p]) /\ inbox'[p][i] = inbox[p][i]
          \/ i = Len(inbox[p]) + 1 /\ inbox'[p][i].of = t
    BY <2>4
  <2>6. ASSUME NEW i \in 1..Len(inbox'[p]), NEW j \in 1..Len(inbox'[p]),
               inbox'[p][i].of = inbox'[p][j].of
        PROVE  i = j
    BY <2>3, <2>5, <2>6 DEF OnceInv
  <2>7. ASSUME NEW i \in 1..Len(inbox'[p])
        PROVE  sender'[inbox'[p][i].of][p] = "none"
    BY <2>1, <2>2, <2>5 DEF OnceInv
  <2>8. ASSUME NEW q \in Peers, q # p
        PROVE  /\ \A i, j \in 1..Len(inbox'[q]) : inbox'[q][i].of = inbox'[q][j].of => i = j
               /\ \A i \in 1..Len(inbox'[q]) : sender'[inbox'[q][i].of][q] = "none"
    BY <2>1, <2>8 DEF OnceInv
  <2> QED
    BY <2>6, <2>7, <2>8 DEF OnceInv
<1> QED
  BY <1>2, <1>3, <1>4, <1>5 DEF Next, HandlerStep, PeerStep

\* Who ended a transfer for a peer: a failed write of the offer, which the peer
\* then never answers; the peer's refusal; or its one send.
Ended(t, p) ==
  /\ offerPc[t][p] = "lost" => answer[t][p] = "none"
  /\ peerStates[t][p] = "Disconnected" =>
       answer[t][p] = "none" /\ offerPc[t][p] \in {"send", "done"}
  /\ peerStates[t][p] = "Rejected" => answer[t][p] = "Rejected"
  /\ peerStates[t][p] \in {"Completed", "Failed"} => sender[t][p] \in {"ended", "done"}

\* What may be written over the end of a transfer.
Stays(t, p) ==
  peerStates[t][p] \in EndStates =>
    \/ peerStates'[t][p] = peerStates[t][p]
    \/ offerPc[t][p] = "waiting" /\ offerPc'[t][p] = "send" /\ peerStates'[t][p] = "Waiting"

EndInv == \A t \in Transfers, p \in Peers : Ended(t, p)

\* A step that writes no state.
LEMMA EndKept ==
  ASSUME AcceptInv, NEW t \in Transfers, NEW p \in Peers, Ended(t, p),
         peerStates'[t][p] = peerStates[t][p],
         \/ answer'[t][p] = answer[t][p]
         \/ answer[t][p] = "pending"
         \/ offerPc[t][p] = "write" /\ offerPc'[t][p] = "waiting",
         \/ offerPc'[t][p] = offerPc[t][p]
         \/ offerPc[t][p] = "out" /\ offerPc'[t][p] \in {"out", "write"}
         \/ offerPc[t][p] = "write" /\ offerPc'[t][p] \in {"waiting", "lost"}
         \/ offerPc[t][p] = "send" /\ offerPc'[t][p] = "done",
         \/ sender'[t][p] = sender[t][p]
         \/ sender[t][p] \notin {"ended", "done"}
         \/ sender'[t][p] = "done"
  PROVE  Ended(t, p)' /\ Stays(t, p)
<1>1. offerPc[t][p] = "write" => answer[t][p] = "none"
  BY DEF AcceptInv
<1>2. \/ answer'[t][p] = answer[t][p]
      \/ answer[t][p] = "pending"
      \/ answer[t][p] = "none" /\ offerPc[t][p] = "write" /\ offerPc'[t][p] = "waiting"
  BY <1>1
<1>3. Stays(t, p)
  BY DEF Stays
<1>4. offerPc'[t][p] = "lost" => answer'[t][p] = "none"
  BY <1>1, <1>2 DEF Ended
<1>5. peerStates'[t][p] = "Disconnected" =>
        answer'[t][p] = "none" /\ offerPc'[t][p] \in {"send", "done"}
  BY <1>2 DEF Ended
<1>6. peerStates'[t][p] = "Rejected" => answer'[t][p] = "Rejected"
  BY <1>2 DEF Ended
<1>7. peerStates'[t][p] \in {"Completed", "Failed"} => sender'[t][p] \in {"ended", "done"}
  BY DEF Ended
<1> QED
  BY <1>3, <1>4, <1>5, <1>6, <1>7 DEF Ended

LEMMA EndStep ==
  ASSUME TypeOK, AcceptInv, OnceInv, EndInv, [Next]_vars, NEW u \in Transfers, NEW q \in Peers
  PROVE  Ended(u, q)' /\ Stays(u, q)
<1>0. Ended(u, q)
  BY DEF EndInv
<1>1. ASSUME NEW t \in Transfers, OfferFile(t)
      PROVE  Ended(u, q)' /\ Stays(u, q)
  <2>1. /\ UNCHANGED <<peerStates, answer, sender>>
        /\ \/ offerPc'[u][q] = offerPc[u][q]
           \/ offerPc[u][q] = "out" /\ offerPc'[u][q] \in {"out", "write"}
    BY <1>1 DEF OfferFile, LoopOver, stateVars, sendVars, peerVars, TypeOK, AcceptInv
  <2> QED
    BY <1>0, <2>1, EndKept
<1>2. ASSUME NEW t \in Transfers, NEW p \in Peers,
             WriteOffer(t, p) \/ WriteOfferFails(t, p) \/ SentOffered(t, p)
      PROVE  Ended(u, q)' /\ Stays(u, q)
  <2>1. UNCHANGED <<peerStates, sender>>
    BY <1>2 DEF WriteOffer, WriteOfferFails, SentOffered, SetStateLeave, stateVars, sendVars
  <2>2. /\ \/ offerPc'[u][q] = offerPc[u][q] /\ answer'[u][q] = answer[u][q]
           \/ offerPc[u][q] = "write" /\ offerPc'[u][q] = "waiting"
           \/ offerPc[u][q] = "write" /\ offerPc'[u][q] = "lost" /\ answer'[u][q] = answer[u][q]
           \/ offerPc[u][q] = "send" /\ offerPc'[u][q] = "done" /\ answer'[u][q] = answer[u][q]
    <3>1. CASE WriteOffer(t, p)
      BY <3>1 DEF WriteOffer, TypeOK
    <3>2. CASE WriteOfferFails(t, p)
      BY <3>2 DEF WriteOfferFails, peerVars, TypeOK
    <3>3. CASE SentOffered(t, p)
      BY <3>3 DEF SentOffered, peerVars, TypeOK
    <3> QED
      BY <1>2, <3>1, <3>2, <3>3
  <2> QED
    BY <1>0, <2>1, <2>2, EndKept
<1>3. ASSUME NEW t \in Transfers, NEW p \in Peers, SetOffered(t, p)
      PROVE  Ended(u, q)' /\ Stays(u, q)
  <2>1. /\ UNCHANGED <<answer, sender>>
        /\ u # t \/ q # p => offerPc'[u][q] = offerPc[u][q]
        /\ offerPc'[t][p] = "send"
    BY <1>3 DEF SetOffered, sendVars, peerVars, TypeOK
  <2>2. PICK s \in {"Waiting", "Disconnected"} :
          /\ SetStateEnter(t, p, s)
          /\ s = "Waiting" => offerPc[t][p] = "waiting"
          /\ s = "Disconnected" => offerPc[t][p] = "lost"
    BY <1>3 DEF SetOffered
  <2>3. s \in States
    BY DEF States, EndStates
  <2>4. peerStates'[u][q] = IF u = t /\ q = p THEN s ELSE peerStates[u][q]
    BY <2>2, <2>3, EnterType
  <2>5. CASE u # t \/ q # p
    BY <1>0, <2>1, <2>4, <2>5, EndKept
  <2>6. CASE u = t /\ q = p /\ s = "Waiting"
    BY <1>0, <2>1, <2>2, <2>4, <2>6 DEF Ended, Stays
  <2>7. CASE u = t /\ q = p /\ s = "Disconnected"
    <3>1. answer[t][p] = "none" /\ sender[t][p] = "none"
      BY <1>0, <2>2, <2>7 DEF Ended, AcceptInv, ChunksOnlyAfterAccept
    <3>2. peerStates[t][p] \notin EndStates
      BY <1>0, <2>2, <2>7, <3>1 DEF Ended, EndStates
    <3> QED
      BY <2>1, <2>4, <2>7, <3>1, <3>2 DEF Ended, Stays
  <2> QED
    BY <2>5, <2>6, <2>7
<1>4. ASSUME NEW p \in Peers, SetReply(p)
      PROVE  Ended(u, q)' /\ Stays(u, q)
  <2> DEFINE t == Head(inbox[p]).of
             s == Head(inbox[p]).is
  <2>1. UNCHANGED <<offerPc, answer, sender>> /\ inbox[p] # <<>> /\ SetStateEnter(t, p, s)
    BY <1>4 DEF SetReply, offerVars, sendVars, peerVars, TypeOK
  <2>2. /\ t \in Transfers /\ s \in {"Accepted", "Rejected"} /\ s \in States
        /\ answer[t][p] = s
    BY <2>1, ReplyInHand DEF States, EndStates
  <2>3. sender[t][p] = "none"
    <3>1. inbox[p] \in Seq(ReplyMsg)
      BY DEF TypeOK
    <3>2. Head(inbox[p]) = inbox[p][1] /\ 1 \in 1..Len(inbox[p])
      BY <2>1, <3>1, EmptySeq
    <3> QED
      BY <3>2 DEF OnceInv
  <2>4. peerStates'[u][q] = IF u = t /\ q = p THEN s ELSE peerStates[u][q]
    BY <2>1, <2>2, EnterType
  <2>5. CASE u # t \/ q # p
    BY <1>0, <2>1, <2>4, <2>5, EndKept
  <2>6. CASE u = t /\ q = p
    <3>1. peerStates[t][p] \in EndStates => s = "Rejected" /\ peerStates[t][p] = "Rejected"
      BY <1>0, <2>2, <2>3, <2>6 DEF Ended, EndStates
    <3>2. offerPc[t][p] = "lost" => answer[t][p] = "none"
      BY <1>0, <2>6 DEF Ended
    <3> HIDE DEF t, s
    <3> QED
      BY <2>1, <2>2, <2>4, <2>6, <3>1, <3>2 DEF Ended, Stays
  <2> QED
    BY <2>5, <2>6
<1>5. ASSUME NEW t \in Transfers, NEW p \in Peers, SetSending(t, p)
      PROVE  Ended(u, q)' /\ Stays(u, q)
  <2>1. UNCHANGED <<offerPc, answer>> /\ sender[t][p] \in {"start", "complete", "fail"}
    BY <1>5 DEF SetSending, At, offerVars, peerVars
  <2>2. PICK s \in {"InProgress", "Completed", "Failed"}, pc \in {"started", "ended"} :
          SetStateEnter(t, p, s) /\ Goto(t, p, pc) /\ (s # "InProgress" => pc = "ended")
    BY <1>5 DEF SetSending
  <2>3. s \in States /\ pc \in SenderPC
    BY DEF States, EndStates, SenderPC
  <2>4. /\ peerStates'[u][q] = IF u = t /\ q = p THEN s ELSE peerStates[u][q]
        /\ sender'[u][q] = IF u = t /\ q = p THEN pc ELSE sender[u][q]
    BY <2>2, <2>3, EnterType, GotoType
  <2>5. CASE u # t \/ q # p
    BY <1>0, <2>1, <2>4, <2>5, EndKept
  <2>6. CASE u = t /\ q = p
    <3>1. answer[t][p] = "Accepted"
      BY <2>1 DEF AcceptInv, ChunksOnlyAfterAccept
    <3>2. peerStates[t][p] \notin EndStates /\ offerPc[t][p] # "lost"
      BY <1>0, <2>1, <2>6, <3>1 DEF Ended, EndStates
    <3> QED
      BY <2>1, <2>2, <2>4, <2>6, <3>1, <3>2 DEF Ended, Stays
  <2> QED
    BY <2>5, <2>6
<1>6. ASSUME NEW t \in Transfers, NEW p \in Peers,
             \/ SentSending(t, p) \/ SendChunk(t, p) \/ UpdateOffset(t, p)
             \/ SendProgress(t, p) \/ EndStream(t, p)
      PROVE  Ended(u, q)' /\ Stays(u, q)
  <2>1. UNCHANGED <<peerStates, offerPc, answer>>
    BY <1>6 DEF SentSending, SendChunk, UpdateOffset, SendProgress, EndStream, SetStateLeave,
                stateVars, offerVars, peerVars
  <2>2. PICK pc \in {"offset", "tell", "stream", "complete", "fail", "done"} :
          Goto(t, p, pc) /\ (sender[t][p] \in {"ended", "done"} => pc = "done")
    BY <1>6 DEF SentSending, SendChunk, UpdateOffset, SendProgress, EndStream, At
  <2>3. sender'[u][q] = IF u = t /\ q = p THEN pc ELSE sender[u][q]
    BY <2>2, GotoType DEF SenderPC
  <2>4. \/ sender'[u][q] = sender[u][q]
        \/ sender[u][q] \notin {"ended", "done"}
        \/ sender'[u][q] = "done"
    BY <2>2, <2>3
  <2> QED
    BY <1>0, <2>1, <2>4, EndKept
<1>7. ASSUME NEW p \in Peers, Feed(p)
      PROVE  Ended(u, q)' /\ Stays(u, q)
  <2>1. UNCHANGED <<peerStates, offerPc, answer>> /\ inbox[p] # <<>>
    BY <1>7 DEF Feed, stateVars, offerVars, peerVars, TypeOK
  <2>2. sender'[u][q] = sender[u][q] \/ sender[u][q] = "none"
    <3>1. inbox[p] \in Seq(ReplyMsg)
      BY DEF TypeOK
    <3>2. Head(inbox[p]) = inbox[p][1] /\ 1 \in 1..Len(inbox[p])
      BY <2>1, <3>1, EmptySeq
    <3>3. sender[Head(inbox[p]).of][p] = "none" /\ Head(inbox[p]).of \in Transfers
      BY <2>1, <3>2, ReplyInHand DEF OnceInv
    <3> QED
      BY <1>7, <3>3 DEF Feed, TypeOK
  <2> QED
    BY <1>0, <2>1, <2>2, EndKept
<1>8. ASSUME NEW p \in Peers, NEW t \in Transfers, NEW s \in {"Accepted", "Rejected"},
             Reply(t, p, s)
      PROVE  Ended(u, q)' /\ Stays(u, q)
  <2>1. /\ UNCHANGED <<peerStates, offerPc, sender>>
        /\ answer'[u][q] = answer[u][q] \/ answer[u][q] = "pending"
    BY <1>8 DEF Reply, stateVars, offerVars, sendVars, TypeOK
  <2> QED
    BY <1>0, <2>1, EndKept
<1>9. ASSUME \/ \E t \in Transfers : EndOffer(t)
             \/ \E p \in Peers : \/ Join(p) \/ Register(p) \/ Lookup(p) \/ SentReply(p)
                                 \/ ReadError(p) \/ Unregister(p) \/ Cut(p)
             \/ ForwardStep \/ UNCHANGED vars
      PROVE  Ended(u, q)' /\ Stays(u, q)
  <2>1. UNCHANGED <<peerStates, offerPc, answer, sender>>
    BY <1>9 DEF EndOffer, Join, Register, Lookup, SentReply, SetStateLeave, ReadError,
                Unregister, Cut, ForwardStep, Receive, Announce, Judge, Remove, vars,
                stateVars, offerVars, sendVars, peerVars
  <2> QED
    BY <1>0, <2>1, EndKept
<1> QED
  BY <1>1, <1>2, <1>3, <1>4, <1>5, <1>6, <1>7, <1>8, <1>9
     DEF Next, OfferStep, HandlerStep, PeerStep, SenderStep

\* A room of any size changes the end of a transfer for a peer in one way only,
\* and once: by the WAITING that OfferFile writes late, when the answer, or even
\* the whole file, has overtaken it.
EndsStay == [][\A t \in Transfers, p \in Peers : Stays(t, p)]_vars

THEOREM OnlyTheOfferOverwrites == Safety => EndsStay
<1>1. Init => OnceInv /\ EndInv
  BY DEF Init, OnceInv, EndInv, Ended
<1>2. Init => TypeOK /\ Fresh
  BY TypeInit DEF Init, Fresh
<1>3. TypeOK /\ AcceptInv /\ [Next]_vars => AcceptInv'
  BY AcceptStep
<1>4. TypeOK /\ AcceptInv /\ OnceInv /\ [Next]_vars => OnceInv'
  BY OnceStep
<1>5. TypeOK /\ AcceptInv /\ OnceInv /\ EndInv /\ [Next]_vars => EndInv'
  BY EndStep DEF EndInv
<1>6. TypeOK /\ AcceptInv /\ OnceInv /\ EndInv /\ [Next]_vars
        => [\A t \in Transfers, p \in Peers : Stays(t, p)]_vars
  BY EndStep
<1> QED
  BY <1>1, <1>2, <1>3, <1>4, <1>5, <1>6, AcceptInit, TypeStep, PTL DEF Safety, EndsStay
==============================================================================
