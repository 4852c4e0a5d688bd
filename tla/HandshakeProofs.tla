--------------------------- MODULE HandshakeProofs ---------------------------
(***************************************************************************)
(* Proofs about joining a room, for any number of receivers and keys.      *)
(***************************************************************************)
EXTENDS Handshake, SequenceTheorems, TLAPS

\* What the receivers and the host put on a connection: a tag is made with the
\* key of who sends it.
FromRecv == [p \in Peers |-> {Msg("KeyExchange"), Msg("PeerJoin"), Tag(keyOf[p], "receiver")}]
FromHost == [p \in Peers |-> {Msg("KeyExchange"), Msg("PinChallenge"), Msg("SystemEvent"),
                              Tag(HostKey, "host")}]

\* Connections that carry such messages only.
Carries(q, from) == q = [p \in Peers |-> q[p]] /\ \A p \in Peers : q[p] \in Seq(from[p])

Traffic == Carries(toHost, FromRecv) /\ Carries(toRecv, FromHost)

\* Both sides stand somewhere for every connection.
Places == host = [p \in Peers |-> host[p]] /\ recv = [p \in Peers |-> recv[p]]

\* Past the verification of the other's tag a side knows that the keys agree.
Verified ==
  /\ \A p \in Peers : host[p] \in {"join", "register"} \cup Members => keyOf[p] = HostKey
  /\ \A p \in Peers : recv[p] \in {"join", "reading"} => keyOf[p] = HostKey
  /\ \A p \in peers : keyOf[p] = HostKey

KeyInv == Traffic /\ Places /\ Verified

\* A message that is added to one connection leaves all of them well formed.
LEMMA SendCarries ==
  ASSUME NEW q, NEW q2, NEW from, NEW p \in Peers, NEW m \in from[p], Carries(q, from),
         q2 = [q EXCEPT ![p] = IF p \in closed THEN @ ELSE Append(@, m)]
  PROVE  Carries(q2, from)
<1>1. Append(q[p], m) \in Seq(from[p])
  BY AppendProperties DEF Carries
<1> QED
  BY <1>1 DEF Carries

\* So does one that is taken from it, on either side.
LEMMA TakeCarries ==
  ASSUME NEW q, NEW from, NEW p \in Peers, Carries(q, from), q[p] # <<>>
  PROVE  Carries([q EXCEPT ![p] = Tail(@)], from)
<1>1. Tail(q[p]) \in Seq(from[p])
  BY HeadTailProperties DEF Carries
<1> QED
  BY <1>1 DEF Carries

LEMMA ArrivesCarries ==
  ASSUME Traffic, NEW p \in Peers, NEW at \in DOMAIN Awaited, Arrives(p, at)
  PROVE  Carries(toRecv', FromHost)
<1>1. toRecv[p] # <<>>
  BY DEF Arrives, Next1, Awaited
<1>2. toRecv' = [toRecv EXCEPT ![p] = Tail(@)]
  BY DEF Arrives
<1>3. Carries([toRecv EXCEPT ![p] = Tail(@)], FromHost)
  BY <1>1, TakeCarries DEF Traffic
<1> QED
  BY <1>2, <1>3

LEMMA ComesCarries ==
  ASSUME Traffic, NEW p \in Peers, NEW at \in DOMAIN Expects, Comes(p, at)
  PROVE  Carries(toHost', FromRecv)
<1>1. toHost[p] # <<>>
  BY DEF Comes, Next1, Expects
<1>2. toHost' = [toHost EXCEPT ![p] = Tail(@)]
  BY DEF Comes
<1>3. Carries([toHost EXCEPT ![p] = Tail(@)], FromRecv)
  BY <1>1, TakeCarries DEF Traffic
<1> QED
  BY <1>2, <1>3

\* Events are of the host's making.
LEMMA BroadcastCarries ==
  ASSUME Carries(toRecv, FromHost), Broadcast
  PROVE  Carries(toRecv', FromHost)
<1>1. \A p \in Peers : Msg("SystemEvent") \in FromHost[p]
  BY DEF FromHost
<1>2. \A p \in Peers : Append(toRecv[p], Msg("SystemEvent")) \in Seq(FromHost[p])
  BY <1>1, AppendProperties DEF Carries
<1> QED
  BY <1>2 DEF Broadcast, Carries

LEMMA KeyInit == Init => KeyInv
<1> SUFFICES ASSUME Init
             PROVE  KeyInv
  OBVIOUS
<1>1. Traffic
  <2>1. \A S : <<>> \in Seq(S)
    BY EmptySeq
  <2> QED
    BY <2>1 DEF Init, Traffic, Carries
<1>2. Places /\ Verified
  BY DEF Init, Places, Verified, Members
<1> QED
  BY <1>1, <1>2 DEF KeyInv

\* A tag that the host accepts was made with the room's key.
LEMMA ReceiverVerified ==
  ASSUME KeyInv, NEW p \in Peers, VerifyReceiver(p)
  PROVE  keyOf[p] = HostKey
<1>1. toHost[p] # <<>>
  BY DEF VerifyReceiver, Comes, Next1, Expects
<1>2. Head(toHost[p]) \in FromRecv[p]
  BY <1>1, HeadTailProperties DEF KeyInv, Traffic, Carries
<1>3. Head(toHost[p]) = Tag(HostKey, "receiver")
  BY DEF VerifyReceiver, AuthKey
<1>4. Head(toHost[p]) = Tag(keyOf[p], "receiver")
  BY <1>2, <1>3 DEF FromRecv, Msg, Tag
<1> QED
  BY <1>3, <1>4 DEF Tag

\* So was one that a receiver accepts.
LEMMA HostVerified ==
  ASSUME KeyInv, NEW p \in Peers, VerifyHost(p)
  PROVE  keyOf[p] = HostKey
<1>1. toRecv[p] # <<>>
  BY DEF VerifyHost, Arrives, Next1, Awaited
<1>2. Head(toRecv[p]) \in FromHost[p]
  BY <1>1, HeadTailProperties DEF KeyInv, Traffic, Carries
<1>3. Head(toRecv[p]) = Tag(keyOf[p], "host")
  BY DEF VerifyHost, AuthKey
<1>4. Head(toRecv[p]) = Tag(HostKey, "host")
  BY <1>2, <1>3 DEF FromHost, Msg, Tag
<1> QED
  BY <1>3, <1>4 DEF Tag

\* The keys the receivers were started with stay, so what they may send does.
LEMMA KeyInvNext ==
  ASSUME keyOf' = keyOf, Carries(toHost', FromRecv), Carries(toRecv', FromHost),
         Places', Verified'
  PROVE  KeyInv'
<1>1. FromRecv' = FromRecv
  BY DEF FromRecv
<1> QED
  BY <1>1 DEF KeyInv, Traffic, Carries

\* A step of Connect or of the receiver's readLoop.
LEMMA KeyRecvStep ==
  ASSUME KeyInv, NEW p \in Peers, RecvStep(p) \/ Dial(p) \/ Quit(p)
  PROVE  KeyInv'
<1>0. keyOf' = keyOf
  BY DEF Dial, Quit, RecvStep, SendHello, ReceiveKey, AnswerChallenge, VerifyHost,
         SendJoin, ConnectFails, Read, ReadEnds
<1> SUFFICES /\ Carries(toHost', FromRecv)
             /\ Carries(toRecv', FromHost)
             /\ Places'
             /\ Verified'
  BY <1>0, KeyInvNext
<1> USE <1>0
<1> USE DEF KeyInv, Traffic, Places, Verified, Members
<1>1. CASE Dial(p)
  BY <1>1 DEF Dial, RecvGoto
<1>2. CASE SendHello(p)
  <2>1. Carries(toHost', FromRecv)
    BY <1>2, SendCarries DEF SendHello, SendTo, FromRecv
  <2> QED
    BY <1>2, <2>1 DEF SendHello, RecvGoto
<1>3. CASE ReceiveKey(p)
  <2>1. Carries(toRecv', FromHost)
    BY <1>3, ArrivesCarries DEF ReceiveKey, Awaited
  <2> QED
    BY <1>3, <2>1 DEF ReceiveKey, RecvGoto
<1>4. CASE AnswerChallenge(p)
  <2>1. Carries(toRecv', FromHost)
    BY <1>4, ArrivesCarries DEF AnswerChallenge, Awaited
  <2>2. Carries(toHost', FromRecv)
    BY <1>4, SendCarries DEF AnswerChallenge, SendTo, FromRecv, AuthKey
  <2> QED
    BY <1>4, <2>1, <2>2 DEF AnswerChallenge, RecvGoto
<1>5. CASE VerifyHost(p)
  <2>1. Carries(toRecv', FromHost)
    BY <1>5, ArrivesCarries DEF VerifyHost, Awaited
  <2>2. keyOf[p] = HostKey
    BY <1>5, HostVerified
  <2> QED
    BY <1>5, <2>1, <2>2 DEF VerifyHost, RecvGoto
<1>6. CASE SendJoin(p)
  <2>1. Carries(toHost', FromRecv)
    BY <1>6, SendCarries DEF SendJoin, SendTo, FromRecv
  <2> QED
    BY <1>6, <2>1 DEF SendJoin, RecvGoto
<1>7. CASE ConnectFails(p) \/ ReadEnds(p) \/ Quit(p)
  BY <1>7 DEF ConnectFails, ReadEnds, Quit, RecvGoto
<1>8. CASE Read(p)
  <2>1. toRecv' = [toRecv EXCEPT ![p] = Tail(@)]
    BY <1>8 DEF Read
  <2>2. Carries([toRecv EXCEPT ![p] = Tail(@)], FromHost)
    BY <1>8, TakeCarries DEF Read
  <2>3. Carries(toRecv', FromHost)
    BY <2>1, <2>2
  <2> QED
    BY <1>8, <2>3 DEF Read
<1> QED
  BY <1>1, <1>2, <1>3, <1>4, <1>5, <1>6, <1>7, <1>8 DEF RecvStep

\* A step of handleConn.
LEMMA KeyHostStep ==
  ASSUME KeyInv, NEW p \in Peers, HostStep(p)
  PROVE  KeyInv'
<1>0. keyOf' = keyOf
  BY DEF HostStep, Accept, ExchangeKey, Challenge, VerifyReceiver, ReadJoin,
         HandshakeFails, Register, AnnounceJoin, Disarm, HostReadEnds, Unregister,
         AnnounceLeave
<1> SUFFICES /\ Carries(toHost', FromRecv)
             /\ Carries(toRecv', FromHost)
             /\ Places'
             /\ Verified'
  BY <1>0, KeyInvNext
<1> USE <1>0
<1> USE DEF KeyInv, Traffic, Places, Verified, Members
<1>1. CASE Accept(p) \/ Disarm(p) \/ HostReadEnds(p) \/ HandshakeFails(p)
  BY <1>1 DEF Accept, Disarm, HostReadEnds, HandshakeFails, HostGoto
<1>2. CASE ExchangeKey(p)
  <2>1. Carries(toHost', FromRecv)
    BY <1>2, ComesCarries DEF ExchangeKey, Expects
  <2>2. Carries(toRecv', FromHost)
    BY <1>2, SendCarries DEF ExchangeKey, SendTo, FromHost
  <2> QED
    BY <1>2, <2>1, <2>2 DEF ExchangeKey, HostGoto
<1>3. CASE Challenge(p)
  <2>1. Carries(toRecv', FromHost)
    BY <1>3, SendCarries DEF Challenge, SendTo, FromHost
  <2> QED
    BY <1>3, <2>1 DEF Challenge, HostGoto
<1>4. CASE VerifyReceiver(p)
  <2>1. Carries(toHost', FromRecv)
    BY <1>4, ComesCarries DEF VerifyReceiver, Expects
  <2>2. Carries(toRecv', FromHost)
    BY <1>4, SendCarries DEF VerifyReceiver, SendTo, FromHost, AuthKey
  <2>3. keyOf[p] = HostKey
    BY <1>4, ReceiverVerified
  <2> QED
    BY <1>4, <2>1, <2>2, <2>3 DEF VerifyReceiver, HostGoto
<1>5. CASE ReadJoin(p)
  <2>1. Carries(toHost', FromRecv)
    BY <1>5, ComesCarries DEF ReadJoin, Expects
  <2> QED
    BY <1>5, <2>1 DEF ReadJoin, Comes, HostGoto
<1>6. CASE Register(p)
  BY <1>6 DEF Register, HostGoto
<1>7. CASE AnnounceJoin(p)
  BY <1>7, BroadcastCarries DEF AnnounceJoin, HostGoto
<1>8. CASE Unregister(p)
  BY <1>8 DEF Unregister, HostGoto
<1>9. CASE AnnounceLeave(p)
  BY <1>9, BroadcastCarries DEF AnnounceLeave, HostGoto
<1> QED
  BY <1>1, <1>2, <1>3, <1>4, <1>5, <1>6, <1>7, <1>8, <1>9 DEF HostStep

LEMMA KeyStep == KeyInv /\ [Next]_vars => KeyInv'
<1> SUFFICES ASSUME KeyInv, [Next]_vars
             PROVE  KeyInv'
  OBVIOUS
<1>1. CASE UNCHANGED vars
  BY <1>1, KeyInvNext DEF vars, timers, KeyInv, Traffic, Places, Verified
<1>2. CASE Next
  <2>1. PICK p \in Peers : Dial(p) \/ RecvStep(p) \/ Quit(p) \/ HostStep(p) \/ Expire(p)
    BY <1>2 DEF Next
  <2>2. CASE Expire(p)
    BY <2>2, KeyInvNext DEF Expire, KeyInv, Traffic, Places, Verified
  <2> QED
    BY <2>1, <2>2, KeyRecvStep, KeyHostStep
<1> QED
  BY <1>1, <1>2

\* Only receivers with the room's key get into the room, or believe that they
\* are in it, however many join at once and whatever fails.
THEOREM OnlyTheRoomsKey == Safety => []KeysAgree
<1>1. KeyInv => KeysAgree
  BY DEF KeyInv, Verified, KeysAgree
<1> QED
  BY KeyInit, KeyStep, <1>1, PTL DEF Safety

------------------------------------------------------------------------------
(* Types, and the members' deadline                                        *)

\* Type correctness: in particular h.peers is what registration and its end
\* make of it, whichever goroutines run between the two.
LEMMA TypeStep == TypeOK /\ [Next]_vars => TypeOK'
<1> SUFFICES ASSUME TypeOK, [Next]_vars
             PROVE  TypeOK'
  OBVIOUS
<1> USE DEF TypeOK, Members, Awaited, Expects
<1>1. CASE UNCHANGED vars
  BY <1>1 DEF vars, timers
<1>2. CASE Next
  <2>1. PICK p \in Peers : Dial(p) \/ RecvStep(p) \/ Quit(p) \/ HostStep(p) \/ Expire(p)
    BY <1>2 DEF Next
  <2>2. CASE Dial(p) \/ RecvStep(p) \/ Quit(p)
    <3>1. UNCHANGED <<keyOf, host, hostTimer, peers>>
      BY <2>2 DEF Dial, Quit, RecvStep, SendHello, ReceiveKey, AnswerChallenge,
                  VerifyHost, SendJoin, ConnectFails, Read, ReadEnds, timers
    <3>2. /\ closed' \subseteq Peers
          /\ recvTimer' \in [Peers -> {"off", "armed", "expired"}]
          /\ recv' \in [Peers -> {"dial", "hello", "join", "reading", "failed", "ended"}
                                   \cup DOMAIN Awaited]
      BY <2>2 DEF Dial, Quit, RecvStep, SendHello, ReceiveKey, AnswerChallenge,
                  VerifyHost, SendJoin, ConnectFails, Read, ReadEnds, timers, RecvGoto
    <3> QED
      BY <3>1, <3>2
  <2>3. CASE HostStep(p)
    <3>1. UNCHANGED <<keyOf, recv, recvTimer>>
      BY <2>3 DEF HostStep, Accept, ExchangeKey, Challenge, VerifyReceiver, ReadJoin,
                  HandshakeFails, Register, AnnounceJoin, Disarm, HostReadEnds, Unregister,
                  AnnounceLeave, timers
    <3>2. PICK at \in {"none", "challenge", "register", "left", "done"}
                        \cup DOMAIN Expects \cup Members :
            /\ HostGoto(p, at)
            /\ \/ peers' = peers /\ (host[p] \in Members <=> at \in Members)
               \/ peers' = peers \cup {p} /\ at \in Members
               \/ peers' = peers \ {p} /\ at \notin Members
      BY <2>3 DEF HostStep, Accept, ExchangeKey, Challenge, VerifyReceiver, ReadJoin,
                  HandshakeFails, Register, AnnounceJoin, Disarm, HostReadEnds, Unregister,
                  AnnounceLeave, Comes
    <3>3. closed' \subseteq Peers /\ hostTimer' \in [Peers -> {"off", "armed", "expired"}]
      BY <2>3 DEF HostStep, Accept, ExchangeKey, Challenge, VerifyReceiver, ReadJoin,
                  HandshakeFails, Register, AnnounceJoin, Disarm, HostReadEnds, Unregister,
                  AnnounceLeave, timers
    <3>4. host' = [host EXCEPT ![p] = at]
      BY <3>2 DEF HostGoto
    <3>5. peers' = {q \in Peers : host'[q] \in Members}
      BY <3>2, <3>4
    <3> QED
      BY <3>1, <3>3, <3>4, <3>5
  <2>4. CASE Expire(p)
    BY <2>4 DEF Expire
  <2> QED
    BY <2>1, <2>2, <2>3, <2>4
<1> QED
  BY <1>1, <1>2

LEMMA TypeInit == Init => TypeOK
  BY DEF Init, TypeOK, Members, Awaited, Expects

\* Type correctness, for any number of receivers: h.peers is exactly the
\* connections between their registration and their end.
THEOREM TypeCorrect == Safety => []TypeOK
  BY TypeInit, TypeStep, PTL DEF Safety

\* Who reads has no deadline any more, and leaves because of the connection.
Disarmed ==
  \A p \in Peers : /\ host[p] = "reading" => hostTimer[p] = "off"
                   /\ host[p] = "leave" => p \in closed

LEMMA DisarmedStep ==
  ASSUME TypeOK, Disarmed, [Next]_vars
  PROVE  Disarmed' /\ \A p \in Peers : host[p] \in Members /\ p \notin closed => host'[p] \in Members
<1> USE DEF TypeOK, Disarmed, Members, Awaited, Expects
<1>1. CASE UNCHANGED vars
  BY <1>1 DEF vars, timers
<1>2. CASE Next
  <2>1. PICK p \in Peers : Dial(p) \/ RecvStep(p) \/ Quit(p) \/ HostStep(p) \/ Expire(p)
    BY <1>2 DEF Next
  <2>2. CASE Dial(p) \/ RecvStep(p) \/ Quit(p)
    <3>1. UNCHANGED <<host, hostTimer>> /\ closed \subseteq closed'
      BY <2>2 DEF Dial, Quit, RecvStep, SendHello, ReceiveKey, AnswerChallenge,
                  VerifyHost, SendJoin, ConnectFails, Read, ReadEnds, timers
    <3> QED
      BY <3>1
  <2>3. CASE HostStep(p)
    BY <2>3 DEF HostStep, Accept, ExchangeKey, Challenge, VerifyReceiver, ReadJoin,
                HandshakeFails, Register, AnnounceJoin, Disarm, HostReadEnds, Unregister,
                AnnounceLeave, timers, HostGoto, Comes
  <2>4. CASE Expire(p)
    BY <2>4 DEF Expire
  <2> QED
    BY <2>1, <2>2, <2>3, <2>4
<1> QED
  BY <1>1, <1>2

\* A member stays a member until its connection is closed: the deadline of the
\* handshake, armed or expired, ends no session, for any number of receivers.
THEOREM DeadlineEndsNoMember == Safety => MembersStay
<1>1. Init => TypeOK /\ Disarmed
  BY TypeInit DEF Init, Disarmed
<1>2. TypeOK /\ Disarmed /\ [Next]_vars => (TypeOK /\ Disarmed)'
  BY TypeStep, DisarmedStep
<1>3. TypeOK /\ Disarmed /\ [Next]_vars =>
        [\A p \in Peers : host[p] \in Members /\ p \notin closed => host'[p] \in Members]_vars
  BY DisarmedStep
<1> QED
  BY <1>1, <1>2, <1>3, PTL DEF Safety, MembersStay

------------------------------------------------------------------------------
(* The handshake's sequence                                                *)

\* What each side sends, in order, and how much of it a side has sent, or
\* taken, where it stands.
HostScript == [n \in Nat |-> CASE n = 1 -> "KeyExchange" [] n = 2 -> "PinChallenge"
                             [] n = 3 -> "PinResponse" [] OTHER -> "SystemEvent"]
RecvScript == [n \in Nat |-> CASE n = 1 -> "KeyExchange" [] n = 2 -> "PinResponse"
                             [] OTHER -> "PeerJoin"]
HostSent == [none |-> 0, key |-> 0, challenge |-> 1, tag |-> 2, join |-> 3, register |-> 3]
RecvSent == [dial |-> 0, hello |-> 0, key |-> 1, challenge |-> 1, tag |-> 2, join |-> 2,
             reading |-> 3]
RecvTook == [dial |-> 0, hello |-> 0, key |-> 0, challenge |-> 1, tag |-> 2]
HostTook == [none |-> 0, key |-> 0, challenge |-> 1, tag |-> 1, join |-> 2]

\* The queue goes on in the script after the first n.
Follows(q, n, script) == \A i \in 1..Len(q) : q[i].type = script[n + i]

\* What was sent and not taken is on the connection while it is there; the
\* room's events come only after the script.
ToRecvInStep(p) ==
  recv[p] \in DOMAIN RecvTook =>
    /\ Follows(toRecv[p], RecvTook[recv[p]], HostScript)
    /\ p \notin closed /\ host[p] \in DOMAIN HostSent =>
         RecvTook[recv[p]] + Len(toRecv[p]) = HostSent[host[p]]
    /\ p \notin closed /\ host[p] \in Members => RecvTook[recv[p]] + Len(toRecv[p]) >= 3

ToHostInStep(p) ==
  host[p] \in DOMAIN HostTook =>
    /\ Follows(toHost[p], HostTook[host[p]], RecvScript)
    /\ p \notin closed /\ recv[p] \in DOMAIN RecvSent =>
         HostTook[host[p]] + Len(toHost[p]) = RecvSent[recv[p]]

StepInv == /\ KeyInv /\ TypeOK
           /\ \A p \in Peers : ToRecvInStep(p) /\ ToHostInStep(p)

LEMMA FollowsAppend ==
  ASSUME NEW S, NEW q \in Seq(S), NEW n \in Nat, NEW script, NEW m \in S,
         Follows(q, n, script), m.type = script[n + Len(q) + 1]
  PROVE  Follows(Append(q, m), n, script) /\ Len(Append(q, m)) = Len(q) + 1
<1>1. /\ Len(Append(q, m)) = Len(q) + 1
      /\ \A i \in 1..Len(q) : Append(q, m)[i] = q[i]
      /\ Append(q, m)[Len(q) + 1] = m
  BY AppendProperties
<1>2. Len(q) \in Nat
  OBVIOUS
<1> SUFFICES ASSUME NEW i \in 1..(Len(q) + 1)
             PROVE  Append(q, m)[i].type = script[n + i]
  BY <1>1 DEF Follows
<1>3. CASE i = Len(q) + 1
  <2>1. n + i = n + Len(q) + 1
    BY <1>2, <1>3
  <2> QED
    BY <1>1, <1>3, <2>1
<1>4. CASE i # Len(q) + 1
  <2>1. i \in 1..Len(q)
    BY <1>2, <1>4
  <2> QED
    BY <1>1, <2>1 DEF Follows
<1> QED
  BY <1>3, <1>4

LEMMA FollowsTail ==
  ASSUME NEW S, NEW q \in Seq(S), q # <<>>, NEW n \in Nat, NEW script, Follows(q, n, script)
  PROVE  /\ Follows(Tail(q), n + 1, script) /\ Len(Tail(q)) = Len(q) - 1
         /\ Next1(q) = script[n + 1]
<1>1. /\ Len(Tail(q)) = Len(q) - 1 /\ Len(q) \in Nat \ {0}
      /\ \A i \in 1..Len(Tail(q)) : Tail(q)[i] = q[i + 1]
      /\ Head(q) = q[1]
  BY HeadTailProperties, EmptySeq
<1>2. Next1(q) = script[n + 1]
  <2>1. 1 \in 1..Len(q)
    BY <1>1
  <2> QED
    BY <1>1, <2>1 DEF Follows, Next1
<1>3. ASSUME NEW i \in 1..Len(Tail(q))
      PROVE  Tail(q)[i].type = script[n + 1 + i]
  <2>1. i + 1 \in 1..Len(q) /\ n + (i + 1) = n + 1 + i
    BY <1>1
  <2> QED
    BY <1>1, <2>1 DEF Follows
<1> QED
  BY <1>1, <1>2, <1>3 DEF Follows

\* A connection of which a step changes nothing stays in step.
LEMMA UntouchedInStep ==
  ASSUME NEW q \in Peers, ToRecvInStep(q), ToHostInStep(q),
         recv'[q] = recv[q], host'[q] = host[q], toRecv'[q] = toRecv[q],
         toHost'[q] = toHost[q], q \notin closed' => q \notin closed
  PROVE  ToRecvInStep(q)' /\ ToHostInStep(q)'
  BY DEF ToRecvInStep, ToHostInStep, Follows

\* A receiver takes the message that it awaits ...
LEMMA ReceiverTakes ==
  ASSUME StepInv, NEW p \in Peers, NEW at \in DOMAIN Awaited, Arrives(p, at)
  PROVE  /\ recv[p] = at /\ toRecv'[p] = Tail(toRecv[p])
         /\ Follows(toRecv'[p], RecvTook[at] + 1, HostScript)
         /\ Len(toRecv'[p]) = Len(toRecv[p]) - 1 /\ Len(toRecv[p]) \in Nat
<1>1. recv[p] = at /\ toRecv[p] # <<>> /\ toRecv[p] \in Seq(FromHost[p])
  BY DEF Arrives, Next1, Awaited, StepInv, KeyInv, Traffic, Carries
<1>2. toRecv'[p] = Tail(toRecv[p])
  BY <1>1 DEF Arrives, StepInv, KeyInv, Traffic, Carries
<1>3. at \in DOMAIN RecvTook /\ RecvTook[at] \in Nat
  BY DEF Awaited, RecvTook
<1>4. Follows(toRecv[p], RecvTook[at], HostScript)
  BY <1>1, <1>3 DEF StepInv, ToRecvInStep
<1> QED
  BY <1>1, <1>2, <1>3, <1>4, FollowsTail

\* ... and so does the host.
LEMMA HostTakes ==
  ASSUME StepInv, NEW p \in Peers, NEW at \in DOMAIN Expects, Comes(p, at)
  PROVE  /\ host[p] = at /\ toHost'[p] = Tail(toHost[p])
         /\ Follows(toHost'[p], HostTook[at] + 1, RecvScript)
         /\ Len(toHost'[p]) = Len(toHost[p]) - 1 /\ Len(toHost[p]) \in Nat
<1>1. host[p] = at /\ toHost[p] # <<>> /\ toHost[p] \in Seq(FromRecv[p])
  BY DEF Comes, Next1, Expects, StepInv, KeyInv, Traffic, Carries
<1>2. toHost'[p] = Tail(toHost[p])
  BY <1>1 DEF Comes, StepInv, KeyInv, Traffic, Carries
<1>3. at \in DOMAIN HostTook /\ HostTook[at] \in Nat
  BY DEF Expects, HostTook
<1>4. Follows(toHost[p], HostTook[at], RecvScript)
  BY <1>1, <1>3 DEF StepInv, ToHostInStep
<1> QED
  BY <1>1, <1>2, <1>3, <1>4, FollowsTail

\* What the receiver sends is the next message of its script.
LEMMA ReceiverSends ==
  ASSUME StepInv, NEW p \in Peers, NEW at \in DOMAIN RecvSent, recv[p] = at,
         NEW m \in FromRecv[p], m.type = RecvScript[RecvSent[at] + 1],
         SendTo(toHost, p, m), host[p] \in DOMAIN HostTook
  PROVE  /\ Follows(toHost'[p], HostTook[host[p]], RecvScript)
         /\ p \notin closed =>
              HostTook[host[p]] + Len(toHost'[p]) = RecvSent[at] + 1
<1>1. /\ toHost[p] \in Seq(FromRecv[p])
      /\ toHost'[p] = IF p \in closed THEN toHost[p] ELSE Append(toHost[p], m)
  BY DEF StepInv, KeyInv, Traffic, Carries, SendTo
<1>2. HostTook[host[p]] \in Nat /\ RecvSent[at] \in Nat /\ Len(toHost[p]) \in Nat
  BY <1>1 DEF HostTook, RecvSent
<1>3. /\ Follows(toHost[p], HostTook[host[p]], RecvScript)
      /\ p \notin closed => HostTook[host[p]] + Len(toHost[p]) = RecvSent[at]
  BY DEF StepInv, ToHostInStep
<1>4. CASE p \in closed
  BY <1>1, <1>3, <1>4
<1>5. CASE p \notin closed
  <2>1. m.type = RecvScript[HostTook[host[p]] + Len(toHost[p]) + 1]
    BY <1>3, <1>5
  <2>2. /\ Follows(Append(toHost[p], m), HostTook[host[p]], RecvScript)
        /\ Len(Append(toHost[p], m)) = Len(toHost[p]) + 1
    BY <1>1, <1>2, <1>3, <2>1, FollowsAppend
  <2> QED
    BY <1>1, <1>2, <1>3, <1>5, <2>2
<1> QED
  BY <1>4, <1>5

\* And what the host sends is the next one of its.
LEMMA HostSends ==
  ASSUME StepInv, NEW p \in Peers, NEW at \in DOMAIN HostSent, host[p] = at,
         NEW m \in FromHost[p], m.type = HostScript[HostSent[at] + 1],
         SendTo(toRecv, p, m), recv[p] \in DOMAIN RecvTook
  PROVE  /\ Follows(toRecv'[p], RecvTook[recv[p]], HostScript)
         /\ p \notin closed =>
              RecvTook[recv[p]] + Len(toRecv'[p]) = HostSent[at] + 1
<1>1. /\ toRecv[p] \in Seq(FromHost[p])
      /\ toRecv'[p] = IF p \in closed THEN toRecv[p] ELSE Append(toRecv[p], m)
  BY DEF StepInv, KeyInv, Traffic, Carries, SendTo
<1>2. RecvTook[recv[p]] \in Nat /\ HostSent[at] \in Nat /\ Len(toRecv[p]) \in Nat
  BY <1>1 DEF RecvTook, HostSent
<1>3. /\ Follows(toRecv[p], RecvTook[recv[p]], HostScript)
      /\ p \notin closed => RecvTook[recv[p]] + Len(toRecv[p]) = HostSent[at]
  BY DEF StepInv, ToRecvInStep
<1>4. CASE p \in closed
  BY <1>1, <1>3, <1>4
<1>5. CASE p \notin closed
  <2>1. m.type = HostScript[RecvTook[recv[p]] + Len(toRecv[p]) + 1]
    BY <1>3, <1>5
  <2>2. /\ Follows(Append(toRecv[p], m), RecvTook[recv[p]], HostScript)
        /\ Len(Append(toRecv[p], m)) = Len(toRecv[p]) + 1
    BY <1>1, <1>2, <1>3, <2>1, FollowsAppend
  <2> QED
    BY <1>1, <1>2, <1>3, <1>5, <2>2
<1> QED
  BY <1>4, <1>5

\* An event comes after the script, and for members only.
LEMMA BroadcastInStep ==
  ASSUME StepInv, Broadcast, NEW q \in Peers, ToRecvInStep(q),
         recv' = recv, host'[q] = host[q] \/ (host[q] \in Members /\ host'[q] \in Members),
         closed \subseteq closed'
  PROVE  ToRecvInStep(q)'
<1>1. toRecv[q] \in Seq(FromHost[q]) /\ Len(toRecv[q]) \in Nat
  BY DEF StepInv, KeyInv, Traffic, Carries
<1>2. toRecv'[q] = IF q \in peers /\ q \notin closed
                   THEN Append(toRecv[q], Msg("SystemEvent")) ELSE toRecv[q]
  BY DEF Broadcast, Audience
<1>3. CASE q \notin peers \/ q \in closed
  <2>1. toRecv'[q] = toRecv[q]
    BY <1>2, <1>3
  <2> QED
    BY <2>1 DEF ToRecvInStep, Follows, Members, HostSent
<1>4. CASE q \in peers /\ q \notin closed
  <2> SUFFICES ASSUME recv[q] \in DOMAIN RecvTook
               PROVE  /\ Follows(toRecv'[q], RecvTook[recv[q]], HostScript)
                      /\ RecvTook[recv[q]] + Len(toRecv'[q]) >= 3
                      /\ host'[q] \notin DOMAIN HostSent
    BY DEF ToRecvInStep
  <2>1. host[q] \in Members
    BY <1>4 DEF StepInv, TypeOK
  <2>2. host'[q] \notin DOMAIN HostSent
    BY <2>1 DEF Members, HostSent
  <2>3. RecvTook[recv[q]] \in Nat
    BY DEF RecvTook
  <2>4. /\ RecvTook[recv[q]] + Len(toRecv[q]) >= 3
        /\ Follows(toRecv[q], RecvTook[recv[q]], HostScript)
    BY <1>4, <2>1 DEF ToRecvInStep
  <2>5. Msg("SystemEvent").type = HostScript[RecvTook[recv[q]] + Len(toRecv[q]) + 1]
    BY <1>1, <2>3, <2>4 DEF Msg, HostScript
  <2>6. Msg("SystemEvent") \in FromHost[q]
    BY DEF FromHost
  <2>7. /\ Follows(Append(toRecv[q], Msg("SystemEvent")), RecvTook[recv[q]], HostScript)
        /\ Len(Append(toRecv[q], Msg("SystemEvent"))) = Len(toRecv[q]) + 1
    BY <1>1, <2>3, <2>4, <2>5, <2>6, FollowsAppend
  <2> QED
    BY <1>1, <1>2, <1>4, <2>2, <2>3, <2>4, <2>7
<1> QED
  BY <1>3, <1>4

\* The receiver's steps.
LEMMA RecvInStep ==
  ASSUME StepInv, NEW p \in Peers, RecvStep(p) \/ Dial(p) \/ Quit(p)
  PROVE  ToRecvInStep(p)' /\ ToHostInStep(p)'
<1>0. /\ host' = host /\ ToRecvInStep(p) /\ ToHostInStep(p)
      /\ recv = [q \in Peers |-> recv[q]]
      /\ toHost[p] \in Seq(FromRecv[p]) /\ toRecv[p] \in Seq(FromHost[p])
  BY DEF Dial, Quit, RecvStep, SendHello, ReceiveKey, AnswerChallenge, VerifyHost,
         SendJoin, ConnectFails, Read, ReadEnds, StepInv, KeyInv, Places, Traffic, Carries
<1> USE <1>0
<1>1. CASE Dial(p)
  BY <1>1 DEF Dial, RecvGoto, ToRecvInStep, ToHostInStep, RecvTook, RecvSent, Follows
<1>2. CASE SendHello(p)
  <2>1. recv[p] = "hello" /\ recv'[p] = "key" /\ UNCHANGED <<toRecv, closed>>
    BY <1>2 DEF SendHello, RecvGoto
  <2>2. ToRecvInStep(p)'
    BY <2>1 DEF ToRecvInStep, RecvTook, Follows
  <2>3. "hello" \in DOMAIN RecvSent /\ RecvSent["hello"] = 0 /\ RecvSent["key"] = 1
    BY DEF RecvSent
  <2>4. Msg("KeyExchange") \in FromRecv[p] /\ Msg("KeyExchange").type = RecvScript[0 + 1]
    BY DEF FromRecv, Msg, RecvScript
  <2>5. host[p] \in DOMAIN HostTook =>
          /\ Follows(toHost'[p], HostTook[host[p]], RecvScript)
          /\ p \notin closed => HostTook[host[p]] + Len(toHost'[p]) = 0 + 1
    BY <1>2, <2>1, <2>3, <2>4, ReceiverSends DEF SendHello
  <2> QED
    BY <2>1, <2>2, <2>3, <2>5 DEF ToHostInStep
<1>3. CASE ReceiveKey(p)
  <2>1. /\ recv[p] = "key" /\ recv'[p] = "challenge" /\ UNCHANGED <<toHost, closed>>
        /\ Follows(toRecv'[p], RecvTook["key"] + 1, HostScript)
        /\ Len(toRecv'[p]) = Len(toRecv[p]) - 1 /\ Len(toRecv[p]) \in Nat
    BY <1>3, ReceiverTakes DEF ReceiveKey, RecvGoto, Awaited
  <2>2. ToHostInStep(p)'
    BY <2>1 DEF ToHostInStep, RecvSent, Follows
  <2> QED
    BY <2>1, <2>2 DEF ToRecvInStep, RecvTook, HostSent
<1>4. CASE AnswerChallenge(p)
  <2>1. /\ recv[p] = "challenge" /\ recv'[p] = "tag" /\ closed' = closed
        /\ Follows(toRecv'[p], RecvTook["challenge"] + 1, HostScript)
        /\ Len(toRecv'[p]) = Len(toRecv[p]) - 1 /\ Len(toRecv[p]) \in Nat
    BY <1>4, ReceiverTakes DEF AnswerChallenge, RecvGoto, Awaited
  <2>2. ToRecvInStep(p)'
    BY <2>1 DEF ToRecvInStep, RecvTook, HostSent
  <2>3. "challenge" \in DOMAIN RecvSent /\ RecvSent["challenge"] = 1 /\ RecvSent["tag"] = 2
    BY DEF RecvSent
  <2>4. /\ Tag(keyOf[p], "receiver") \in FromRecv[p]
        /\ Tag(keyOf[p], "receiver").type = RecvScript[1 + 1]
    BY DEF FromRecv, Tag, RecvScript
  <2>5. host[p] \in DOMAIN HostTook =>
          /\ Follows(toHost'[p], HostTook[host[p]], RecvScript)
          /\ p \notin closed => HostTook[host[p]] + Len(toHost'[p]) = 1 + 1
    BY <1>4, <2>1, <2>3, <2>4, ReceiverSends DEF AnswerChallenge, AuthKey
  <2> QED
    BY <2>1, <2>2, <2>3, <2>5 DEF ToHostInStep
<1>5. CASE VerifyHost(p)
  <2>1. recv[p] = "tag" /\ recv'[p] = "join" /\ UNCHANGED <<toHost, closed>>
    BY <1>5, ReceiverTakes DEF VerifyHost, RecvGoto, Awaited
  <2> QED
    BY <2>1 DEF ToRecvInStep, ToHostInStep, RecvTook, RecvSent, Follows
<1>6. CASE SendJoin(p)
  <2>1. recv[p] = "join" /\ recv'[p] = "reading" /\ closed' = closed
    BY <1>6 DEF SendJoin, RecvGoto
  <2>2. ToRecvInStep(p)'
    BY <2>1 DEF ToRecvInStep, RecvTook
  <2>3. "join" \in DOMAIN RecvSent /\ RecvSent["join"] = 2 /\ RecvSent["reading"] = 3
    BY DEF RecvSent
  <2>4. Msg("PeerJoin") \in FromRecv[p] /\ Msg("PeerJoin").type = RecvScript[2 + 1]
    BY DEF FromRecv, Msg, RecvScript
  <2>5. host[p] \in DOMAIN HostTook =>
          /\ Follows(toHost'[p], HostTook[host[p]], RecvScript)
          /\ p \notin closed => HostTook[host[p]] + Len(toHost'[p]) = 2 + 1
    BY <1>6, <2>1, <2>3, <2>4, ReceiverSends DEF SendJoin
  <2> QED
    BY <2>1, <2>2, <2>3, <2>5 DEF ToHostInStep
<1>7. CASE ConnectFails(p) \/ ReadEnds(p) \/ Quit(p)
  <2>1. recv'[p] \in {"failed", "ended"} /\ toHost' = toHost /\ closed \subseteq closed'
    BY <1>7 DEF ConnectFails, ReadEnds, Quit, RecvGoto
  <2> QED
    BY <2>1 DEF ToRecvInStep, ToHostInStep, RecvTook, RecvSent, Follows
<1>8. CASE Read(p)
  <2>1. recv[p] = "reading" /\ UNCHANGED <<recv, toHost, closed>>
    BY <1>8 DEF Read
  <2> QED
    BY <2>1 DEF ToRecvInStep, ToHostInStep, RecvTook, Follows
<1> QED
  BY <1>1, <1>2, <1>3, <1>4, <1>5, <1>6, <1>7, <1>8 DEF RecvStep

\* The host's steps.
LEMMA HostInStep ==
  ASSUME StepInv, NEW p \in Peers, HostStep(p)
  PROVE  ToRecvInStep(p)' /\ ToHostInStep(p)'
<1>0. /\ recv' = recv /\ ToRecvInStep(p) /\ ToHostInStep(p)
      /\ host = [q \in Peers |-> host[q]]
      /\ toHost[p] \in Seq(FromRecv[p]) /\ toRecv[p] \in Seq(FromHost[p])
  BY DEF HostStep, Accept, ExchangeKey, Challenge, VerifyReceiver, ReadJoin,
         HandshakeFails, Register, AnnounceJoin, Disarm, HostReadEnds, Unregister,
         AnnounceLeave, StepInv, KeyInv, Places, Traffic, Carries
<1> USE <1>0
<1>1. CASE Accept(p)
  <2>1. host[p] = "none" /\ host'[p] = "key" /\ UNCHANGED <<toRecv, toHost, closed>>
    BY <1>1 DEF Accept, HostGoto
  <2> QED
    BY <2>1 DEF ToRecvInStep, ToHostInStep, HostTook, HostSent, Follows, Members
<1>2. CASE ExchangeKey(p)
  <2>1. /\ host[p] = "key" /\ host'[p] = "challenge" /\ closed' = closed
        /\ Follows(toHost'[p], HostTook["key"] + 1, RecvScript)
        /\ Len(toHost'[p]) = Len(toHost[p]) - 1 /\ Len(toHost[p]) \in Nat
    BY <1>2, HostTakes DEF ExchangeKey, HostGoto, Expects
  <2>2. ToHostInStep(p)'
    BY <2>1 DEF ToHostInStep, HostTook, RecvSent
  <2>3. "key" \in DOMAIN HostSent /\ HostSent["key"] = 0 /\ HostSent["challenge"] = 1
    BY DEF HostSent
  <2>4. Msg("KeyExchange") \in FromHost[p] /\ Msg("KeyExchange").type = HostScript[0 + 1]
    BY DEF FromHost, Msg, HostScript
  <2>5. recv[p] \in DOMAIN RecvTook =>
          /\ Follows(toRecv'[p], RecvTook[recv[p]], HostScript)
          /\ p \notin closed => RecvTook[recv[p]] + Len(toRecv'[p]) = 0 + 1
    BY <1>2, <2>1, <2>3, <2>4, HostSends DEF ExchangeKey
  <2> QED
    BY <2>1, <2>2, <2>3, <2>5 DEF ToRecvInStep, Members
<1>3. CASE Challenge(p)
  <2>1. /\ host[p] = "challenge" /\ host'[p] = "tag" /\ UNCHANGED <<toHost, closed>>
    BY <1>3 DEF Challenge, HostGoto
  <2>2. ToHostInStep(p)'
    BY <2>1 DEF ToHostInStep, HostTook, RecvSent, Follows
  <2>3. "challenge" \in DOMAIN HostSent /\ HostSent["challenge"] = 1 /\ HostSent["tag"] = 2
    BY DEF HostSent
  <2>4. Msg("PinChallenge") \in FromHost[p] /\ Msg("PinChallenge").type = HostScript[1 + 1]
    BY DEF FromHost, Msg, HostScript
  <2>5. recv[p] \in DOMAIN RecvTook =>
          /\ Follows(toRecv'[p], RecvTook[recv[p]], HostScript)
          /\ p \notin closed => RecvTook[recv[p]] + Len(toRecv'[p]) = 1 + 1
    BY <1>3, <2>1, <2>3, <2>4, HostSends DEF Challenge
  <2> QED
    BY <2>1, <2>2, <2>3, <2>5 DEF ToRecvInStep, Members
<1>4. CASE VerifyReceiver(p)
  <2>1. /\ host[p] = "tag" /\ host'[p] = "join" /\ closed' = closed
        /\ Follows(toHost'[p], HostTook["tag"] + 1, RecvScript)
        /\ Len(toHost'[p]) = Len(toHost[p]) - 1 /\ Len(toHost[p]) \in Nat
    BY <1>4, HostTakes DEF VerifyReceiver, HostGoto, Expects
  <2>2. ToHostInStep(p)'
    BY <2>1 DEF ToHostInStep, HostTook, RecvSent
  <2>3. "tag" \in DOMAIN HostSent /\ HostSent["tag"] = 2 /\ HostSent["join"] = 3
    BY DEF HostSent
  <2>4. Tag(HostKey, "host") \in FromHost[p] /\ Tag(HostKey, "host").type = HostScript[2 + 1]
    BY DEF FromHost, Tag, HostScript
  <2>5. recv[p] \in DOMAIN RecvTook =>
          /\ Follows(toRecv'[p], RecvTook[recv[p]], HostScript)
          /\ p \notin closed => RecvTook[recv[p]] + Len(toRecv'[p]) = 2 + 1
    BY <1>4, <2>1, <2>3, <2>4, HostSends DEF VerifyReceiver, AuthKey
  <2> QED
    BY <2>1, <2>2, <2>3, <2>5 DEF ToRecvInStep, Members
<1>5. CASE ReadJoin(p)
  <2>1. host[p] = "join" /\ host'[p] = "register" /\ UNCHANGED <<toRecv, closed>>
    BY <1>5 DEF ReadJoin, Comes, HostGoto
  <2> QED
    BY <2>1 DEF ToRecvInStep, ToHostInStep, HostTook, HostSent, Follows, Members
<1>6. CASE HandshakeFails(p)
  <2>1. host'[p] = "done" /\ toRecv' = toRecv
    BY <1>6 DEF HandshakeFails, HostGoto
  <2> QED
    BY <2>1 DEF ToRecvInStep, ToHostInStep, HostTook, HostSent, Follows, Members
<1>7. CASE Register(p) \/ Disarm(p) \/ HostReadEnds(p) \/ Unregister(p)
  <2>1. /\ host[p] \in {"register"} \cup Members /\ host'[p] \in {"left"} \cup Members
        /\ UNCHANGED <<toRecv, toHost, closed>>
    BY <1>7 DEF Register, Disarm, HostReadEnds, Unregister, HostGoto, Members
  <2> QED
    BY <2>1 DEF ToRecvInStep, ToHostInStep, HostTook, HostSent, Follows, Members
<1>8. CASE AnnounceJoin(p)
  <2>1. /\ host[p] \in Members /\ host'[p] \in Members /\ UNCHANGED closed
        /\ host'[p] \notin DOMAIN HostTook
    BY <1>8 DEF AnnounceJoin, HostGoto, Members, HostTook
  <2> QED
    BY <1>8, <2>1, BroadcastInStep DEF AnnounceJoin, ToHostInStep
<1>9. CASE AnnounceLeave(p)
  <2>1. host'[p] = "done" /\ p \in closed' /\ p \notin peers
    BY <1>9 DEF AnnounceLeave, HostGoto, StepInv, TypeOK, Members
  <2>2. toRecv'[p] = toRecv[p]
    BY <1>9, <2>1 DEF AnnounceLeave, Broadcast, Audience
  <2> QED
    BY <2>1, <2>2 DEF ToRecvInStep, ToHostInStep, HostTook, HostSent, Follows, Members
<1> QED
  BY <1>1, <1>2, <1>3, <1>4, <1>5, <1>6, <1>7, <1>8, <1>9 DEF HostStep

\* The other connections: they are left alone, but for the room's events.
LEMMA OthersInStep ==
  ASSUME StepInv, NEW p \in Peers, NEW q \in Peers, q # p,
         Dial(p) \/ RecvStep(p) \/ Quit(p) \/ HostStep(p) \/ Expire(p)
  PROVE  ToRecvInStep(q)' /\ ToHostInStep(q)'
<1> USE DEF StepInv, KeyInv, Traffic, Carries, Places
<1>1. CASE AnnounceJoin(p) \/ AnnounceLeave(p)
  <2>1. /\ recv' = recv /\ toHost' = toHost /\ closed \subseteq closed' /\ Broadcast
        /\ host'[q] = host[q] /\ (q \notin closed' => q \notin closed)
    BY <1>1 DEF AnnounceJoin, AnnounceLeave, HostGoto
  <2>2. ToRecvInStep(q)'
    BY <2>1, BroadcastInStep
  <2> QED
    BY <2>1, <2>2 DEF ToHostInStep, Follows
<1>2. CASE Dial(p) \/ RecvStep(p) \/ Quit(p)
  <2>1. recv'[q] = recv[q] /\ host'[q] = host[q] /\ (q \notin closed' => q \notin closed)
    BY <1>2 DEF Dial, Quit, RecvStep, SendHello, ReceiveKey, AnswerChallenge, VerifyHost,
                SendJoin, ConnectFails, Read, ReadEnds, RecvGoto
  <2>2. toRecv'[q] = toRecv[q] /\ toHost'[q] = toHost[q]
    BY <1>2 DEF Dial, Quit, RecvStep, SendHello, ReceiveKey, AnswerChallenge, VerifyHost,
                SendJoin, ConnectFails, Read, ReadEnds, SendTo, Arrives
  <2> QED
    BY <2>1, <2>2, UntouchedInStep
<1>3. CASE Expire(p)
  BY <1>3, UntouchedInStep DEF Expire
<1>4. CASE HostStep(p) /\ ~(AnnounceJoin(p) \/ AnnounceLeave(p))
  <2>1. recv'[q] = recv[q] /\ host'[q] = host[q] /\ (q \notin closed' => q \notin closed)
    BY <1>4 DEF HostStep, Accept, ExchangeKey, Challenge, VerifyReceiver, ReadJoin,
                HandshakeFails, Register, Disarm, HostReadEnds, Unregister, HostGoto
  <2>2. toRecv'[q] = toRecv[q] /\ toHost'[q] = toHost[q]
    BY <1>4 DEF HostStep, Accept, ExchangeKey, Challenge, VerifyReceiver, ReadJoin,
                HandshakeFails, Register, Disarm, HostReadEnds, Unregister, SendTo, Comes
  <2> QED
    BY <2>1, <2>2, UntouchedInStep
<1> QED
  BY <1>1, <1>2, <1>3, <1>4

LEMMA StepInvInit == Init => StepInv
  BY KeyInit, TypeInit DEF Init, StepInv, ToRecvInStep, ToHostInStep, RecvTook, HostTook,
     HostSent, RecvSent, Members, Follows

LEMMA StepInvStep == StepInv /\ [Next]_vars => StepInv'
<1> SUFFICES ASSUME StepInv, [Next]_vars
             PROVE  StepInv'
  OBVIOUS
<1>1. KeyInv' /\ TypeOK'
  BY KeyStep, TypeStep DEF StepInv
<1>2. ASSUME NEW q \in Peers
      PROVE  ToRecvInStep(q)' /\ ToHostInStep(q)'
  <2>1. CASE UNCHANGED vars
    BY <2>1, UntouchedInStep DEF vars, timers, StepInv
  <2>2. CASE Next
    <3>1. PICK p \in Peers : Dial(p) \/ RecvStep(p) \/ Quit(p) \/ HostStep(p) \/ Expire(p)
      BY <2>2 DEF Next
    <3>2. CASE p # q
      BY <3>1, <3>2, OthersInStep
    <3>3. CASE p = q
      <4>1. CASE Expire(p)
        BY <3>3, <4>1, UntouchedInStep DEF Expire, StepInv
      <4> QED
        BY <3>1, <3>3, <4>1, RecvInStep, HostInStep
    <3> QED
      BY <3>2, <3>3
  <2> QED
    BY <2>1, <2>2
<1> QED
  BY <1>1, <1>2 DEF StepInv

\* However many receivers join and leave at once, what a side of a handshake
\* takes is what it awaits.
THEOREM NobodyIsDisturbed == Safety => []HandshakeInStep
<1>1. StepInv => HandshakeInStep
  <2> SUFFICES ASSUME StepInv, NEW p \in Peers
               PROVE  /\ recv[p] \in DOMAIN Awaited /\ toRecv[p] # <<>> =>
                           Next1(toRecv[p]) = Awaited[recv[p]]
                      /\ host[p] \in DOMAIN Expects /\ toHost[p] # <<>> =>
                           Next1(toHost[p]) = Expects[host[p]]
    BY DEF HandshakeInStep
  <2>0. toRecv[p] \in Seq(FromHost[p]) /\ toHost[p] \in Seq(FromRecv[p])
    BY DEF StepInv, KeyInv, Traffic, Carries
  <2>1. ASSUME recv[p] \in DOMAIN Awaited, toRecv[p] # <<>>
        PROVE  Next1(toRecv[p]) = Awaited[recv[p]]
    <3>1. recv[p] \in DOMAIN RecvTook /\ RecvTook[recv[p]] \in Nat
      BY <2>1 DEF Awaited, RecvTook
    <3>2. Next1(toRecv[p]) = HostScript[RecvTook[recv[p]] + 1]
      BY <2>0, <2>1, <3>1, FollowsTail DEF StepInv, ToRecvInStep
    <3> QED
      BY <2>1, <3>2 DEF Awaited, RecvTook, HostScript
  <2>2. ASSUME host[p] \in DOMAIN Expects, toHost[p] # <<>>
        PROVE  Next1(toHost[p]) = Expects[host[p]]
    <3>1. host[p] \in DOMAIN HostTook /\ HostTook[host[p]] \in Nat
      BY <2>2 DEF Expects, HostTook
    <3>2. Next1(toHost[p]) = RecvScript[HostTook[host[p]] + 1]
      BY <2>0, <2>2, <3>1, FollowsTail DEF StepInv, ToHostInStep
    <3> QED
      BY <2>2, <3>2 DEF Expects, HostTook, RecvScript
  <2> QED
    BY <2>1, <2>2
<1> QED
  BY StepInvInit, StepInvStep, <1>1, PTL DEF Safety

------------------------------------------------------------------------------
(* Who believes that it is connected                                       *)

\* While its connection stands, a receiver that was told it is connected is in
\* the room, or the host is about to read its PeerJoin or to register it.
ConnectedIsExpected ==
  \A p \in Peers : recv[p] = "reading" /\ p \notin closed =>
    host[p] \in {"join", "register"} \/ p \in peers

\* From the host's answer on the host goes on with it, and leaves only a
\* connection that was closed.
Expected(p) ==
  p \notin closed =>
    /\ recv[p] \in {"join", "reading"} => host[p] \in {"join", "register"} \cup Members
    /\ host[p] \notin {"leave", "left", "done"}

ExpectedInv == StepInv /\ Disarmed /\ \A p \in Peers : Expected(p)

\* The answer of the host can be read only after it was sent.
LEMMA AnswerWasSent ==
  ASSUME StepInv, NEW p \in Peers, Expected(p), p \notin closed, VerifyHost(p)
  PROVE  host[p] \in {"join", "register"} \cup Members
<1>1. /\ recv[p] = "tag" /\ Len(toRecv'[p]) = Len(toRecv[p]) - 1 /\ Len(toRecv[p]) \in Nat
      /\ toRecv'[p] = Tail(toRecv[p]) /\ toRecv[p] # <<>> /\ toRecv[p] \in Seq(FromHost[p])
  <2>1. Arrives(p, "tag") /\ "tag" \in DOMAIN Awaited
    BY DEF VerifyHost, Awaited
  <2>2. toRecv[p] # <<>> /\ toRecv[p] \in Seq(FromHost[p])
    BY <2>1 DEF Arrives, Next1, Awaited, StepInv, KeyInv, Traffic, Carries
  <2> QED
    BY <2>1, <2>2, ReceiverTakes
<1>2. Len(toRecv[p]) >= 1
  BY <1>1, EmptySeq
<1>3. host[p] \in DOMAIN HostSent => 2 + Len(toRecv[p]) = HostSent[host[p]]
  BY <1>1 DEF StepInv, ToRecvInStep, RecvTook
<1>4. host[p] \in DOMAIN HostSent => host[p] \in {"join", "register"}
  BY <1>1, <1>2, <1>3 DEF HostSent
<1>5. host[p] \in DOMAIN HostSent \cup Members \cup {"left", "done"}
  BY DEF StepInv, TypeOK, HostSent, Expects
<1> QED
  BY <1>4, <1>5 DEF Expected

LEMMA ExpectedStep ==
  ASSUME ExpectedInv, [Next]_vars
  PROVE  \A p \in Peers : Expected(p)'
<1> SUFFICES ASSUME NEW q \in Peers
             PROVE  Expected(q)'
  OBVIOUS
<1>0. /\ Expected(q) /\ TypeOK /\ Disarmed
      /\ recv = [p \in Peers |-> recv[p]] /\ host = [p \in Peers |-> host[p]]
  BY DEF ExpectedInv, StepInv, TypeOK
<1>1. CASE UNCHANGED vars
  BY <1>0, <1>1 DEF vars, Expected
<1>2. ASSUME NEW p \in Peers, Dial(p) \/ RecvStep(p) \/ Quit(p)
      PROVE  Expected(q)'
  <2>1. /\ host' = host /\ closed \subseteq closed'
        /\ \/ recv'[q] = recv[q]
           \/ q = p /\ SendJoin(p) /\ recv[p] = "join"
           \/ q = p /\ VerifyHost(p)
           \/ recv'[q] \notin {"join", "reading"}
    BY <1>0, <1>2 DEF Dial, Quit, RecvStep, SendHello, ReceiveKey, AnswerChallenge, VerifyHost,
                      SendJoin, ConnectFails, Read, ReadEnds, RecvGoto
  <2>2. q = p /\ VerifyHost(p) /\ q \notin closed => host[q] \in {"join", "register"} \cup Members
    BY <1>0, AnswerWasSent DEF ExpectedInv
  <2> QED
    BY <1>0, <2>1, <2>2 DEF Expected
<1>3. ASSUME NEW p \in Peers, HostStep(p)
      PROVE  Expected(q)'
  <2>1. recv' = recv /\ closed \subseteq closed'
    BY <1>3 DEF HostStep, Accept, ExchangeKey, Challenge, VerifyReceiver, ReadJoin, HandshakeFails,
                Register, AnnounceJoin, Disarm, HostReadEnds, Unregister, AnnounceLeave
  <2>2. CASE p # q
    <3>1. host'[q] = host[q]
      BY <1>0, <1>3, <2>2 DEF HostStep, Accept, ExchangeKey, Challenge, VerifyReceiver, ReadJoin,
                HandshakeFails, Register, AnnounceJoin, Disarm, HostReadEnds, Unregister,
                AnnounceLeave, HostGoto
    <3> QED
      BY <1>0, <2>1, <3>1 DEF Expected
  <2>3. CASE p = q
    <3>1. \/ host[q] \in {"none", "key", "challenge", "tag"}
             /\ host'[q] \in {"key", "challenge", "tag", "join"}
          \/ host[q] = "join" /\ host'[q] = "register"
          \/ host[q] \in {"register"} \cup Members /\ host'[q] \in Members \ {"leave"}
          \/ host[q] = "reading" /\ host'[q] = "leave" /\ (q \in closed \/ hostTimer[q] = "expired")
          \/ host[q] \in {"leave", "left"}
          \/ q \in closed'
      BY <1>0, <1>3, <2>3 DEF HostStep, Accept, ExchangeKey, Challenge, VerifyReceiver, ReadJoin,
                HandshakeFails, Register, AnnounceJoin, Disarm, HostReadEnds, Unregister,
                AnnounceLeave, HostGoto, Comes, Members
    <3> QED
      BY <1>0, <2>1, <3>1 DEF Expected, Disarmed, Members
  <2> QED
    BY <2>2, <2>3
<1>4. ASSUME NEW p \in Peers, Expire(p)
      PROVE  Expected(q)'
  BY <1>0, <1>4 DEF Expire, Expected
<1> QED
  BY <1>1, <1>2, <1>3, <1>4 DEF Next

\* However late the host notices a deadline, and whoever comes and goes: the
\* host has not given up a receiver that was told it is connected, unless it
\* has closed the connection, which the receiver's readLoop then finds out.
THEOREM ConnectedIsNoMistake == Safety => []ConnectedIsExpected
<1>1. Init => ExpectedInv
  BY StepInvInit, TypeInit DEF Init, Disarmed, Expected, ExpectedInv
<1>2. ExpectedInv /\ [Next]_vars => ExpectedInv'
  BY StepInvStep, DisarmedStep, ExpectedStep DEF ExpectedInv, StepInv
<1>3. ExpectedInv => ConnectedIsExpected
  BY DEF ExpectedInv, Expected, ConnectedIsExpected, StepInv, TypeOK
<1> QED
  BY <1>1, <1>2, <1>3, PTL DEF Safety

------------------------------------------------------------------------------
(* Getting to the end of the handshake                                     *)

\* Where each side stands along its way, from the first step to the last.
HostStage == [none |-> 0, key |-> 1, challenge |-> 2, tag |-> 3, join |-> 4, register |-> 5,
              announce |-> 6, disarm |-> 7, reading |-> 8, leave |-> 9, left |-> 10,
              done |-> 11]
RecvStage == [dial |-> 0, hello |-> 1, key |-> 2, challenge |-> 3, tag |-> 4, join |-> 5,
              reading |-> 6, ended |-> 7, failed |-> 7]

\* A side that moves gets further on its way.
GoesOn(p) == /\ host'[p] = host[p] \/ HostStage[host[p]] < HostStage[host'[p]]
             /\ recv'[p] = recv[p] \/ RecvStage[recv[p]] < RecvStage[recv'[p]]

\* Each side of a connection takes every step of its way once at most: what the
\* other side or another receiver does, a deadline or a lost connection never
\* sends it back to a step it has made.
THEOREM NoStepTwice == Safety => [][\A p \in Peers : GoesOn(p)]_vars
<1>1. TypeOK /\ [Next]_vars => [\A p \in Peers : GoesOn(p)]_vars
  <2> SUFFICES ASSUME TypeOK, Next, NEW q \in Peers
               PROVE  GoesOn(q)
    OBVIOUS
  <2>1. PICK p \in Peers : Dial(p) \/ RecvStep(p) \/ Quit(p) \/ HostStep(p) \/ Expire(p)
    BY DEF Next
  <2>2. /\ host \in [Peers -> DOMAIN HostStage]
        /\ recv \in [Peers -> DOMAIN RecvStage]
    BY DEF TypeOK, HostStage, RecvStage, Members, Awaited, Expects
  <2>3. CASE Dial(p) \/ RecvStep(p) \/ Quit(p)
    <3>1. host' = host
      BY <2>3 DEF Dial, Quit, RecvStep, SendHello, ReceiveKey, AnswerChallenge,
                  VerifyHost, SendJoin, ConnectFails, Read, ReadEnds
    <3>2. PICK at :
            \/ recv' = recv
            \/ recv' = [recv EXCEPT ![p] = at] /\ RecvStage[recv[p]] < RecvStage[at]
      BY <2>2, <2>3 DEF Dial, Quit, RecvStep, SendHello, ReceiveKey, AnswerChallenge,
                  VerifyHost, SendJoin, ConnectFails, Read, ReadEnds, RecvGoto, Arrives,
                  RecvStage, Awaited
    <3> QED
      BY <2>2, <3>1, <3>2 DEF GoesOn
  <2>4. CASE HostStep(p)
    <3>1. recv' = recv
      BY <2>4 DEF HostStep, Accept, ExchangeKey, Challenge, VerifyReceiver, ReadJoin,
                  HandshakeFails, Register, AnnounceJoin, Disarm, HostReadEnds, Unregister,
                  AnnounceLeave
    <3>2. PICK at : host' = [host EXCEPT ![p] = at] /\ HostStage[host[p]] < HostStage[at]
      BY <2>2, <2>4 DEF HostStep, Accept, ExchangeKey, Challenge, VerifyReceiver, ReadJoin,
                  HandshakeFails, Register, AnnounceJoin, Disarm, HostReadEnds, Unregister,
                  AnnounceLeave, HostGoto, Comes, HostStage, Expects
    <3> QED
      BY <2>2, <3>1, <3>2 DEF GoesOn
  <2>5. CASE Expire(p)
    BY <2>5 DEF Expire, GoesOn
  <2> QED
    BY <2>1, <2>3, <2>4, <2>5
<1> QED
  BY TypeInit, TypeStep, <1>1, PTL DEF Safety

\* While the connection is open the two sides never wait for each other: one of
\* them has a message to take or to send.
NeverBothWait ==
  \A p \in Peers :
    ~ /\ p \notin closed
      /\ host[p] \in DOMAIN Expects /\ toHost[p] = <<>>
      /\ recv[p] \in DOMAIN Awaited /\ toRecv[p] = <<>>

\* No handshake can come to a standstill while its connection is open, for any
\* number of receivers and whatever keys they have.
THEOREM HandshakeMoves == Safety => []NeverBothWait
<1>1. StepInv => NeverBothWait
  <2> SUFFICES ASSUME StepInv, NEW p \in Peers, p \notin closed,
                      host[p] \in DOMAIN Expects, toHost[p] = <<>>,
                      recv[p] \in DOMAIN Awaited, toRecv[p] = <<>>
               PROVE  FALSE
    BY DEF NeverBothWait
  <2>1. HostTook[host[p]] = RecvSent[recv[p]]
    <3>1. /\ host[p] \in DOMAIN HostTook /\ recv[p] \in DOMAIN RecvSent
          /\ HostTook[host[p]] \in Nat
      BY DEF Expects, Awaited, HostTook, RecvSent
    <3>2. HostTook[host[p]] + Len(toHost[p]) = RecvSent[recv[p]]
      BY <3>1 DEF StepInv, ToHostInStep
    <3>3. Len(toHost[p]) = 0
      OBVIOUS
    <3> QED
      BY <3>1, <3>2, <3>3
  <2>2. RecvTook[recv[p]] = HostSent[host[p]]
    <3>1. /\ recv[p] \in DOMAIN RecvTook /\ host[p] \in DOMAIN HostSent
          /\ RecvTook[recv[p]] \in Nat
      BY DEF Expects, Awaited, RecvTook, HostSent
    <3>2. RecvTook[recv[p]] + Len(toRecv[p]) = HostSent[host[p]]
      BY <3>1 DEF StepInv, ToRecvInStep
    <3>3. Len(toRecv[p]) = 0
      OBVIOUS
    <3> QED
      BY <3>1, <3>2, <3>3
  <2> QED
    BY <2>1, <2>2 DEF Expects, Awaited, HostTook, RecvSent, RecvTook, HostSent
<1> QED
  BY StepInvInit, StepInvStep, <1>1, PTL DEF Safety

\* A handshake under way has its deadline on both sides: it is armed or has
\* passed already.
WaitsAreTimed ==
  \A p \in Peers :
    /\ host[p] \in {"challenge"} \cup DOMAIN Expects => hostTimer[p] # "off"
    /\ recv[p] \in {"hello"} \cup DOMAIN Awaited => recvTimer[p] # "off"

\* "A stalled client cannot hold a goroutine forever" (host.go:23-24): neither
\* side ever waits for the other without a deadline, however many receivers
\* connect; the deadline is taken away only from a side whose handshake is over.
THEOREM DeadlineGuards == Safety => []WaitsAreTimed
<1> DEFINE Timed == TypeOK /\ WaitsAreTimed
<1>1. Init => Timed
  BY TypeInit DEF Init, WaitsAreTimed, Expects, Awaited
<1>2. Timed /\ [Next]_vars => Timed'
  <2> SUFFICES ASSUME Timed, [Next]_vars
               PROVE  WaitsAreTimed'
    BY TypeStep
  <2> USE DEF WaitsAreTimed, TypeOK, Expects, Awaited, Members
  <2>1. CASE UNCHANGED vars
    BY <2>1 DEF vars, timers
  <2>2. CASE Next
    <3>1. PICK p \in Peers : Dial(p) \/ RecvStep(p) \/ Quit(p) \/ HostStep(p) \/ Expire(p)
      BY <2>2 DEF Next
    <3>2. CASE Dial(p)
      BY <3>2 DEF Dial, RecvGoto
    <3>3. CASE RecvStep(p) \/ Quit(p)
      BY <3>3 DEF Quit, RecvStep, SendHello, ReceiveKey, AnswerChallenge, VerifyHost,
                  SendJoin, ConnectFails, Read, ReadEnds, RecvGoto, Arrives, timers
    <3>4. CASE HostStep(p)
      BY <3>4 DEF HostStep, Accept, ExchangeKey, Challenge, VerifyReceiver, ReadJoin,
                  HandshakeFails, Register, AnnounceJoin, Disarm, HostReadEnds, Unregister,
                  AnnounceLeave, timers, HostGoto, Comes
    <3>5. CASE Expire(p)
      BY <3>5 DEF Expire
    <3> QED
      BY <3>1, <3>2, <3>3, <3>4, <3>5
  <2> QED
    BY <2>1, <2>2
<1> QED
  BY <1>1, <1>2, PTL DEF Safety

==============================================================================
