------------------------------ MODULE Handshake ------------------------------
(***************************************************************************)
(* How a receiver joins and leaves a room: Connect                         *)
(* (src/internal/receiver/receiver.go) against acceptLoop and handleConn   *)
(* (src/internal/host/host.go).  Each connection has a goroutine of its    *)
(* own on the host.                                                        *)
(*                                                                         *)
(* Both sides arm a deadline of ten seconds when the connection is there   *)
(* and disarm it at the end of the handshake; the two clocks are not       *)
(* related.  A read or write after the deadline fails, but writeMessage    *)
(* of the receiver gives each write a deadline of its own.                 *)
(*                                                                         *)
(* Keys are symbolic: an authentication tag is the room key and the role   *)
(* it was made for, as both sides derive one secret from the key exchange. *)
(***************************************************************************)
EXTENDS Naturals, Sequences

CONSTANTS Peers,      \* receivers; a process connects at most once
          Keys,       \* room keys
          HostKey     \* that of the room

ASSUME HandshakeAssumption == HostKey \in Keys

VARIABLES
  keyOf,      \* the room key each receiver was started with
  recv,       \* where Connect or readLoop of each receiver stands
  host,       \* where handleConn of each connection stands
  toHost,     \* messages on their way to the host
  toRecv,     \* messages on their way to the receiver
  closed,     \* connections that one side has closed
  recvTimer,  \* the receiver's deadline: "off", "armed" or "expired"
  hostTimer,  \* the host's
  peers       \* h.peers

timers == <<recvTimer, hostTimer>>
vars == <<keyOf, recv, host, toHost, toRecv, closed, timers, peers>>

Msg(t) == [type |-> t]
Tag(k, role) == [type |-> "PinResponse", key |-> k, role |-> role]

Init ==
  /\ keyOf \in [Peers -> Keys]
  /\ recv = [p \in Peers |-> "dial"] /\ host = [p \in Peers |-> "none"]
  /\ toHost = [p \in Peers |-> <<>>] /\ toRecv = [p \in Peers |-> <<>>]
  /\ closed = {} /\ peers = {}
  /\ recvTimer = [p \in Peers |-> "off"] /\ hostTimer = [p \in Peers |-> "off"]

RecvGoto(p, at) == recv' = [recv EXCEPT ![p] = at]
HostGoto(p, at) == host' = [host EXCEPT ![p] = at]
Next1(q) == IF q = <<>> THEN "nothing" ELSE Head(q).type

\* A write: on a connection that was closed it may still seem to succeed.
SendTo(q, p, m) == q' = [q EXCEPT ![p] = IF p \in closed THEN @ ELSE Append(@, m)]

\* A key derivation that leaves the room key out.
AuthKeyUnbound(k) == HostKey

\* DeriveAuthKey: the room key is part of what is derived.
AuthKey(k) == k

------------------------------------------------------------------------------
(* The receiver                                                            *)

\* net.DialTimeout; the kernel's backlog holds the connection for acceptLoop.
Dial(p) ==
  /\ recv[p] = "dial"
  /\ RecvGoto(p, "hello")
  /\ recvTimer' = [recvTimer EXCEPT ![p] = "armed"]
  /\ UNCHANGED <<keyOf, host, toHost, toRecv, closed, hostTimer, peers>>

\* performKeyExchange sends first.
SendHello(p) ==
  /\ recv[p] = "hello" /\ recvTimer[p] # "expired"
  /\ SendTo(toHost, p, Msg("KeyExchange"))
  /\ RecvGoto(p, "key")
  /\ UNCHANGED <<keyOf, host, toRecv, closed, timers, peers>>

\* What the receiver waits for at each of its steps.
Awaited == [key |-> "KeyExchange", challenge |-> "PinChallenge", tag |-> "PinResponse"]

Arrives(p, at) ==
  /\ recv[p] = at /\ recvTimer[p] # "expired"
  /\ Next1(toRecv[p]) = Awaited[at]
  /\ toRecv' = [toRecv EXCEPT ![p] = Tail(@)]

ReceiveKey(p) ==
  /\ Arrives(p, "key")
  /\ RecvGoto(p, "challenge")
  /\ UNCHANGED <<keyOf, host, toHost, closed, timers, peers>>

\* handleAuthChallenge: the receiver's tag goes out.
AnswerChallenge(p) ==
  /\ Arrives(p, "challenge")
  /\ SendTo(toHost, p, Tag(AuthKey(keyOf[p]), "receiver"))
  /\ RecvGoto(p, "tag")
  /\ UNCHANGED <<keyOf, host, closed, timers, peers>>

VerifyHost(p) ==
  /\ Arrives(p, "tag")
  /\ Head(toRecv[p]) = Tag(AuthKey(keyOf[p]), "host")
  /\ RecvGoto(p, "join")
  /\ UNCHANGED <<keyOf, host, toHost, closed, timers, peers>>

\* sendPeerJoin, SetDeadline(time.Time{}) and go readLoop(): Connect returns nil.
SendJoin(p) ==
  /\ recv[p] = "join"
  /\ SendTo(toHost, p, Msg("PeerJoin"))
  /\ recvTimer' = [recvTimer EXCEPT ![p] = "off"]
  /\ RecvGoto(p, "reading")
  /\ UNCHANGED <<keyOf, host, toRecv, closed, hostTimer, peers>>

\* A step of Connect that cannot be made: the deadline has passed, the
\* connection is gone, or what comes is not what is awaited.
RecvCannot(p) ==
  \/ recvTimer[p] = "expired" /\ recv[p] # "join"
  \/ p \in closed
  \/ /\ recv[p] \in DOMAIN Awaited /\ toRecv[p] # <<>>
     /\ \/ Next1(toRecv[p]) # Awaited[recv[p]]
        \/ recv[p] = "tag" /\ Head(toRecv[p]) # Tag(AuthKey(keyOf[p]), "host")

\* Connect closes the connection and returns an error.
ConnectFails(p) ==
  /\ recv[p] \in {"hello", "join"} \cup DOMAIN Awaited
  /\ RecvCannot(p)
  /\ RecvGoto(p, "failed")
  /\ closed' = closed \cup {p}
  /\ UNCHANGED <<keyOf, host, toHost, toRecv, timers, peers>>

\* readLoop takes what the room sends.
Read(p) ==
  /\ recv[p] = "reading" /\ recvTimer[p] # "expired"
  /\ toRecv[p] # <<>>
  /\ toRecv' = [toRecv EXCEPT ![p] = Tail(@)]
  /\ UNCHANGED <<keyOf, recv, host, toHost, closed, timers, peers>>

\* Unmarshal fails: readLoop returns.
ReadEnds(p) ==
  /\ recv[p] = "reading"
  /\ p \in closed \/ recvTimer[p] = "expired"
  /\ RecvGoto(p, "ended")
  /\ UNCHANGED <<keyOf, host, toHost, toRecv, closed, timers, peers>>

\* The user quits, or the network breaks the connection.
Quit(p) ==
  /\ recv[p] \notin {"dial", "failed", "ended"}
  /\ RecvGoto(p, "ended")
  /\ closed' = closed \cup {p}
  /\ UNCHANGED <<keyOf, host, toHost, toRecv, timers, peers>>

------------------------------------------------------------------------------
(* The host                                                                *)

\* A handleConn that arms no deadline.
AcceptUnbounded(p) ==
  /\ host[p] = "none" /\ recv[p] # "dial"
  /\ HostGoto(p, "key")
  /\ UNCHANGED <<keyOf, recv, toHost, toRecv, closed, timers, peers>>

\* acceptLoop, and handleConn's SetDeadline.
Accept(p) ==
  /\ host[p] = "none" /\ recv[p] # "dial"
  /\ HostGoto(p, "key")
  /\ hostTimer' = [hostTimer EXCEPT ![p] = "armed"]
  /\ UNCHANGED <<keyOf, recv, toHost, toRecv, closed, recvTimer, peers>>

Expects == [key |-> "KeyExchange", tag |-> "PinResponse", join |-> "PeerJoin"]

Comes(p, at) ==
  /\ host[p] = at /\ hostTimer[p] # "expired"
  /\ Next1(toHost[p]) = Expects[at]
  /\ toHost' = [toHost EXCEPT ![p] = Tail(@)]

\* performKeyExchange answers with the host's key.
ExchangeKey(p) ==
  /\ Comes(p, "key")
  /\ SendTo(toRecv, p, Msg("KeyExchange"))
  /\ HostGoto(p, "challenge")
  /\ UNCHANGED <<keyOf, recv, closed, timers, peers>>

\* verifyAuth begins with the challenge.
Challenge(p) ==
  /\ host[p] = "challenge" /\ hostTimer[p] # "expired"
  /\ SendTo(toRecv, p, Msg("PinChallenge"))
  /\ HostGoto(p, "tag")
  /\ UNCHANGED <<keyOf, recv, toHost, closed, timers, peers>>

\* The receiver's tag is right: the host sends its own.
VerifyReceiver(p) ==
  /\ Comes(p, "tag")
  /\ Head(toHost[p]) = Tag(AuthKey(HostKey), "receiver")
  /\ SendTo(toRecv, p, Tag(AuthKey(HostKey), "host"))
  /\ HostGoto(p, "join")
  /\ UNCHANGED <<keyOf, recv, closed, timers, peers>>

\* PeerJoin arrives.
ReadJoin(p) ==
  /\ Comes(p, "join")
  /\ HostGoto(p, "register")
  /\ UNCHANGED <<keyOf, recv, toRecv, closed, timers, peers>>

HostCannot(p) ==
  \/ hostTimer[p] = "expired"
  \/ p \in closed
  \/ /\ host[p] \in DOMAIN Expects /\ toHost[p] # <<>>
     /\ \/ Next1(toHost[p]) # Expects[host[p]]
        \/ host[p] = "tag" /\ Head(toHost[p]) # Tag(AuthKey(HostKey), "receiver")

\* A handleConn that returns without its deferred Close.
HandshakeFailsOpen(p) ==
  /\ host[p] \in {"challenge"} \cup DOMAIN Expects
  /\ HostCannot(p)
  /\ HostGoto(p, "done")
  /\ UNCHANGED <<keyOf, recv, toHost, toRecv, closed, timers, peers>>

\* handleConn returns, which closes the connection.
HandshakeFails(p) ==
  /\ host[p] \in {"challenge"} \cup DOMAIN Expects
  /\ HostCannot(p)
  /\ HostGoto(p, "done")
  /\ closed' = closed \cup {p}
  /\ UNCHANGED <<keyOf, recv, toHost, toRecv, timers, peers>>

Register(p) ==
  /\ host[p] = "register"
  /\ peers' = peers \cup {p}
  /\ HostGoto(p, "announce")
  /\ UNCHANGED <<keyOf, recv, toHost, toRecv, closed, timers>>

\* An event for whoever has a connection.
AudienceConnected == {p \in Peers : host[p] \notin {"none", "done"}}

\* broadcastEvent goes over h.peers.
Audience == peers

\* The events of a join and of a leave; a failed write is ignored.
Broadcast ==
  toRecv' = [q \in Peers |-> IF q \in Audience \ closed
                             THEN Append(toRecv[q], Msg("SystemEvent")) ELSE toRecv[q]]

AnnounceJoin(p) ==
  /\ host[p] = "announce"
  /\ Broadcast
  /\ HostGoto(p, "disarm")
  /\ UNCHANGED <<keyOf, recv, toHost, closed, timers, peers>>

\* readLoop under the deadline of the handshake.
DisarmForgotten(p) ==
  /\ host[p] = "disarm"
  /\ HostGoto(p, "reading")
  /\ UNCHANGED <<keyOf, recv, toHost, toRecv, closed, timers, peers>>

\* SetDeadline(time.Time{}): an expired deadline is forgotten, too.
Disarm(p) ==
  /\ host[p] = "disarm"
  /\ hostTimer' = [hostTimer EXCEPT ![p] = "off"]
  /\ HostGoto(p, "reading")
  /\ UNCHANGED <<keyOf, recv, toHost, toRecv, closed, recvTimer, peers>>

\* The host's readLoop ends with the connection.
HostReadEnds(p) ==
  /\ host[p] = "reading"
  /\ p \in closed \/ hostTimer[p] = "expired"
  /\ HostGoto(p, "leave")
  /\ UNCHANGED <<keyOf, recv, toHost, toRecv, closed, timers, peers>>

\* A handleConn that leaves its peer registered.
UnregisterForgotten(p) ==
  /\ host[p] = "leave"
  /\ HostGoto(p, "left")
  /\ UNCHANGED <<keyOf, recv, toHost, toRecv, closed, timers, peers>>

Unregister(p) ==
  /\ host[p] = "leave"
  /\ peers' = peers \ {p}
  /\ HostGoto(p, "left")
  /\ UNCHANGED <<keyOf, recv, toHost, toRecv, closed, timers>>

AnnounceLeave(p) ==
  /\ host[p] = "left"
  /\ Broadcast
  /\ HostGoto(p, "done")
  /\ closed' = closed \cup {p}
  /\ UNCHANGED <<keyOf, recv, toHost, timers, peers>>

------------------------------------------------------------------------------
(* Deadlines                                                               *)

Expire(p) ==
  \/ /\ recvTimer[p] = "armed"
     /\ recvTimer' = [recvTimer EXCEPT ![p] = "expired"]
     /\ UNCHANGED <<keyOf, recv, host, toHost, toRecv, closed, hostTimer, peers>>
  \/ /\ hostTimer[p] = "armed"
     /\ hostTimer' = [hostTimer EXCEPT ![p] = "expired"]
     /\ UNCHANGED <<keyOf, recv, host, toHost, toRecv, closed, recvTimer, peers>>

RecvStep(p) == \/ SendHello(p) \/ ReceiveKey(p) \/ AnswerChallenge(p) \/ VerifyHost(p)
               \/ SendJoin(p) \/ ConnectFails(p) \/ Read(p) \/ ReadEnds(p)
HostStep(p) == \/ Accept(p) \/ ExchangeKey(p) \/ Challenge(p) \/ VerifyReceiver(p)
               \/ ReadJoin(p) \/ HandshakeFails(p) \/ Register(p) \/ AnnounceJoin(p)
               \/ Disarm(p) \/ HostReadEnds(p) \/ Unregister(p) \/ AnnounceLeave(p)

Next == \E p \in Peers : Dial(p) \/ RecvStep(p) \/ Quit(p) \/ HostStep(p) \/ Expire(p)

Safety == Init /\ [][Next]_vars

(* The host's goroutines run and clocks go on; of a receiver nothing is    *)
(* assumed but that its readLoop notices the end of the connection.        *)
Fairness == \A p \in Peers :
  WF_vars(HostStep(p)) /\ WF_vars(Expire(p)) /\ WF_vars(ReadEnds(p))

Spec == Safety /\ Fairness

------------------------------------------------------------------------------
(* Properties                                                              *)

Members == {"announce", "disarm", "reading", "leave"}

\* The values the variables range over; h.peers holds exactly the connections
\* between their registration and their end.
TypeOK ==
  /\ keyOf \in [Peers -> Keys]
  /\ recv \in [Peers -> {"dial", "hello", "join", "reading", "failed", "ended"}
                          \cup DOMAIN Awaited]
  /\ host \in [Peers -> {"none", "challenge", "register", "left", "done"}
                          \cup DOMAIN Expects \cup Members]
  /\ closed \subseteq Peers
  /\ recvTimer \in [Peers -> {"off", "armed", "expired"}]
  /\ hostTimer \in [Peers -> {"off", "armed", "expired"}]
  /\ peers = {p \in Peers : host[p] \in Members}

\* "Wrong key and the connection is dropped" (README.md:138-141): a receiver is
\* in the room, or believes that it is, only with the room's key.
KeysAgree ==
  \A p \in Peers : p \in peers \/ recv[p] \in {"join", "reading"} => keyOf[p] = HostKey

\* Whatever joins and leaves at the same time, what reaches a receiver during
\* its handshake is what it awaits: a handshake with the right key can fail
\* for a deadline or a lost connection, and for nothing else.
HandshakeInStep ==
  \A p \in Peers :
    /\ recv[p] \in DOMAIN Awaited /\ toRecv[p] # <<>> => Next1(toRecv[p]) = Awaited[recv[p]]
    /\ host[p] \in DOMAIN Expects /\ toHost[p] # <<>> => Next1(toHost[p]) = Expects[host[p]]

\* "Chunk streams may legitimately idle between offers" (host.go:203-204): the
\* deadline of the handshake, late as it may be noticed, ends no member.
MembersStay ==
  [][\A p \in Peers : host[p] \in Members /\ p \notin closed => host'[p] \in Members]_vars

\* "A stalled client cannot hold a goroutine forever" (host.go:23-24): every
\* handshake ends, the receiver being in the room or the connection closed.
HandshakeEnds ==
  \A p \in Peers : (host[p] # "none") ~> (host[p] \in {"reading", "done"})

\* A receiver that was told it is connected gets into the room, or learns that
\* it is not: the host's deadline may have passed while PeerJoin was under way.
ConnectedJoins ==
  \A p \in Peers : (recv[p] = "reading") ~> (p \in peers \/ recv[p] = "ended")

\* Who has gone is out of the room in the end.
GoneIsForgotten == \A p \in Peers : (p \in closed) ~> (p \notin peers)

==============================================================================
