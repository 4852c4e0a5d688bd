---------------------------- MODULE PeerWireProofs ----------------------------
(***************************************************************************)
(* Proofs about the bytes on one peer's connection, for any number of      *)
(* streams and control messages, files of any chunks, and buffers of any   *)
(* size.                                                                   *)
(***************************************************************************)
EXTENDS PeerWire, SequenceTheorems, TLAPS

USE PeerWireAssumption

------------------------------------------------------------------------------
(* Types                                                                   *)

\* While a frame is being written it is one of the file's.
Framed == \A s \in Streams : send[s] \in {"write", "flush"} => frame[s] # 0

WireTypes == TypeOK /\ Framed

\* Lengths are those of frames: more than a header.
LEMMA LenOfType ==
  ASSUME TypeOK
  PROVE  /\ Len(lens) \in Nat
         /\ \A s \in Streams, f \in 1..Len(lens) : LenOf(s, f) \in Nat \ {0, 1}
         /\ \A c \in Controls : \A f : LenOf(c, f) = ControlLen
<1>1. lens \in Seq(Nat \ {0, 1})
  BY DEF TypeOK
<1>2. \A f \in 1..Len(lens) : lens[f] \in Nat \ {0, 1}
  BY <1>1
<1>3. \A c \in Controls : c \notin Streams
  OBVIOUS
<1> QED
  BY <1>1, <1>2, <1>3 DEF LenOf

\* A frame as a sequence, and its ciphertext.
LEMMA FrameProperties ==
  ASSUME TypeOK, NEW w, NEW f \in Nat,
         \/ w \in Streams /\ f \in 1..Len(lens)
         \/ w \in Controls /\ f = 1
  PROVE  /\ LenOf(w, f) \in Nat \ {0, 1}
         /\ FrameOf(w, f) \in Seq(Units) /\ Len(FrameOf(w, f)) = LenOf(w, f)
         /\ \A k \in 1..LenOf(w, f) : FrameOf(w, f)[k] = Part(w, f, k)
         /\ Part(w, f, 1) \in Units
         /\ Tail(FrameOf(w, f)) \in Seq(Units)
         /\ Len(Tail(FrameOf(w, f))) = LenOf(w, f) - 1
         /\ \A k \in 1..(LenOf(w, f) - 1) : Tail(FrameOf(w, f))[k] = Part(w, f, k + 1)
<1>1. LenOf(w, f) \in Nat \ {0, 1}
  BY LenOfType
<1>2. \A k \in Nat \ {0} : Part(w, f, k) \in Units
  BY LenOfType DEF Part, Units
<1>3. FrameOf(w, f) \in [1..LenOf(w, f) -> Units]
  BY <1>1, <1>2 DEF FrameOf
<1>4. FrameOf(w, f) \in Seq(Units)
  BY <1>1, <1>3
<1>5. Len(FrameOf(w, f)) = LenOf(w, f)
  BY <1>1, <1>3, <1>4
<1>6. \A k \in 1..LenOf(w, f) : FrameOf(w, f)[k] = Part(w, f, k)
  BY DEF FrameOf
<1>7. FrameOf(w, f) # <<>>
  BY <1>1, <1>4, <1>5, EmptySeq
<1>8. /\ Tail(FrameOf(w, f)) \in Seq(Units)
      /\ Len(Tail(FrameOf(w, f))) = LenOf(w, f) - 1
      /\ \A k \in 1..(LenOf(w, f) - 1) : Tail(FrameOf(w, f))[k] = FrameOf(w, f)[k + 1]
  BY <1>4, <1>5, <1>7, HeadTailProperties
<1>9. \A k \in 1..(LenOf(w, f) - 1) : Tail(FrameOf(w, f))[k] = Part(w, f, k + 1)
  BY <1>1, <1>6, <1>8
<1> HIDE DEF Part
<1> QED
  BY <1>1, <1>2, <1>4, <1>5, <1>6, <1>8, <1>9

LEMMA TypesInit == Init => WireTypes
<1> SUFFICES ASSUME Init
             PROVE  WireTypes
  OBVIOUS
<1>1. lens \in Seq(Nat \ {0, 1}) /\ Len(lens) \in Nat
  BY DEF Init
<1>2. conn \in Seq(Units) /\ readPos \in 0..Len(conn) /\ got \in Seq(Writers \X (Nat \ {0}))
  BY DEF Init
<1>3. /\ arg \in [Streams -> Seq(Units)] /\ buf \in [Streams -> Seq(Units)]
      /\ frame \in [Streams -> 0..Len(lens)]
      /\ \A s \in Streams : Len(buf[s]) <= BufSize
  BY <1>1 DEF Init
<1> QED
  BY <1>2, <1>3 DEF Init, WireTypes, TypeOK, Framed

\* A step of the SendToPeer s: where it stands then, in which frame, what Write
\* and buffer have left, and what went out to the connection.
Moves(s, at, f, a, b, x) ==
  /\ UNCHANGED <<lens, writeMu, control, recvVars>>
  /\ send' = [send EXCEPT ![s] = at] /\ frame' = [frame EXCEPT ![s] = f]
  /\ arg' = [arg EXCEPT ![s] = a] /\ buf' = [buf EXCEPT ![s] = b]
  /\ conn' = conn \o x

\* The functions as one that is changed nowhere.
LEMMA Unmoved ==
  ASSUME WireTypes, NEW s \in Streams
  PROVE  /\ send = [send EXCEPT ![s] = send[s]] /\ frame = [frame EXCEPT ![s] = frame[s]]
         /\ arg = [arg EXCEPT ![s] = arg[s]] /\ buf = [buf EXCEPT ![s] = buf[s]]
         /\ conn = conn \o <<>> /\ <<>> \in Seq(Units)
<1>1. conn = conn \o <<>> /\ <<>> \in Seq(Units)
  BY ConcatEmptySeq DEF WireTypes, TypeOK
<1> QED
  BY <1>1 DEF WireTypes, TypeOK

\* What a SendToPeer has in hand, by its types.
LEMMA InHand ==
  ASSUME WireTypes, NEW s \in Streams
  PROVE  /\ Len(lens) \in Nat /\ frame[s] \in 0..Len(lens)
         /\ arg[s] \in Seq(Units) /\ buf[s] \in Seq(Units) /\ conn \in Seq(Units)
         /\ Len(arg[s]) \in Nat /\ Len(buf[s]) \in 0..BufSize /\ Len(conn) \in Nat
         /\ Room(s) \in Nat /\ Room(s) + Len(buf[s]) = BufSize
         /\ send[s] \in {"write", "flush"} => frame[s] \in 1..Len(lens)
<1>1. /\ Len(lens) \in Nat /\ frame[s] \in 0..Len(lens)
      /\ arg[s] \in Seq(Units) /\ buf[s] \in Seq(Units) /\ conn \in Seq(Units)
      /\ Len(buf[s]) <= BufSize
  BY LenOfType DEF WireTypes, TypeOK
<1>2. Len(arg[s]) \in Nat /\ Len(buf[s]) \in Nat /\ Len(conn) \in Nat
  BY <1>1
<1> QED
  BY <1>1, <1>2 DEF WireTypes, Framed, Room

\* The units that a full buffer still takes of the argument, and the others.
Front(s) == SubSeq(arg[s], 1, Room(s))
Rest(s) == SubSeq(arg[s], Room(s) + 1, Len(arg[s]))

LEMMA SplitArg ==
  ASSUME WireTypes, NEW s \in Streams, Len(arg[s]) > Room(s)
  PROVE  /\ Front(s) \in Seq(Units) /\ Len(Front(s)) = Room(s)
         /\ Rest(s) \in Seq(Units) /\ Len(Rest(s)) = Len(arg[s]) - Room(s)
         /\ \A i \in 1..Len(Rest(s)) : Rest(s)[i] = arg[s][Room(s) + i]
         /\ Front(s) \o Rest(s) = arg[s]
<1>1. arg[s] \in Seq(Units) /\ Len(arg[s]) \in Nat /\ Room(s) \in Nat
  BY InHand
<1>2. /\ \A i \in 1..Room(s) : arg[s][i] \in Units
      /\ \A i \in (Room(s) + 1)..Len(arg[s]) : arg[s][i] \in Units
  BY <1>1
<1>3. /\ Front(s) \in Seq(Units)
      /\ Len(Front(s)) = Room(s)
  <2> DEFINE a == arg[s]
             k == Room(s)
  <2>1. a \in Seq(Units) /\ Len(a) \in Nat /\ k \in Nat /\ \A i \in 1..k : a[i] \in Units
    BY <1>1, <1>2
  <2>2. Front(s) = SubSeq(a, 1, k)
    BY DEF Front
  <2> HIDE DEF a, k
  <2>3. SubSeq(a, 1, k) \in Seq(Units) /\ Len(SubSeq(a, 1, k)) = k
    BY <2>1, SubSeqProperties
  <2> QED
    BY <2>2, <2>3 DEF k
<1>4. /\ Rest(s) \in Seq(Units)
      /\ Len(Rest(s)) = Len(arg[s]) - Room(s)
      /\ \A i \in 1..(Len(arg[s]) - Room(s)) :
           Rest(s)[i] = arg[s][Room(s) + i]
  <2> DEFINE a == arg[s]
             k == Room(s)
             r == SubSeq(a, k + 1, Len(a))
  <2>1. /\ a \in Seq(Units) /\ Len(a) \in Nat /\ k \in Nat /\ k < Len(a)
        /\ \A i \in (k + 1)..Len(a) : a[i] \in Units
    BY <1>1, <1>2
  <2>2. Rest(s) = r
    BY DEF Rest
  <2> HIDE DEF a, k
  <2>3. /\ r \in Seq(Units)
        /\ Len(r) = IF k + 1 <= Len(a) THEN Len(a) - (k + 1) + 1 ELSE 0
        /\ \A i \in 1..(Len(a) - (k + 1) + 1) : r[i] = a[k + 1 + i - 1]
    BY <2>1, SubSeqProperties
  <2> HIDE DEF r
  <2>4. /\ r \in Seq(Units) /\ Len(r) = Len(a) - k
        /\ \A i \in 1..(Len(a) - k) : r[i] = a[k + i]
    BY <2>1, <2>3
  <2> QED
    BY <2>2, <2>4 DEF a, k
<1>5. Front(s) \o Rest(s) = arg[s]
  <2> DEFINE a == arg[s]
             k == Room(s)
  <2>1. /\ a \in Seq(Units) /\ 1 \in 1..(Len(a) + 1) /\ k \in (1 - 1)..Len(a)
        /\ Len(a) \in k..Len(a)
    BY <1>1
  <2>2. Front(s) = SubSeq(a, 1, k) /\ Rest(s) = SubSeq(a, k + 1, Len(a))
    BY DEF Front, Rest
  <2> HIDE DEF a, k
  <2>3. SubSeq(a, 1, k) \o SubSeq(a, k + 1, Len(a)) = SubSeq(a, 1, Len(a))
    BY <2>1, ConcatAdjacentSubSeq
  <2>4. SubSeq(a, 1, Len(a)) = a
    BY <2>1, SubSeqFull
  <2> QED
    BY <2>2, <2>3, <2>4 DEF a
<1> QED
  BY <1>3, <1>4, <1>5

\* An argument that fits is copied behind what is buffered.
LEMMA Copied ==
  ASSUME WireTypes, NEW s \in Streams, NEW x \in Seq(Units), Len(x) <= Room(s)
  PROVE  buf[s] \o x \in Seq(Units) /\ Len(buf[s] \o x) <= BufSize
<1> DEFINE joined == buf[s] \o x
           n == Len(joined)
<1>1. joined \in Seq(Units) /\ n = Len(buf[s]) + Len(x)
  BY InHand, ConcatProperties
<1> HIDE DEF joined, n
<1>2. n <= BufSize
  BY <1>1, InHand
<1> QED
  BY <1>1, <1>2 DEF n, joined

\* The steps of SendToPeer, as moves.
LEMMA SendMoves ==
  ASSUME WireTypes, NEW s \in Streams, SendStep(s)
  PROVE  \/ BeginFrame(s) /\ Moves(s, "write", frame[s] + 1,
                                   <<Part(s, frame[s] + 1, 1)>>, buf[s], <<>>)
         \/ CopyAll(s) /\ arg[s][1].part = 1
              /\ Moves(s, "write", frame[s], Payload(s), buf[s] \o arg[s], <<>>)
         \/ CopyAll(s) /\ arg[s][1].part # 1
              /\ Moves(s, "frame", frame[s], <<>>, buf[s] \o arg[s], <<>>)
         \/ Fill(s) /\ Moves(s, "flush", frame[s], Rest(s), buf[s] \o Front(s), <<>>)
         \/ Flush(s) /\ Moves(s, "write", frame[s], arg[s], <<>>, buf[s])
         \/ Direct(s) /\ Moves(s, "frame", frame[s], <<>>, buf[s], arg[s])
         \/ EndFlush(s) /\ Moves(s, "done", frame[s], arg[s], <<>>, buf[s])
         \/ SendFails(s) /\ \E n \in 0..(Len(Outgoing(s)) - 1) :
              Moves(s, "failed", frame[s], <<>>, <<>>, SubSeq(Outgoing(s), 1, n))
         \/ SendGivesUp(s) /\ Moves(s, "failed", frame[s], arg[s], <<>>, <<>>)
<1> DEFINE header == arg[s][1].part = 1
<1>1. CASE BeginFrame(s)
  BY <1>1, Unmoved DEF SendStep, BeginFrame, Moves
<1>2. CASE CopyAll(s)
  <2>1. CASE header
    BY <1>2, <2>1, Unmoved DEF SendStep, CopyAll, Moves
  <2>2. CASE ~header
    BY <1>2, <2>2, Unmoved DEF SendStep, CopyAll, Moves
  <2> QED
    BY <2>1, <2>2
<1>3. CASE Fill(s)
  BY <1>3, Unmoved DEF SendStep, Fill, Moves, Front, Rest
<1>4. CASE Flush(s)
  BY <1>4, Unmoved DEF SendStep, Flush, Moves
<1>5. CASE Direct(s)
  BY <1>5, Unmoved DEF SendStep, Direct, Moves
<1>6. CASE EndFlush(s)
  BY <1>6, Unmoved DEF SendStep, EndFlush, Moves
<1>7. CASE SendFails(s)
  <2>1. PICK n \in 0..(Len(Outgoing(s)) - 1) : conn' = conn \o SubSeq(Outgoing(s), 1, n)
    BY <1>7 DEF SendFails
  <2>2. Moves(s, "failed", frame[s], <<>>, <<>>, SubSeq(Outgoing(s), 1, n))
    BY <1>7, <2>1, Unmoved DEF SendStep, SendFails, Moves
  <2> QED
    BY <1>7, <2>2
<1>8. CASE SendGivesUp(s)
  BY <1>8, Unmoved DEF SendStep, SendGivesUp, Moves
<1> QED
  BY <1>1, <1>2, <1>3, <1>4, <1>5, <1>6, <1>7, <1>8 DEF SendStep

\* A move of well-typed parts keeps the types.
LEMMA TypesOfMove ==
  ASSUME WireTypes, NEW s \in Streams,
         NEW at \in {"frame", "write", "flush", "done", "failed"}, NEW f \in 0..Len(lens),
         NEW a \in Seq(Units), NEW b \in Seq(Units), NEW x \in Seq(Units),
         Moves(s, at, f, a, b, x), Len(b) <= BufSize, at \in {"write", "flush"} => f # 0
  PROVE  WireTypes'
<1>1. (Units)' = Units
  BY DEF Moves, Units
<1>2. conn' \in Seq(Units) /\ readPos' \in 0..Len(conn')
  <2>1. Len(conn') = Len(conn) + Len(x) /\ conn' \in Seq(Units) /\ Len(x) \in Nat
    BY InHand, ConcatProperties DEF Moves
  <2>2. Len(conn) \in Nat /\ readPos \in 0..Len(conn) /\ readPos' = readPos
    BY InHand DEF Moves, recvVars, WireTypes, TypeOK
  <2> QED
    BY <2>1, <2>2
<1>3. /\ send' \in [Streams -> {"frame", "write", "flush", "done", "failed"}]
      /\ frame' \in [Streams -> 0..Len(lens)]
      /\ arg' \in [Streams -> Seq(Units)] /\ buf' \in [Streams -> Seq(Units)]
  BY DEF Moves, WireTypes, TypeOK
<1>4. \A t \in Streams : Len(buf'[t]) <= BufSize
  BY DEF Moves, WireTypes, TypeOK
<1>5. Framed'
  BY DEF Moves, WireTypes, TypeOK, Framed
<1> QED
  BY <1>1, <1>2, <1>3, <1>4, <1>5 DEF WireTypes, TypeOK, Moves, recvVars

\* The bytes of a Write, and those of them that a failed one gets out.
LEMMA OutgoingPart ==
  ASSUME WireTypes, NEW s \in Streams, NEW n \in 0..(Len(Outgoing(s)) - 1)
  PROVE  /\ Outgoing(s) \in Seq(Units) /\ Len(Outgoing(s)) \in Nat
         /\ SubSeq(Outgoing(s), 1, n) \in Seq(Units) /\ Len(SubSeq(Outgoing(s), 1, n)) = n
         /\ \A i \in 1..n : SubSeq(Outgoing(s), 1, n)[i] = Outgoing(s)[i]
<1>1. Outgoing(s) \in Seq(Units) /\ Len(Outgoing(s)) \in Nat
  BY InHand DEF Outgoing
<1>2. \A i \in 1..n : Outgoing(s)[i] \in Units
  BY <1>1
<1>3. 1 \in Int /\ n \in Int /\ n - 1 + 1 = n /\ (IF 1 <= n THEN n - 1 + 1 ELSE 0) = n
  BY <1>1
<1>4. /\ SubSeq(Outgoing(s), 1, n) \in Seq(Units)
      /\ Len(SubSeq(Outgoing(s), 1, n)) = n
      /\ \A i \in 1..n : SubSeq(Outgoing(s), 1, n)[i] = Outgoing(s)[1 + i - 1]
  BY <1>2, <1>3, SubSeqProperties
<1> QED
  BY <1>1, <1>4

LEMMA TypesOfSend ==
  ASSUME WireTypes, NEW s \in Streams, SendStep(s)
  PROVE  WireTypes'
<1>1. /\ <<>> \in Seq(Units) /\ Len(<<>>) = 0 /\ BufSize \in Nat
      /\ frame[s] \in 0..Len(lens) /\ arg[s] \in Seq(Units) /\ buf[s] \in Seq(Units)
      /\ Len(buf[s]) <= BufSize /\ Len(<<>>) <= BufSize /\ Len(lens) \in Nat
      /\ Len(arg[s]) \in Nat /\ Len(buf[s]) \in Nat /\ Room(s) \in Nat
      /\ Room(s) + Len(buf[s]) = BufSize
  BY EmptySeq, InHand
<1>2. ASSUME BeginFrame(s), Moves(s, "write", frame[s] + 1,
                                  <<Part(s, frame[s] + 1, 1)>>, buf[s], <<>>)
      PROVE  WireTypes'
  <2>1. frame[s] + 1 \in 1..Len(lens) /\ frame[s] + 1 \in 0..Len(lens) /\ frame[s] + 1 # 0
    BY <1>1, <1>2 DEF BeginFrame
  <2>2. <<Part(s, frame[s] + 1, 1)>> \in Seq(Units)
    <3>1. Part(s, frame[s] + 1, 1) \in Units
      BY <2>1, FrameProperties DEF WireTypes
    <3> HIDE DEF Units, Part
    <3> QED
      BY <3>1
  <2> QED
    BY <1>1, <1>2, <2>1, <2>2, TypesOfMove
<1>3. ASSUME CopyAll(s), Moves(s, "write", frame[s], Payload(s), buf[s] \o arg[s], <<>>)
      PROVE  WireTypes'
  <2>1. frame[s] \in 1..Len(lens) /\ frame[s] # 0
    BY <1>3, InHand DEF CopyAll
  <2>2. Payload(s) \in Seq(Units)
    BY <2>1, FrameProperties DEF WireTypes, Payload
  <2>3. Len(arg[s]) <= Room(s)
    BY <1>3 DEF CopyAll
  <2>4. buf[s] \o arg[s] \in Seq(Units) /\ Len(buf[s] \o arg[s]) <= BufSize
    BY <1>1, <2>3, Copied
  <2> QED
    BY <1>1, <1>3, <2>1, <2>2, <2>4, TypesOfMove
<1>4. ASSUME CopyAll(s), Moves(s, "frame", frame[s], <<>>, buf[s] \o arg[s], <<>>)
      PROVE  WireTypes'
  <2>1. Len(arg[s]) <= Room(s)
    BY <1>4 DEF CopyAll
  <2>2. buf[s] \o arg[s] \in Seq(Units) /\ Len(buf[s] \o arg[s]) <= BufSize
    BY <1>1, <2>1, Copied
  <2> QED
    BY <1>1, <1>4, <2>2, TypesOfMove
<1>5. ASSUME Fill(s), Moves(s, "flush", frame[s], Rest(s), buf[s] \o Front(s), <<>>)
      PROVE  WireTypes'
  <2>1. /\ Front(s) \in Seq(Units) /\ Len(Front(s)) = Room(s)
        /\ Rest(s) \in Seq(Units)
    BY <1>5, SplitArg DEF Fill
  <2>2. /\ buf[s] \o Front(s) \in Seq(Units)
        /\ Len(buf[s] \o Front(s)) <= BufSize
    BY <1>1, <2>1, Copied
  <2>3. frame[s] # 0
    BY <1>5, InHand DEF Fill
  <2> QED
    BY <1>1, <1>5, <2>1, <2>2, <2>3, TypesOfMove
<1>6. ASSUME Flush(s), Moves(s, "write", frame[s], arg[s], <<>>, buf[s])
      PROVE  WireTypes'
  <2>1. frame[s] \in 1..Len(lens) /\ frame[s] # 0
    BY <1>6, InHand DEF Flush
  <2> QED
    BY <1>1, <1>6, <2>1, TypesOfMove
<1>7. ASSUME Moves(s, "frame", frame[s], <<>>, buf[s], arg[s])
      PROVE  WireTypes'
  BY <1>1, <1>7, TypesOfMove
<1>8. ASSUME Moves(s, "done", frame[s], arg[s], <<>>, buf[s])
      PROVE  WireTypes'
  BY <1>1, <1>8, TypesOfMove
<1>9. ASSUME NEW n \in 0..(Len(Outgoing(s)) - 1),
             Moves(s, "failed", frame[s], <<>>, <<>>, SubSeq(Outgoing(s), 1, n))
      PROVE  WireTypes'
  BY <1>1, <1>9, OutgoingPart, TypesOfMove
<1>10. ASSUME Moves(s, "failed", frame[s], arg[s], <<>>, <<>>)
       PROVE  WireTypes'
  BY <1>1, <1>10, TypesOfMove
<1> QED
  BY <1>2, <1>3, <1>4, <1>5, <1>6, <1>7, <1>8, <1>9, <1>10, SendMoves

\* What writeRawMessage adds to the connection.
LEMMA TypesOfControl ==
  ASSUME WireTypes, NEW c \in Controls, Lock(c) \/ ControlStep(c)
  PROVE  WireTypes'
<1>1. lens' = lens /\ UNCHANGED <<streamVars, recvVars>>
  BY DEF Lock, ControlStep, WriteHeader, WritePayload, ControlFails
<1>2. (Units)' = Units
  BY <1>1 DEF Units
<1>3. /\ writeMu' \subseteq Controls
      /\ control' \in [Controls -> {"idle", "header", "payload", "done", "failed"}]
  BY DEF WireTypes, TypeOK, Lock, ControlStep, WriteHeader, WritePayload, ControlFails
<1>4. /\ Tail(FrameOf(c, 1)) \in Seq(Units) /\ Len(Tail(FrameOf(c, 1))) = ControlLen - 1
      /\ Part(c, 1, 1) \in Units
  BY FrameProperties, LenOfType DEF WireTypes
<1>5. conn \in Seq(Units) /\ Len(conn) \in Nat /\ readPos \in 0..Len(conn)
  BY DEF WireTypes, TypeOK
<1>6. \E x \in Seq(Units) : conn' = conn \o x
  <2>1. CASE UNCHANGED conn
    <3>1. conn \o <<>> = conn /\ <<>> \in Seq(Units)
      BY <1>5, ConcatEmptySeq, EmptySeq
    <3> QED
      BY <2>1, <3>1
  <2>2. CASE conn' = Append(conn, Part(c, 1, 1))
    <3> HIDE DEF Part, Units
    <3>1. conn' = conn \o <<Part(c, 1, 1)>>
      BY <1>4, <1>5, <2>2, AppendIsConcat
    <3>2. <<Part(c, 1, 1)>> \in Seq(Units)
      BY <1>4
    <3> QED
      BY <3>1, <3>2
  <2>3. CASE conn' = conn \o Tail(FrameOf(c, 1))
    BY <1>4, <2>3
  <2>4. CASE \E n \in 0..(ControlLen - 2) : conn' = conn \o SubSeq(Tail(FrameOf(c, 1)), 1, n)
    <3>1. PICK n \in 0..(ControlLen - 2) : conn' = conn \o SubSeq(Tail(FrameOf(c, 1)), 1, n)
      BY <2>4
    <3>2. \A i \in 1..n : Tail(FrameOf(c, 1))[i] \in Units
      BY <1>4
    <3>3. SubSeq(Tail(FrameOf(c, 1)), 1, n) \in Seq(Units)
      BY <3>1, <3>2, SubSeqProperties, 1 \in Int, n \in Int
    <3> QED
      BY <3>1, <3>3
  <2> QED
    BY <2>1, <2>2, <2>3, <2>4 DEF Lock, ControlStep, WriteHeader, WritePayload, ControlFails
<1>7. conn' \in Seq(Units) /\ readPos \in 0..Len(conn')
  <2>1. PICK x \in Seq(Units) : conn' = conn \o x
    BY <1>6
  <2>2. Len(conn') = Len(conn) + Len(x) /\ conn' \in Seq(Units) /\ Len(x) \in Nat
    BY <1>5, <2>1, ConcatProperties
  <2> QED
    BY <1>5, <2>2
<1> QED
  BY <1>1, <1>2, <1>3, <1>7 DEF WireTypes, TypeOK, Framed, streamVars, recvVars

\* What readLoop takes is a frame of somebody's.
LEMMA TypesOfRead ==
  ASSUME WireTypes, ReadFrame \/ ReadLost
  PROVE  WireTypes'
<1>1. lens' = lens /\ conn' = conn /\ writeMu' = writeMu /\ control' = control /\ UNCHANGED streamVars
  BY DEF ReadFrame, ReadLost
<1>2. (Units)' = Units /\ conn \in Seq(Units) /\ Len(conn) \in Nat /\ readPos \in 0..Len(conn)
  BY <1>1 DEF Units, WireTypes, TypeOK
<1>3. readPos' \in 0..Len(conn) /\ got' \in Seq(Writers \X (Nat \ {0}))
      /\ reading' \in {"frames", "lost"}
  <2>1. CASE ReadLost
    BY <1>2, <2>1 DEF ReadLost, WireTypes, TypeOK
  <2>2. CASE ReadFrame
    <3> DEFINE of == conn[readPos + 1].of
               f == conn[readPos + 1].frame
    <3>1. conn[readPos + 1] \in Units
      BY <1>2, <2>2 DEF ReadFrame, AtHeader
    <3>2. of \in Writers /\ f \in Nat \ {0} /\ LenOf(of, f) \in Nat
      BY <3>1, LenOfType DEF Units, Writers, WireTypes
    <3>3. /\ readPos + LenOf(of, f) <= Len(conn) /\ readPos' = readPos + LenOf(of, f)
          /\ got' = got \/ got' = Append(got, <<of, f>>)
          /\ reading' = reading
      BY <2>2 DEF ReadFrame
    <3>4. readPos' \in 0..Len(conn)
      BY <1>2, <3>2, <3>3
    <3>5. <<of, f>> \in Writers \X (Nat \ {0})
      BY <3>2
    <3>6. got' \in Seq(Writers \X (Nat \ {0}))
      <4>1. got \in Seq(Writers \X (Nat \ {0}))
        BY DEF WireTypes, TypeOK
      <4>2. Append(got, <<of, f>>) \in Seq(Writers \X (Nat \ {0}))
        BY <3>5, <4>1, AppendProperties
      <4> QED
        BY <3>3, <4>1, <4>2
    <3> QED
      BY <3>3, <3>4, <3>6 DEF WireTypes, TypeOK
  <2> QED
    BY <2>1, <2>2
<1> QED
  BY <1>1, <1>2, <1>3 DEF WireTypes, TypeOK, Framed, streamVars

LEMMA TypesStep == WireTypes /\ [Next]_vars => WireTypes'
<1> SUFFICES ASSUME WireTypes, [Next]_vars
             PROVE  WireTypes'
  OBVIOUS
<1>1. CASE UNCHANGED vars
  BY <1>1 DEF vars, streamVars, recvVars, WireTypes, TypeOK, Framed, Units
<1> QED
  BY <1>1, TypesOfSend, TypesOfControl, TypesOfRead DEF Next

\* Type correctness, for files of any chunks and buffers of any size: a buffer
\* never holds more than its size (bufio.Writer.Write).
THEOREM TypeCorrect == Safety => []TypeOK
<1>1. WireTypes => TypeOK
  BY DEF WireTypes
<1> QED
  BY TypesInit, TypesStep, <1>1, PTL DEF Safety

------------------------------------------------------------------------------
(* Order of a stream: units in a sequence                                  *)

\* u is what writer w's stream goes on with after those units.
Due(w, units, u) ==
  \/ PlacesOf(w, units) = {} /\ u = Part(w, 1, 1)
  \/ \E i \in PlacesOf(w, units) : /\ u = After(units[i])
                                  /\ \A k \in PlacesOf(w, units) : k <= i

\* All units of a sequence are of one writer.
Only(w, units) == \A i \in DOMAIN units : units[i].of = w

\* Where the units of two sequences stand when one follows the other.
LEMMA Joined ==
  ASSUME NEW S, NEW q \in Seq(S), NEW r \in Seq(S)
  PROVE  /\ Len(q) \in Nat /\ Len(r) \in Nat
         /\ q \o r \in Seq(S) /\ DOMAIN (q \o r) = 1..(Len(q) + Len(r))
         /\ DOMAIN q = 1..Len(q) /\ DOMAIN r = 1..Len(r)
         /\ \A i \in 1..Len(q) : (q \o r)[i] = q[i]
         /\ \A i \in 1..Len(r) : (q \o r)[Len(q) + i] = r[i]
<1>1. /\ q \o r \in Seq(S) /\ Len(q \o r) = Len(q) + Len(r)
      /\ \A i \in 1 .. Len(q) + Len(r) : (q \o r)[i] = IF i <= Len(q) THEN q[i] ELSE r[i - Len(q)]
  BY ConcatProperties
<1>2. Len(q) \in Nat /\ Len(r) \in Nat /\ DOMAIN q = 1..Len(q) /\ DOMAIN r = 1..Len(r)
  OBVIOUS
<1>3. DOMAIN (q \o r) = 1..(Len(q) + Len(r))
  BY <1>1, LenProperties
<1>4. ASSUME NEW i \in 1..Len(r)
      PROVE  (q \o r)[Len(q) + i] = r[i]
  <2>1. Len(q) + i \in 1 .. Len(q) + Len(r) /\ ~(Len(q) + i <= Len(q)) /\ Len(q) + i - Len(q) = i
    BY <1>2
  <2> QED
    BY <1>1, <2>1
<1>5. ASSUME NEW i \in 1..Len(q)
      PROVE  (q \o r)[i] = q[i]
  BY <1>1, <1>2
<1> QED
  BY <1>1, <1>2, <1>3, <1>4, <1>5

\* Units of one writer, joined and cut.
LEMMA OnlyJoined ==
  ASSUME NEW S, NEW w, NEW q \in Seq(S), NEW r \in Seq(S)
  PROVE  Only(w, q \o r) <=> Only(w, q) /\ Only(w, r)
<1>1. /\ Len(q) \in Nat /\ Len(r) \in Nat /\ DOMAIN (q \o r) = 1..(Len(q) + Len(r))
      /\ DOMAIN q = 1..Len(q) /\ DOMAIN r = 1..Len(r)
      /\ \A i \in 1..Len(q) : (q \o r)[i] = q[i]
      /\ \A i \in 1..Len(r) : (q \o r)[Len(q) + i] = r[i]
  BY Joined
<1> DEFINE all == q \o r
<1>2. ASSUME Only(w, q), Only(w, r), NEW i \in DOMAIN all
      PROVE  all[i].of = w
  <2>1. CASE i <= Len(q)
    BY <1>1, <1>2, <2>1 DEF Only
  <2>2. CASE ~(i <= Len(q))
    <3>1. i - Len(q) \in 1..Len(r) /\ i = Len(q) + (i - Len(q))
      BY <1>1, <2>2
    <3>2. all[i] = r[i - Len(q)]
      BY <1>1, <3>1
    <3> QED
      BY <1>1, <1>2, <3>1, <3>2 DEF Only
  <2> QED
    BY <2>1, <2>2
<1>3. ASSUME Only(w, all)
      PROVE  Only(w, q) /\ Only(w, r)
  <2>1. ASSUME NEW i \in DOMAIN q
        PROVE  q[i].of = w
    <3>1. i \in DOMAIN all /\ all[i] = q[i]
      BY <1>1
    <3> QED
      BY <1>3, <3>1 DEF Only
  <2>2. ASSUME NEW i \in DOMAIN r
        PROVE  r[i].of = w
    <3>1. Len(q) + i \in DOMAIN all /\ all[Len(q) + i] = r[i]
      BY <1>1
    <3> QED
      BY <1>3, <3>1 DEF Only
  <2> QED
    BY <2>1, <2>2 DEF Only
<1>4. Only(w, q) /\ Only(w, r) => Only(w, all)
  BY <1>2 DEF Only
<1> QED
  BY <1>3, <1>4

\* A stream in step is so up to every place.
LEMMA InStepPrefix ==
  ASSUME NEW S, NEW q \in Seq(S), NEW r \in Seq(S), NEW w, InStep(w, q \o r)
  PROVE  InStep(w, q)
<1> DEFINE all == q \o r
<1>1. /\ Len(q) \in Nat /\ Len(r) \in Nat /\ DOMAIN all = 1..(Len(q) + Len(r))
      /\ DOMAIN q = 1..Len(q) /\ \A i \in 1..Len(q) : all[i] = q[i]
  BY Joined
<1>2. InStep(w, all)
  OBVIOUS
<1> HIDE DEF all
<1>3. PlacesOf(w, q) = {i \in PlacesOf(w, all) : i <= Len(q)}
  BY <1>1 DEF PlacesOf
<1>4. PlacesOf(w, all) \subseteq Nat /\ PlacesOf(w, q) \subseteq DOMAIN q
  BY <1>1 DEF PlacesOf
<1> SUFFICES ASSUME NEW j \in PlacesOf(w, q)
             PROVE  \/ q[j] = Part(w, 1, 1) /\ \A i \in PlacesOf(w, q) : i >= j
                    \/ \E i \in PlacesOf(w, q) :
                         /\ i < j /\ q[j] = After(q[i])
                         /\ \A k \in PlacesOf(w, q) : k <= i \/ k >= j
  BY DEF InStep
<1>5. j \in PlacesOf(w, all) /\ j <= Len(q) /\ q[j] = all[j]
  BY <1>1, <1>3, <1>4
<1>6. CASE all[j] = Part(w, 1, 1) /\ \A i \in PlacesOf(w, all) : i >= j
  BY <1>3, <1>5, <1>6
<1>7. ASSUME NEW i \in PlacesOf(w, all), i < j, all[j] = After(all[i]),
             \A k \in PlacesOf(w, all) : k <= i \/ k >= j
      PROVE  \E h \in PlacesOf(w, q) : /\ h < j /\ q[j] = After(q[h])
                                      /\ \A k \in PlacesOf(w, q) : k <= h \/ k >= j
  <2>1. i \in PlacesOf(w, q)
    BY <1>1, <1>3, <1>4, <1>5, <1>7
  <2>2. q[i] = all[i]
    BY <1>1, <1>4, <2>1
  <2> QED
    BY <1>3, <1>5, <1>7, <2>1, <2>2
<1> QED
  BY <1>2, <1>5, <1>6, <1>7 DEF InStep

\* Where the units of w are after somebody else's were put between them.
LEMMA Inserted ==
  ASSUME NEW S, NEW q \in Seq(S), NEW x \in Seq(S), NEW r \in Seq(S), NEW w, NEW v,
         Only(v, x), v # w
  PROVE  LET old == q \o r
             new == (q \o x) \o r
             m == [i \in PlacesOf(w, old) |-> IF i <= Len(q) THEN i ELSE i + Len(x)]
         IN  /\ \A i \in PlacesOf(w, old) : m[i] \in PlacesOf(w, new) /\ new[m[i]] = old[i]
             /\ \A j \in PlacesOf(w, new) : \E i \in PlacesOf(w, old) : j = m[i]
             /\ \A i, k \in PlacesOf(w, old) : i < k <=> m[i] < m[k]
             /\ \A i \in PlacesOf(w, old) : i \in Nat /\ m[i] \in Nat
<1> DEFINE old == q \o r
           new == (q \o x) \o r
           m == [i \in PlacesOf(w, old) |-> IF i <= Len(q) THEN i ELSE i + Len(x)]
<1>1. /\ Len(q) \in Nat /\ Len(r) \in Nat /\ Len(x) \in Nat
      /\ DOMAIN old = 1..(Len(q) + Len(r)) /\ DOMAIN x = 1..Len(x)
      /\ \A i \in 1..Len(q) : old[i] = q[i]
      /\ \A i \in 1..Len(r) : old[Len(q) + i] = r[i]
  BY Joined
<1>2. /\ q \o x \in Seq(S) /\ Len(q \o x) = Len(q) + Len(x)
      /\ \A i \in 1..Len(q) : (q \o x)[i] = q[i]
      /\ \A i \in 1..Len(x) : (q \o x)[Len(q) + i] = x[i]
  BY Joined, ConcatProperties
<1>3. /\ DOMAIN new = 1..(Len(q) + Len(x) + Len(r))
      /\ \A i \in 1..(Len(q) + Len(x)) : new[i] = (q \o x)[i]
      /\ \A i \in 1..Len(r) : new[Len(q) + Len(x) + i] = r[i]
  BY <1>1, <1>2, Joined
<1> HIDE DEF old, new
<1>4. ASSUME NEW i \in 1..Len(q)
      PROVE  new[i] = old[i]
  <2>1. i \in 1..(Len(q) + Len(x))
    BY <1>1
  <2>2. new[i] = (q \o x)[i]
    BY <1>3, <2>1
  <2> QED
    BY <1>1, <1>2, <2>2
<1>5. \A i \in 1..Len(x) : new[Len(q) + i].of = v
  <2> SUFFICES ASSUME NEW i \in 1..Len(x)
               PROVE  new[Len(q) + i].of = v
    OBVIOUS
  <2>1. Len(q) + i \in 1..(Len(q) + Len(x))
    BY <1>1
  <2>2. new[Len(q) + i] = (q \o x)[Len(q) + i]
    BY <1>3, <2>1
  <2>3. (q \o x)[Len(q) + i] = x[i] /\ i \in DOMAIN x
    BY <1>1, <1>2
  <2> QED
    BY <2>2, <2>3 DEF Only
<1>6. \A i \in (Len(q) + 1)..(Len(q) + Len(r)) : new[i + Len(x)] = old[i]
  <2> SUFFICES ASSUME NEW i \in (Len(q) + 1)..(Len(q) + Len(r))
               PROVE  new[i + Len(x)] = old[i]
    OBVIOUS
  <2>1. PICK k \in 1..Len(r) : i = Len(q) + k /\ i + Len(x) = Len(q) + Len(x) + k
    <3>1. i - Len(q) \in 1..Len(r) /\ i = Len(q) + (i - Len(q))
          /\ i + Len(x) = Len(q) + Len(x) + (i - Len(q))
      BY <1>1
    <3> QED
      BY <3>1
  <2> QED
    BY <1>1, <1>3, <2>1
<1>7. \A i \in PlacesOf(w, old) : i \in 1..(Len(q) + Len(r)) /\ old[i].of = w
  BY <1>1 DEF PlacesOf
<1>8. ASSUME NEW i \in PlacesOf(w, old)
      PROVE  m[i] \in PlacesOf(w, new) /\ new[m[i]] = old[i] /\ i \in Nat /\ m[i] \in Nat
  <2>1. CASE i <= Len(q)
    BY <1>1, <1>3, <1>4, <1>7, <2>1 DEF PlacesOf
  <2>2. CASE ~(i <= Len(q))
    <3>1. m[i] = i + Len(x) /\ i \in (Len(q) + 1)..(Len(q) + Len(r))
      BY <1>1, <1>7, <2>2
    <3>2. i + Len(x) \in 1..(Len(q) + Len(x) + Len(r))
      BY <1>1, <3>1
    <3> QED
      BY <1>1, <1>3, <1>6, <1>7, <3>1, <3>2 DEF PlacesOf
  <2> QED
    BY <2>1, <2>2
<1>9. ASSUME NEW j \in PlacesOf(w, new)
      PROVE  \E i \in PlacesOf(w, old) : j = m[i]
  <2>1. j \in 1..(Len(q) + Len(x) + Len(r)) /\ new[j].of = w
    BY <1>3 DEF PlacesOf
  <2>2. CASE j <= Len(q)
    <3>1. j \in 1..(Len(q) + Len(r)) /\ j \in 1..Len(q)
      BY <1>1, <2>1, <2>2
    <3>2. j \in PlacesOf(w, old)
      BY <1>1, <1>4, <2>1, <3>1 DEF PlacesOf
    <3> QED
      BY <2>2, <3>2
  <2>3. CASE j > Len(q) /\ j <= Len(q) + Len(x)
    <3>1. j - Len(q) \in 1..Len(x) /\ j = Len(q) + (j - Len(q))
      BY <1>1, <2>1, <2>3
    <3> QED
      BY <1>5, <2>1, <3>1
  <2>4. CASE j > Len(q) + Len(x)
    <3>1. /\ j - Len(x) \in (Len(q) + 1)..(Len(q) + Len(r)) /\ j = (j - Len(x)) + Len(x)
          /\ j - Len(x) \in 1..(Len(q) + Len(r)) /\ ~(j - Len(x) <= Len(q))
      BY <1>1, <2>1, <2>4
    <3>2. j - Len(x) \in PlacesOf(w, old)
      BY <1>1, <1>6, <2>1, <3>1 DEF PlacesOf
    <3> QED
      BY <3>1, <3>2
  <2> QED
    BY <1>1, <2>1, <2>2, <2>3, <2>4
<1>10. \A i, k \in PlacesOf(w, old) : i < k <=> m[i] < m[k]
  BY <1>1, <1>7
<1> HIDE DEF m
<1>11. /\ \A i \in PlacesOf(w, old) : m[i] \in PlacesOf(w, new) /\ new[m[i]] = old[i]
       /\ \A j \in PlacesOf(w, new) : \E i \in PlacesOf(w, old) : j = m[i]
       /\ \A i, k \in PlacesOf(w, old) : i < k <=> m[i] < m[k]
       /\ \A i \in PlacesOf(w, old) : i \in Nat /\ m[i] \in Nat
  BY <1>8, <1>9, <1>10
<1> QED
  BY <1>11 DEF m, old, new

\* What others put in between leaves a stream in step, and what is due due.
LEMMA InsertKeeps ==
  ASSUME NEW S, NEW q \in Seq(S), NEW x \in Seq(S), NEW r \in Seq(S), NEW w, NEW v,
         Only(v, x), v # w
  PROVE  /\ InStep(w, q \o r) => InStep(w, (q \o x) \o r)
         /\ \A u : Due(w, q \o r, u) => Due(w, (q \o x) \o r, u)
<1> DEFINE old == q \o r
           new == (q \o x) \o r
           m == [i \in PlacesOf(w, old) |-> IF i <= Len(q) THEN i ELSE i + Len(x)]
<1>1. /\ \A i \in PlacesOf(w, old) : m[i] \in PlacesOf(w, new) /\ new[m[i]] = old[i]
      /\ \A j \in PlacesOf(w, new) : \E i \in PlacesOf(w, old) : j = m[i]
      /\ \A i, k \in PlacesOf(w, old) : i < k <=> m[i] < m[k]
      /\ \A i \in PlacesOf(w, old) : i \in Nat /\ m[i] \in Nat
  BY Inserted
<1> HIDE DEF m, old, new
<1>2. \A i, k \in PlacesOf(w, old) : i <= k <=> m[i] <= m[k]
  BY <1>1
<1>3. ASSUME InStep(w, old)
      PROVE  InStep(w, new)
  <2> SUFFICES ASSUME NEW jj \in PlacesOf(w, new)
               PROVE  \/ new[jj] = Part(w, 1, 1) /\ \A i \in PlacesOf(w, new) : i >= jj
                      \/ \E i \in PlacesOf(w, new) :
                           /\ i < jj /\ new[jj] = After(new[i])
                           /\ \A k \in PlacesOf(w, new) : k <= i \/ k >= jj
    BY DEF InStep
  <2>1. PICK j \in PlacesOf(w, old) : jj = m[j]
    BY <1>1
  <2>2. CASE old[j] = Part(w, 1, 1) /\ \A i \in PlacesOf(w, old) : i >= j
    <3>1. \A ii \in PlacesOf(w, new) : ii >= jj
      <4> SUFFICES ASSUME NEW ii \in PlacesOf(w, new)
                   PROVE  ii >= jj
        OBVIOUS
      <4>1. PICK i \in PlacesOf(w, old) : ii = m[i]
        BY <1>1
      <4>2. j <= i
        BY <1>1, <2>2
      <4> QED
        BY <1>1, <1>2, <2>1, <4>1, <4>2
    <3>2. new[jj] = Part(w, 1, 1)
      BY <1>1, <2>1, <2>2
    <3> QED
      BY <3>1, <3>2
  <2>3. ASSUME NEW i \in PlacesOf(w, old), i < j, old[j] = After(old[i]),
               \A k \in PlacesOf(w, old) : k <= i \/ k >= j
        PROVE  \E ii \in PlacesOf(w, new) : /\ ii < jj /\ new[jj] = After(new[ii])
                                           /\ \A k \in PlacesOf(w, new) : k <= ii \/ k >= jj
    <3>1. m[i] \in PlacesOf(w, new) /\ m[i] < jj /\ new[jj] = After(new[m[i]])
      BY <1>1, <2>1, <2>3
    <3>2. ASSUME NEW kk \in PlacesOf(w, new)
          PROVE  kk <= m[i] \/ kk >= jj
      <4>1. PICK k \in PlacesOf(w, old) : kk = m[k]
        BY <1>1
      <4>2. k <= i \/ j <= k
        BY <1>1, <2>3
      <4> QED
        BY <1>1, <1>2, <2>1, <4>1, <4>2
    <3> QED
      BY <3>1, <3>2
  <2> QED
    BY <1>3, <2>2, <2>3 DEF InStep
<1>4. ASSUME NEW u, Due(w, old, u)
      PROVE  Due(w, new, u)
  <2>1. CASE PlacesOf(w, old) = {} /\ u = Part(w, 1, 1)
    <3>1. PlacesOf(w, new) = {}
      BY <1>1, <2>1
    <3> QED
      BY <2>1, <3>1 DEF Due
  <2>2. ASSUME NEW i \in PlacesOf(w, old), u = After(old[i]),
               \A k \in PlacesOf(w, old) : k <= i
        PROVE  Due(w, new, u)
    <3>1. m[i] \in PlacesOf(w, new) /\ u = After(new[m[i]])
      BY <1>1, <2>2
    <3>2. \A kk \in PlacesOf(w, new) : kk <= m[i]
      BY <1>1, <1>2, <2>2
    <3> QED
      BY <3>1, <3>2 DEF Due
  <2> QED
    BY <1>4, <2>1, <2>2 DEF Due
<1> QED
  BY <1>3, <1>4 DEF old, new

\* Appended units of w that begin with the one that is due, each one after the
\* one before it, are in step with the others.
LEMMA AppendKeeps ==
  ASSUME NEW S, NEW q \in Seq(S), NEW r \in Seq(S), NEW w, r # <<>>, Only(w, r),
         InStep(w, q), Due(w, q, r[1]),
         \A k \in 1..(Len(r) - 1) : r[k + 1] = After(r[k])
  PROVE  InStep(w, q \o r)
<1> DEFINE all == q \o r
<1>1. /\ Len(q) \in Nat /\ Len(r) \in Nat \ {0} /\ DOMAIN all = 1..(Len(q) + Len(r))
      /\ DOMAIN q = 1..Len(q) /\ DOMAIN r = 1..Len(r) /\ \A i \in 1..Len(q) : all[i] = q[i]
      /\ \A i \in 1..Len(r) : all[Len(q) + i] = r[i]
  BY Joined, EmptySeq
<1> HIDE DEF all
<1>2. \A i \in PlacesOf(w, q) : i \in 1..Len(q) /\ i \in PlacesOf(w, all) /\ all[i] = q[i]
  BY <1>1 DEF PlacesOf
<1>3. \A i \in PlacesOf(w, all) :
        i \in 1..(Len(q) + Len(r)) /\ (i \in PlacesOf(w, q) \/ i > Len(q))
  BY <1>1 DEF PlacesOf
<1>4. ASSUME NEW i \in (Len(q) + 1)..(Len(q) + Len(r))
      PROVE  i \in PlacesOf(w, all) /\ all[i] = r[i - Len(q)] /\ i - Len(q) \in 1..Len(r)
  <2>1. /\ i - Len(q) \in 1..Len(r) /\ i = Len(q) + (i - Len(q))
        /\ i \in 1..(Len(q) + Len(r))
    BY <1>1
  <2>2. all[i] = r[i - Len(q)]
    BY <1>1, <2>1
  <2> QED
    BY <1>1, <2>1, <2>2 DEF Only, PlacesOf
<1> SUFFICES ASSUME NEW j \in PlacesOf(w, all)
             PROVE  \/ all[j] = Part(w, 1, 1) /\ \A i \in PlacesOf(w, all) : i >= j
                    \/ \E i \in PlacesOf(w, all) :
                         /\ i < j /\ all[j] = After(all[i])
                         /\ \A k \in PlacesOf(w, all) : k <= i \/ k >= j
  BY DEF InStep, all
<1>5. CASE j \in PlacesOf(w, q)
  <2>1. CASE q[j] = Part(w, 1, 1) /\ \A i \in PlacesOf(w, q) : i >= j
    BY <1>1, <1>2, <1>3, <1>5, <2>1
  <2>2. ASSUME NEW i \in PlacesOf(w, q), i < j, q[j] = After(q[i]),
               \A k \in PlacesOf(w, q) : k <= i \/ k >= j
        PROVE  \E h \in PlacesOf(w, all) : /\ h < j /\ all[j] = After(all[h])
                                          /\ \A k \in PlacesOf(w, all) : k <= h \/ k >= j
    BY <1>1, <1>2, <1>3, <1>5, <2>2
  <2> QED
    BY <1>5, <2>1, <2>2 DEF InStep
<1>6. CASE j = Len(q) + 1
  <2>1. j \in (Len(q) + 1)..(Len(q) + Len(r)) /\ j - Len(q) = 1
    BY <1>1, <1>6
  <2>2. all[j] = r[1]
    BY <1>4, <2>1
  <2>3. CASE PlacesOf(w, q) = {} /\ r[1] = Part(w, 1, 1)
    BY <1>1, <1>3, <1>6, <2>2, <2>3
  <2>4. ASSUME NEW i \in PlacesOf(w, q), r[1] = After(q[i]), \A k \in PlacesOf(w, q) : k <= i
        PROVE  \E h \in PlacesOf(w, all) : /\ h < j /\ all[j] = After(all[h])
                                          /\ \A k \in PlacesOf(w, all) : k <= h \/ k >= j
    BY <1>1, <1>2, <1>3, <1>6, <2>2, <2>4
  <2> QED
    BY <2>3, <2>4 DEF Due
<1>7. CASE j > Len(q) + 1
  <2>1. /\ j \in (Len(q) + 1)..(Len(q) + Len(r)) /\ j - 1 \in (Len(q) + 1)..(Len(q) + Len(r))
        /\ j - 1 - Len(q) \in 1..(Len(r) - 1) /\ (j - 1 - Len(q)) + 1 = j - Len(q)
    BY <1>1, <1>3, <1>7
  <2>2. all[j] = r[j - Len(q)] /\ all[j - 1] = r[j - 1 - Len(q)] /\ j - 1 \in PlacesOf(w, all)
    BY <1>4, <2>1
  <2>3. all[j] = After(all[j - 1])
    BY <2>1, <2>2
  <2>4. \A k \in PlacesOf(w, all) : k <= j - 1 \/ k >= j
    BY <1>1, <1>3, <2>1
  <2>5. j - 1 < j
    BY <1>1, <2>1
  <2> QED
    BY <2>2, <2>3, <2>4, <2>5
<1> QED
  BY <1>1, <1>3, <1>5, <1>6, <1>7

\* After units of w the one after the last of them is due.
LEMMA DueAfter ==
  ASSUME NEW S, NEW q \in Seq(S), NEW r \in Seq(S), NEW w, r # <<>>, Only(w, r)
  PROVE  Due(w, q \o r, After(r[Len(r)]))
<1> DEFINE all == q \o r
<1>1. /\ Len(q) \in Nat /\ Len(r) \in Nat \ {0} /\ DOMAIN all = 1..(Len(q) + Len(r))
      /\ DOMAIN r = 1..Len(r) /\ all[Len(q) + Len(r)] = r[Len(r)]
  BY Joined, EmptySeq
<1> HIDE DEF all
<1>2. Len(q) + Len(r) \in PlacesOf(w, all)
  BY <1>1 DEF PlacesOf, Only
<1>3. \A k \in PlacesOf(w, all) : k <= Len(q) + Len(r)
  BY <1>1 DEF PlacesOf
<1> QED
  BY <1>1, <1>2, <1>3 DEF Due, all

------------------------------------------------------------------------------
(* Order of a stream: the steps                                            *)

\* A SendToPeer's units: written, buffered, and in the argument of Write.
Line(s) == conn \o buf[s] \o arg[s]

\* What the argument a of Write may be in frame f: the header of the frame, or the
\* last part of its ciphertext.
Argument(s, f, a) ==
  \/ a = <<Part(s, f, 1)>>
  \/ a # <<>> /\ a[Len(a)] = Part(s, f, LenOf(s, f)) /\ \A i \in DOMAIN a : a[i].part # 1

\* Where a SendToPeer stands, with which frame, argument and buffer, and what
\* comes after its line so far.
Stands(s, at, f, a, b, line) ==
  /\ Only(s, a) /\ Only(s, b)
  /\ at = "frame" => a = <<>> /\ Due(s, line, Part(s, f + 1, 1))
  /\ at \in {"write", "flush"} => Argument(s, f, a)
  /\ at \in {"done", "failed"} => a = <<>> /\ b = <<>>

InLine(s) == InStep(s, Line(s)) /\ Stands(s, send[s], frame[s], arg[s], buf[s], Line(s))

OrderInv == WireTypes /\ \A s \in Streams : InLine(s)

\* Nothing of the order is about the state but for the lengths of the frames.
LEMMA OrderOfLengths ==
  ASSUME lens' = lens, NEW s, InStep(s, Line(s)') , 
         Stands(s, send'[s], frame'[s], arg'[s], buf'[s], Line(s)')
  PROVE  InLine(s)'
<1>1. InStep(s, Line(s))'
  BY DEF InStep, After, LenOf
<1>2. Stands(s, send[s], frame[s], arg[s], buf[s], Line(s))'
  BY DEF Stands, Argument, Due, After, LenOf
<1> QED
  BY <1>1, <1>2 DEF InLine

\* Units joined into a line, whichever way.  The provers get on best with a
\* concatenation that they do not look into.
Join(x, y) == x \o y

LEMMA JoinAssociative ==
  \A x, y, z \in Seq(Units) : Join(Join(x, y), z) = Join(x, Join(y, z))
<1>1. \A x, y, z \in Seq(Units) : (x \o y) \o z = x \o (y \o z)
  BY ConcatAssociative, SMTT(30)
<1> QED
  BY <1>1 DEF Join

LEMMA JoinEmpty == \A x \in Seq(Units) : x \o <<>> = x
  BY ConcatEmptySeq

LEMMA JoinType == \A x, y \in Seq(Units) : x \o y \in Seq(Units)
  BY ConcatProperties

\* A stream that does not move is left in line by what others write.
LEMMA OthersStay ==
  ASSUME OrderInv, NEW x \in Seq(Units), conn' = conn \o x, lens' = lens,
         NEW v, Only(v, x), NEW t \in Streams, t # v,
         send'[t] = send[t], frame'[t] = frame[t], arg'[t] = arg[t], buf'[t] = buf[t]
  PROVE  InLine(t)'
<1> DEFINE b == buf[t]
           a == arg[t]
           new == (conn \o x) \o (b \o a)
<1>1. conn \in Seq(Units) /\ b \in Seq(Units) /\ a \in Seq(Units)
  BY InHand DEF OrderInv
<1>2. Line(t) = (conn \o b) \o a /\ Line(t)' = ((conn \o x) \o b) \o a
  BY DEF Line
<1> HIDE DEF a, b
<1>3. b \o a \in Seq(Units) /\ Line(t) = conn \o (b \o a)
  <2>1. b \o a \in Seq(Units)
    BY <1>1, JoinType, Zenon
  <2>2. (conn \o b) \o a = conn \o (b \o a)
    <3>1. Join(Join(conn, b), a) = Join(conn, Join(b, a))
      BY <1>1, JoinAssociative, SMT
    <3> QED
      BY <3>1 DEF Join
  <2> QED
    BY <1>2, <2>1, <2>2, Zenon
<1>4. new = Line(t)'
  <2> DEFINE c == conn \o x
  <2>1. c \in Seq(Units)
    BY <1>1, JoinType, Zenon
  <2>2. new = c \o (b \o a) /\ Line(t)' = (c \o b) \o a
    BY <1>2
  <2> HIDE DEF c, new
  <2>3. (c \o b) \o a = c \o (b \o a)
    <3>1. c \in Seq(Units) /\ b \in Seq(Units) /\ a \in Seq(Units)
      BY <1>1, <2>1
    <3> QED
      <4>1. Join(Join(c, b), a) = Join(c, Join(b, a))
        BY <3>1, JoinAssociative, SMT
      <4> QED
        BY <4>1 DEF Join
  <2> QED
    BY <2>2, <2>3
<1>5. InStep(t, Line(t)) => InStep(t, new)
  BY <1>1, <1>3, InsertKeeps
<1>6. \A u : Due(t, Line(t), u) => Due(t, new, u)
  BY <1>1, <1>3, InsertKeeps
<1> HIDE DEF new
<1>7. InStep(t, Line(t)) /\ Stands(t, send[t], frame[t], arg[t], buf[t], Line(t))
  BY DEF OrderInv, InLine
<1>8. InStep(t, new)
  BY <1>5, <1>7
<1>9. Stands(t, send[t], frame[t], arg[t], buf[t], new)
  BY <1>6, <1>7 DEF Stands
<1> QED
  BY <1>4, <1>8, <1>9, OrderOfLengths

\* A move after which the stream that moved is in line.
LEMMA MoveKeepsLine ==
  ASSUME OrderInv, NEW s \in Streams, NEW at, NEW f, NEW a, NEW b, NEW x \in Seq(Units),
         Moves(s, at, f, a, b, x), Only(s, x),
         InStep(s, (conn \o x) \o b \o a), Stands(s, at, f, a, b, (conn \o x) \o b \o a)
  PROVE  \A t \in Streams : InLine(t)'
<1>1. lens' = lens /\ conn' = conn \o x
  BY DEF Moves
<1>2. send'[s] = at /\ frame'[s] = f /\ arg'[s] = a /\ buf'[s] = b
  BY DEF Moves, OrderInv, WireTypes, TypeOK
<1>3. Line(s)' = (conn \o x) \o b \o a
  BY <1>1, <1>2 DEF Line
<1>4. InLine(s)'
  BY <1>1, <1>2, <1>3, OrderOfLengths
<1>5. ASSUME NEW t \in Streams, t # s
      PROVE  InLine(t)'
  <2>1. /\ send'[t] = send[t] /\ frame'[t] = frame[t] /\ arg'[t] = arg[t] /\ buf'[t] = buf[t]
    BY <1>5 DEF Moves, OrderInv, WireTypes, TypeOK
  <2> QED
    BY <1>1, <1>5, <2>1, OthersStay
<1> QED
  BY <1>4, <1>5

\* The pieces of a line, when the buffer takes the argument, ...
LEMMA RegroupCopy ==
  \A q, b, a \in Seq(Units) : Join(Join(q, <<>>), Join(b, a)) = Join(Join(q, b), a)
<1> SUFFICES ASSUME NEW q \in Seq(Units), NEW b \in Seq(Units), NEW a \in Seq(Units)
             PROVE  (q \o <<>>) \o (b \o a) = q \o b \o a
  BY DEF Join
<1>1. q \o <<>> = q
  BY JoinEmpty, Zenon
<1>2. q \o (b \o a) = q \o b \o a
  <2>1. Join(Join(q, b), a) = Join(q, Join(b, a))
    BY JoinAssociative, SMT
  <2> QED
    BY <2>1 DEF Join
<1> QED
  BY <1>1, <1>2, Zenon

LEMMA LineType == \A q, b, a \in Seq(Units) : q \o b \o a \in Seq(Units)
<1> SUFFICES ASSUME NEW q \in Seq(Units), NEW b \in Seq(Units), NEW a \in Seq(Units)
             PROVE  q \o b \o a \in Seq(Units)
  OBVIOUS
<1>1. q \o b \in Seq(Units)
  BY JoinType, Zenon
<1> QED
  BY <1>1, JoinType, Zenon

\* ... when nothing of it is left, ...
LEMMA RegroupLast ==
  \A q, b, a \in Seq(Units) :
    Join(Join(Join(q, <<>>), Join(b, a)), <<>>) = Join(Join(q, b), a)
<1> SUFFICES ASSUME NEW q \in Seq(Units), NEW b \in Seq(Units), NEW a \in Seq(Units)
             PROVE  Join(Join(Join(q, <<>>), Join(b, a)), <<>>) = Join(Join(q, b), a)
  OBVIOUS
<1>1. q \o b \o a \in Seq(Units)
  BY LineType, Zenon
<1>2. (q \o b \o a) \o <<>> = q \o b \o a
  BY <1>1, JoinEmpty, Zenon
<1>3. Join(Join(q, <<>>), Join(b, a)) = Join(Join(q, b), a)
  BY RegroupCopy, SMT
<1>4. Join(Join(Join(q, b), a), <<>>) = Join(Join(q, b), a)
  BY <1>2 DEF Join
<1> QED
  BY <1>3, <1>4, SMT

\* ... and when it is written out.
LEMMA RegroupFlush ==
  \A q, b, a \in Seq(Units) : (q \o b) \o <<>> \o a = q \o b \o a
<1> SUFFICES ASSUME NEW q \in Seq(Units), NEW b \in Seq(Units), NEW a \in Seq(Units)
             PROVE  (q \o b) \o <<>> \o a = q \o b \o a
  OBVIOUS
<1>1. q \o b \in Seq(Units)
  BY JoinType, Zenon
<1>2. (q \o b) \o <<>> = q \o b
  BY <1>1, JoinEmpty, Zenon
<1> QED
  BY <1>2, Zenon

\* What comes after the units of a frame.
LEMMA AfterUnits ==
  ASSUME TypeOK, NEW s \in Streams, NEW f \in 1..Len(lens)
  PROVE  /\ \A k \in 1..(LenOf(s, f) - 1) : After(Part(s, f, k)) = Part(s, f, k + 1)
         /\ After(Part(s, f, LenOf(s, f))) = Part(s, f + 1, 1)
<1>1. LenOf(s, f) \in Nat \ {0, 1} /\ f \in Nat
  BY LenOfType
<1>2. ASSUME NEW k \in 1..(LenOf(s, f) - 1)
      PROVE  After(Part(s, f, k)) = Part(s, f, k + 1)
  BY <1>1, <1>2 DEF After, Part
<1>3. After(Part(s, f, LenOf(s, f))) = Part(s, f + 1, 1)
  <2> DEFINE n == LenOf(s, f)
             u == Part(s, f, n)
  <2>1. n \in Nat /\ ~(n < n)
    BY <1>1
  <2>2. u.of = s /\ u.frame = f /\ u.part = n
    BY DEF Part
  <2>3. After(u) = [u EXCEPT !.frame = f + 1, !.part = 1]
    BY <2>1, <2>2 DEF After
  <2> HIDE DEF n
  <2> QED
    BY <2>3 DEF Part, n
<1> QED
  BY <1>2, <1>3

\* The first Write of a frame: the header is what was due.
LEMMA LineOfBegin ==
  ASSUME OrderInv, NEW s \in Streams, BeginFrame(s),
         Moves(s, "write", frame[s] + 1, <<Part(s, frame[s] + 1, 1)>>, buf[s], <<>>)
  PROVE  \A t \in Streams : InLine(t)'
<1> DEFINE f == frame[s] + 1
           u == Part(s, f, 1)
           b == buf[s]
           line == conn \o b
<1>1. conn \in Seq(Units) /\ b \in Seq(Units) /\ f \in 1..Len(lens)
  BY InHand DEF OrderInv, BeginFrame
<1>2. /\ InStep(s, Line(s)) /\ Only(s, b) /\ arg[s] = <<>> /\ Due(s, Line(s), u)
  BY DEF OrderInv, InLine, Stands, BeginFrame
<1>3. u \in Units /\ u.of = s
  BY <1>1, FrameProperties DEF OrderInv, WireTypes, Part
<1>4. Line(s) = conn \o b \o <<>>
  BY <1>2 DEF Line
<1> HIDE DEF b, f, u
<1>5. line \in Seq(Units) /\ Line(s) = line /\ (conn \o <<>>) \o b = line
  BY <1>1, <1>4, ConcatEmptySeq, ConcatProperties
<1> HIDE DEF line
<1>6. /\ <<u>> \in Seq(Units) /\ <<u>> # <<>> /\ Only(s, <<u>>) /\ Len(<<u>>) = 1 /\ <<u>>[1] = u
      /\ \A k \in 1..(Len(<<u>>) - 1) : <<u>>[k + 1] = After(<<u>>[k])
  BY <1>3 DEF Only
<1>7. InStep(s, line \o <<u>>)
  BY <1>2, <1>5, <1>6, AppendKeeps
<1>8. Only(s, <<>>) /\ <<>> \in Seq(Units)
  BY EmptySeq DEF Only
<1>9. InStep(s, (conn \o <<>>) \o b \o <<u>>)
  BY <1>5, <1>7
<1>10. Stands(s, "write", f, <<u>>, b, (conn \o <<>>) \o b \o <<u>>)
  BY <1>2, <1>6 DEF Stands, Argument, u
<1>11. Moves(s, "write", f, <<u>>, b, <<>>)
  BY DEF f, u, b
<1> QED
  BY <1>8, <1>9, <1>10, <1>11, MoveKeepsLine

\* The header is copied, and the ciphertext is what was due.
LEMMA LineOfHeader ==
  ASSUME OrderInv, NEW s \in Streams, CopyAll(s), arg[s][1].part = 1,
         Moves(s, "write", frame[s], Payload(s), buf[s] \o arg[s], <<>>)
  PROVE  \A t \in Streams : InLine(t)'
<1> DEFINE f == frame[s]
           n == LenOf(s, f)
           b == buf[s]
           a == arg[s]
           p == Payload(s)
<1>1. /\ conn \in Seq(Units) /\ b \in Seq(Units) /\ a \in Seq(Units) /\ f \in 1..Len(lens)
      /\ Line(s) = conn \o b \o a
  BY InHand DEF OrderInv, CopyAll, Line
<1>2. /\ InStep(s, Line(s)) /\ Only(s, b) /\ Only(s, a) /\ Argument(s, f, a)
  BY DEF OrderInv, InLine, Stands, CopyAll
<1>3. a = <<Part(s, f, 1)>>
  <2>1. CASE a # <<>> /\ \A i \in DOMAIN a : a[i].part # 1
    <3>1. 1 \in DOMAIN a
      BY <1>1, <2>1, EmptySeq
    <3> QED
      BY <2>1, <3>1
  <2> QED
    BY <1>2, <2>1 DEF Argument
<1>4. /\ n \in Nat \ {0, 1} /\ p \in Seq(Units) /\ Len(p) = n - 1
      /\ \A k \in 1..(n - 1) : p[k] = Part(s, f, k + 1)
  BY <1>1, FrameProperties DEF OrderInv, WireTypes, Payload
<1>5. /\ \A k \in 1..(n - 1) : After(Part(s, f, k)) = Part(s, f, k + 1)
      /\ After(Part(s, f, n)) = Part(s, f + 1, 1)
  BY <1>1, AfterUnits DEF OrderInv, WireTypes
<1> HIDE DEF f, n, b, a, p
<1>6. p # <<>> /\ DOMAIN p = 1..(n - 1) /\ 1 \in 1..(n - 1)
  BY <1>4, EmptySeq
<1>7. Only(s, p)
  BY <1>4, <1>6 DEF Only, Part
<1>8. \A k \in 1..(Len(p) - 1) : p[k + 1] = After(p[k])
  <2> SUFFICES ASSUME NEW k \in 1..(Len(p) - 1)
               PROVE  p[k + 1] = After(p[k])
    OBVIOUS
  <2>1. k \in 1..(n - 1) /\ k + 1 \in 1..(n - 1)
    BY <1>4
  <2> QED
    BY <1>4, <1>5, <2>1
<1>9. Due(s, Line(s), p[1])
  <2>1. a # <<>> /\ Len(a) = 1 /\ a[Len(a)] = Part(s, f, 1)
    BY <1>3
  <2>2. After(Part(s, f, 1)) = p[1]
    BY <1>4, <1>5, <1>6
  <2>3. conn \o b \in Seq(Units)
    BY <1>1, ConcatProperties
  <2> DEFINE q == conn \o b
  <2>4. q \in Seq(Units) /\ a \in Seq(Units) /\ a # <<>> /\ Only(s, a)
    BY <1>1, <1>2, <2>1, <2>3
  <2> HIDE DEF q
  <2>5. Due(s, q \o a, After(a[Len(a)]))
    BY <2>4, DueAfter
  <2> QED
    BY <1>1, <2>1, <2>2, <2>5 DEF q
<1>10. (conn \o <<>>) \o (b \o a) = Line(s) /\ Line(s) \in Seq(Units)
  <2>1. (conn \o <<>>) \o (b \o a) = conn \o b \o a
    <3>1. Join(Join(conn, <<>>), Join(b, a)) = Join(Join(conn, b), a)
      BY <1>1, RegroupCopy, SMT
    <3> QED
      BY <3>1 DEF Join
  <2>2. conn \o b \o a \in Seq(Units)
    BY <1>1, LineType, Zenon
  <2> QED
    BY <1>1, <2>1, <2>2, Zenon
<1>11. InStep(s, (conn \o <<>>) \o (b \o a) \o p)
  BY <1>2, <1>4, <1>6, <1>7, <1>8, <1>9, <1>10, AppendKeeps
<1>12. Only(s, b \o a) /\ Only(s, <<>>) /\ <<>> \in Seq(Units)
  BY <1>1, <1>2, OnlyJoined, EmptySeq DEF Only
<1>13. Argument(s, f, p)
  <2>1. Len(p) \in 1..(n - 1) /\ p[Len(p)] = Part(s, f, n)
    BY <1>4
  <2>2. \A i \in DOMAIN p : p[i].part # 1
    BY <1>4, <1>6 DEF Part
  <2> QED
    BY <1>6, <2>1, <2>2 DEF Argument, n
<1>14. Stands(s, "write", f, p, b \o a, (conn \o <<>>) \o (b \o a) \o p)
  BY <1>7, <1>12, <1>13 DEF Stands
<1>15. Moves(s, "write", f, p, b \o a, <<>>)
  BY DEF f, p, b, a
<1> QED
  BY <1>11, <1>12, <1>14, <1>15, MoveKeepsLine

\* The rest of the ciphertext is copied, and the next frame is due.
LEMMA LineOfLast ==
  ASSUME OrderInv, NEW s \in Streams, CopyAll(s), arg[s][1].part # 1,
         Moves(s, "frame", frame[s], <<>>, buf[s] \o arg[s], <<>>)
  PROVE  \A t \in Streams : InLine(t)'
<1> DEFINE f == frame[s]
           b == buf[s]
           a == arg[s]
<1>1. /\ conn \in Seq(Units) /\ b \in Seq(Units) /\ a \in Seq(Units) /\ f \in 1..Len(lens)
      /\ Line(s) = conn \o b \o a
  BY InHand DEF OrderInv, CopyAll, Line
<1>2. /\ InStep(s, Line(s)) /\ Only(s, b) /\ Only(s, a) /\ Argument(s, f, a)
  BY DEF OrderInv, InLine, Stands, CopyAll
<1>3. a # <<>> /\ a[Len(a)] = Part(s, f, LenOf(s, f))
  BY <1>2 DEF Argument, Part
<1>4. After(a[Len(a)]) = Part(s, f + 1, 1)
  BY <1>1, <1>3, AfterUnits DEF OrderInv, WireTypes
<1> HIDE DEF f, b, a
<1>5. Due(s, Line(s), Part(s, f + 1, 1))
  <2>1. conn \o b \in Seq(Units)
    BY <1>1, ConcatProperties
  <2> DEFINE q == conn \o b
  <2>2. q \in Seq(Units) /\ a \in Seq(Units) /\ a # <<>> /\ Only(s, a)
    BY <1>1, <1>2, <1>3, <2>1
  <2> HIDE DEF q
  <2>3. Due(s, q \o a, After(a[Len(a)]))
    BY <2>2, DueAfter
  <2> QED
    BY <1>1, <1>4, <2>3 DEF q
<1>6. (conn \o <<>>) \o (b \o a) \o <<>> = Line(s)
  <2>1. (conn \o <<>>) \o (b \o a) \o <<>> = conn \o b \o a
    <3>1. Join(Join(Join(conn, <<>>), Join(b, a)), <<>>) = Join(Join(conn, b), a)
      BY <1>1, RegroupLast, SMT
    <3> QED
      BY <3>1 DEF Join
  <2> QED
    BY <1>1, <2>1, Zenon
<1>7. Only(s, b \o a) /\ Only(s, <<>>) /\ <<>> \in Seq(Units)
  BY <1>1, <1>2, OnlyJoined, EmptySeq DEF Only
<1>8. Stands(s, "frame", f, <<>>, b \o a, (conn \o <<>>) \o (b \o a) \o <<>>)
  BY <1>5, <1>6, <1>7 DEF Stands
<1>9. InStep(s, (conn \o <<>>) \o (b \o a) \o <<>>)
  BY <1>2, <1>6
<1>10. Moves(s, "frame", f, <<>>, b \o a, <<>>)
  BY DEF f, b, a
<1> QED
  BY <1>7, <1>8, <1>9, <1>10, MoveKeepsLine

\* The buffer is filled up from the argument.
LEMMA LineOfFill ==
  ASSUME OrderInv, NEW s \in Streams, Fill(s),
         Moves(s, "flush", frame[s], Rest(s), buf[s] \o Front(s), <<>>)
  PROVE  \A t \in Streams : InLine(t)'
<1> DEFINE f == frame[s]
           b == buf[s]
           a == arg[s]
           front == Front(s)
           rest == Rest(s)
<1>1. /\ conn \in Seq(Units) /\ b \in Seq(Units) /\ a \in Seq(Units) /\ f \in 1..Len(lens)
      /\ Line(s) = conn \o b \o a /\ b # <<>> /\ Len(a) > Room(s) /\ Room(s) \in Nat
  BY InHand DEF OrderInv, Fill, Line
<1>2. /\ InStep(s, Line(s)) /\ Only(s, b) /\ Only(s, a) /\ Argument(s, f, a)
  BY DEF OrderInv, InLine, Stands, Fill
<1>3. /\ front \in Seq(Units) /\ rest \in Seq(Units) /\ front \o rest = a
      /\ Len(front) = Room(s) /\ Len(rest) = Len(a) - Room(s)
      /\ \A i \in 1..Len(rest) : rest[i] = a[Room(s) + i]
  BY <1>1, SplitArg DEF OrderInv
<1>4. Moves(s, "flush", f, rest, b \o front, <<>>)
  BY DEF f, b, front, rest
<1> HIDE DEF f, b, a, front, rest
<1>5. (conn \o <<>>) \o (b \o front) \o rest = Line(s)
  <2>0. conn \in Seq(Units) /\ b \in Seq(Units) /\ front \in Seq(Units) /\ rest \in Seq(Units)
    BY <1>1, <1>3
  <2>1. (conn \o <<>>) \o (b \o front) = conn \o b \o front
    <3>1. conn \in Seq(Units) /\ b \in Seq(Units) /\ front \in Seq(Units)
      BY <2>0
    <3> QED
      <4>1. Join(Join(conn, <<>>), Join(b, front)) = Join(Join(conn, b), front)
        BY <3>1, RegroupCopy, SMT
      <4> QED
        BY <4>1 DEF Join
  <2>2. conn \o b \in Seq(Units)
    BY <2>0, JoinType, Zenon
  <2>3. ((conn \o b) \o front) \o rest = (conn \o b) \o (front \o rest)
    <3> DEFINE q == conn \o b
    <3>1. q \in Seq(Units) /\ front \in Seq(Units) /\ rest \in Seq(Units)
      BY <2>0, <2>2
    <3> HIDE DEF q
    <3>2. Join(Join(q, front), rest) = Join(q, Join(front, rest))
      BY <3>1, JoinAssociative, SMT
    <3> QED
      BY <3>2 DEF Join, q
  <2> QED
    BY <1>1, <1>3, <2>1, <2>3, Zenon
<1>6. Only(s, b \o front) /\ Only(s, rest) /\ Only(s, <<>>) /\ <<>> \in Seq(Units)
  <2>1. Only(s, front \o rest)
    BY <1>2, <1>3
  <2>2. Only(s, front) /\ Only(s, rest)
    BY <1>3, <2>1, OnlyJoined
  <2>3. Only(s, b \o front)
    BY <1>1, <1>2, <1>3, <2>2, OnlyJoined
  <2> QED
    BY <2>2, <2>3, EmptySeq DEF Only
<1>7. Argument(s, f, rest)
  <2>1. Len(a) \in Nat /\ Len(rest) \in Nat \ {0} /\ rest # <<>>
    BY <1>1, <1>3
  <2>2. CASE a = <<Part(s, f, 1)>>
    <3>1. Len(a) = 1 /\ Room(s) = 0 /\ Len(rest) = 1
      BY <1>1, <1>3, <2>2
    <3>2. rest[1] = a[1] /\ a[1] = Part(s, f, 1)
      BY <1>3, <2>2, <3>1
    <3>3. rest = <<Part(s, f, 1)>>
      BY <1>3, <3>1, <3>2
    <3> QED
      BY <3>3 DEF Argument
  <2>3. CASE a[Len(a)] = Part(s, f, LenOf(s, f)) /\ \A i \in DOMAIN a : a[i].part # 1
    <3>1. rest[Len(rest)] = a[Len(a)]
      <4>1. Len(rest) \in 1..Len(rest) /\ Room(s) + Len(rest) = Len(a)
        BY <1>1, <1>3, <2>1, SMTT(30)
      <4> QED
        BY <1>3, <4>1
    <3>2. \A i \in DOMAIN rest : i \in 1..Len(rest) /\ Room(s) + i \in DOMAIN a
      <4> DEFINE room == Room(s)
                 m == Len(a)
                 k == Len(rest)
      <4>1. room \in Nat /\ m \in Nat /\ k \in Nat /\ k = m - room
        BY <1>1, <1>3, <2>1
      <4>2. \A i \in 1..k : room + i \in 1..m
        <5> HIDE DEF room, m, k
        <5> QED
          BY <4>1
      <4>3. DOMAIN rest = 1..k /\ DOMAIN a = 1..m
        BY <1>1, <1>3
      <4> QED
        BY <4>2, <4>3, Zenon
    <3>3. \A i \in DOMAIN rest : rest[i].part # 1
      BY <1>3, <2>3, <3>2
    <3> QED
      BY <2>1, <2>3, <3>1, <3>3 DEF Argument
  <2> QED
    BY <1>2, <2>2, <2>3 DEF Argument
<1>8. Stands(s, "flush", f, rest, b \o front, (conn \o <<>>) \o (b \o front) \o rest)
  BY <1>6, <1>7 DEF Stands
<1>9. InStep(s, (conn \o <<>>) \o (b \o front) \o rest)
  BY <1>2, <1>5
<1> QED
  BY <1>4, <1>6, <1>8, <1>9, MoveKeepsLine

\* The buffer goes to the connection: the line is the same.
LEMMA LineOfFlush ==
  ASSUME OrderInv, NEW s \in Streams, Flush(s),
         Moves(s, "write", frame[s], arg[s], <<>>, buf[s])
  PROVE  \A t \in Streams : InLine(t)'
<1> DEFINE f == frame[s]
           b == buf[s]
           a == arg[s]
<1>1. conn \in Seq(Units) /\ b \in Seq(Units) /\ a \in Seq(Units) /\ Line(s) = conn \o b \o a
  BY InHand DEF OrderInv, Line
<1>2. /\ InStep(s, Line(s)) /\ Only(s, b) /\ Only(s, a) /\ Argument(s, f, a)
  BY DEF OrderInv, InLine, Stands, Flush
<1>3. Moves(s, "write", f, a, <<>>, b)
  BY DEF f, b, a
<1> HIDE DEF f, b, a
<1>4. (conn \o b) \o <<>> \o a = Line(s)
  BY <1>1, RegroupFlush, Zenon
<1>5. Only(s, <<>>)
  BY EmptySeq DEF Only
<1>6. InStep(s, (conn \o b) \o <<>> \o a) /\ Stands(s, "write", f, a, <<>>, (conn \o b) \o <<>> \o a)
  BY <1>2, <1>4, <1>5 DEF Stands
<1> QED
  BY <1>1, <1>2, <1>3, <1>6, MoveKeepsLine

\* So it does at the end.
LEMMA LineOfEnd ==
  ASSUME OrderInv, NEW s \in Streams, EndFlush(s),
         Moves(s, "done", frame[s], arg[s], <<>>, buf[s])
  PROVE  \A t \in Streams : InLine(t)'
<1> DEFINE f == frame[s]
           b == buf[s]
           a == arg[s]
<1>1. conn \in Seq(Units) /\ b \in Seq(Units) /\ a \in Seq(Units) /\ Line(s) = conn \o b \o a
  BY InHand DEF OrderInv, Line
<1>2. InStep(s, Line(s)) /\ Only(s, b) /\ a = <<>>
  BY DEF OrderInv, InLine, Stands, EndFlush
<1>3. Moves(s, "done", f, a, <<>>, b)
  BY DEF f, b, a
<1> HIDE DEF f, b, a
<1>4. (conn \o b) \o <<>> \o a = Line(s)
  BY <1>1, RegroupFlush, Zenon
<1>5. Only(s, <<>>)
  BY EmptySeq DEF Only
<1>6. InStep(s, (conn \o b) \o <<>> \o a) /\ Stands(s, "done", f, a, <<>>, (conn \o b) \o <<>> \o a)
  BY <1>2, <1>4, <1>5 DEF Stands
<1> QED
  BY <1>1, <1>2, <1>3, <1>6, MoveKeepsLine

\* A line with an empty buffer.
LEMMA NothingBuffered ==
  ASSUME NEW q \in Seq(Units), NEW a \in Seq(Units), NEW b, b = <<>>
  PROVE  /\ q \o b \o a = q \o a /\ q \o a \in Seq(Units)
         /\ (q \o a) \o b \o <<>> = q \o a
<1>1. q \o b = q
  BY JoinEmpty, Zenon
<1>2. q \o a \in Seq(Units)
  BY JoinType, Zenon
<1>3. (q \o a) \o <<>> = q \o a
  BY <1>2, JoinEmpty, Zenon
<1> QED
  BY <1>1, <1>2, <1>3, Zenon

\* The argument passes the empty buffer by.  It is not a header, which always
\* fits, so the next frame is due.
LEMMA LineOfDirect ==
  ASSUME OrderInv, NEW s \in Streams, Direct(s),
         Moves(s, "frame", frame[s], <<>>, buf[s], arg[s])
  PROVE  \A t \in Streams : InLine(t)'
<1> DEFINE f == frame[s]
           b == buf[s]
           a == arg[s]
<1>1. /\ conn \in Seq(Units) /\ a \in Seq(Units) /\ f \in 1..Len(lens) /\ b = <<>>
      /\ Line(s) = conn \o b \o a
  BY InHand DEF OrderInv, Line, Direct
<1>2. InStep(s, Line(s)) /\ Only(s, b) /\ Only(s, a) /\ Argument(s, f, a)
  BY DEF OrderInv, InLine, Stands, Direct
<1>3. Len(a) > BufSize
  BY InHand DEF OrderInv, Direct, Room
<1>4. Moves(s, "frame", f, <<>>, b, a)
  BY DEF f, b, a
<1> HIDE DEF f, b, a
<1>5. a # <<>> /\ a[Len(a)] = Part(s, f, LenOf(s, f))
  <2>1. a # <<Part(s, f, 1)>>
    <3>1. Len(<<Part(s, f, 1)>>) = 1 /\ ~(1 > BufSize)
      OBVIOUS
    <3> QED
      BY <1>3, <3>1
  <2> QED
    BY <1>2, <2>1 DEF Argument
<1>6. After(a[Len(a)]) = Part(s, f + 1, 1)
  BY <1>1, <1>5, AfterUnits DEF OrderInv, WireTypes
<1>7. Due(s, conn \o a, Part(s, f + 1, 1))
  BY <1>1, <1>2, <1>5, <1>6, DueAfter
<1>8. Line(s) = conn \o a /\ (conn \o a) \o b \o <<>> = conn \o a
  BY <1>1, NothingBuffered
<1>9. Only(s, <<>>) /\ <<>> \in Seq(Units)
  BY EmptySeq DEF Only
<1>10. InStep(s, (conn \o a) \o b \o <<>>) /\ Stands(s, "frame", f, <<>>, b, (conn \o a) \o b \o <<>>)
  BY <1>2, <1>7, <1>8, <1>9 DEF Stands
<1> QED
  BY <1>1, <1>2, <1>4, <1>10, MoveKeepsLine

\* What a Write that times out gets onto the connection is the front of the line.
LEMMA LineOfFailure ==
  ASSUME OrderInv, NEW s \in Streams, SendFails(s), NEW n \in 0..(Len(Outgoing(s)) - 1),
         Moves(s, "failed", frame[s], <<>>, <<>>, SubSeq(Outgoing(s), 1, n))
  PROVE  \A t \in Streams : InLine(t)'
<1> DEFINE b == buf[s]
           a == arg[s]
           out == Outgoing(s)
           x == SubSeq(out, 1, n)
           y == SubSeq(out, n + 1, Len(out))
           rest == IF send[s] = "write" THEN <<>> ELSE a
<1>1. conn \in Seq(Units) /\ b \in Seq(Units) /\ a \in Seq(Units) /\ Line(s) = conn \o b \o a
  BY InHand DEF OrderInv, Line
<1>2. InStep(s, Line(s)) /\ Only(s, b) /\ Only(s, a)
  BY DEF OrderInv, InLine, Stands
<1>3. out \in Seq(Units) /\ Len(out) \in Nat /\ Only(s, out)
  BY <1>1, <1>2, OutgoingPart DEF OrderInv, Outgoing
<1>4. x \in Seq(Units) /\ y \in Seq(Units) /\ x \o y = out
  <2>1. \A i \in (n + 1)..Len(out) : out[i] \in Units
    BY <1>3
  <2>2. x \in Seq(Units)
    BY OutgoingPart DEF OrderInv
  <2>3. y \in Seq(Units)
    BY <1>3, <2>1, SubSeqProperties
  <2>4. 1 \in 1..(Len(out) + 1) /\ n \in (1 - 1)..Len(out) /\ Len(out) \in n..Len(out)
    BY <1>3
  <2> QED
    BY <1>3, <2>2, <2>3, <2>4, ConcatAdjacentSubSeq, SubSeqFull
<1>5. send[s] = "write" => b = <<>> /\ out = a
  BY DEF SendFails, AboutToWrite, Outgoing
<1>6. send[s] # "write" => out = b
  BY DEF Outgoing
<1>7. Moves(s, "failed", frame[s], <<>>, <<>>, x)
  BY DEF x, out
<1> HIDE DEF b, a, out, x, y
<1>8. Line(s) = (conn \o out) \o rest /\ rest \in Seq(Units)
  <2>1. CASE send[s] = "write"
    <3>1. Line(s) = conn \o a /\ conn \o a \in Seq(Units)
      BY <1>1, <1>5, <2>1, NothingBuffered
    <3>2. (conn \o a) \o <<>> = conn \o a
      BY <3>1, JoinEmpty, Zenon
    <3>3. <<>> \in Seq(Units)
      BY EmptySeq
    <3> QED
      BY <1>5, <2>1, <3>1, <3>2, <3>3
  <2>2. CASE send[s] # "write"
    BY <1>1, <1>6, <2>2
  <2> QED
    BY <2>1, <2>2
<1> HIDE DEF rest
<1>9. Line(s) = (conn \o x) \o (y \o rest) /\ conn \o x \in Seq(Units) /\ y \o rest \in Seq(Units)
  <2> DEFINE c == conn \o x
  <2>0. conn \in Seq(Units) /\ x \in Seq(Units) /\ y \in Seq(Units)
    BY <1>1, <1>4
  <2>1. c \in Seq(Units) /\ y \in Seq(Units) /\ rest \in Seq(Units)
    BY <2>0, <1>8, JoinType, Zenon
  <2>2. c \o y = conn \o (x \o y)
    <3>1. Join(Join(conn, x), y) = Join(conn, Join(x, y))
      BY <2>0, JoinAssociative, SMT
    <3> QED
      BY <3>1 DEF Join, c
  <2> HIDE DEF c
  <2>3. (c \o y) \o rest = c \o (y \o rest)
    <3>1. Join(Join(c, y), rest) = Join(c, Join(y, rest))
      BY <2>1, JoinAssociative, SMT
    <3> QED
      BY <3>1 DEF Join
  <2>4. y \o rest \in Seq(Units)
    BY <2>1, JoinType, Zenon
  <2>5. Line(s) = c \o (y \o rest)
    BY <1>4, <1>8, <2>2, <2>3, Zenon
  <2> QED
    BY <2>1, <2>4, <2>5, Zenon DEF c
<1>10. InStep(s, conn \o x)
  BY <1>2, <1>9, InStepPrefix, ZenonT(40)
<1>11. Only(s, x) /\ Only(s, <<>>)
  <2>1. Only(s, x \o y)
    BY <1>3, <1>4
  <2>2. Only(s, x)
    BY <1>4, <2>1, OnlyJoined
  <2> QED
    BY <2>2, EmptySeq DEF Only
<1>12. (conn \o x) \o <<>> \o <<>> = conn \o x
  <2>1. (conn \o x) \o <<>> = conn \o x
    BY <1>9, JoinEmpty, Zenon
  <2> QED
    BY <2>1, Zenon
<1>13. /\ InStep(s, (conn \o x) \o <<>> \o <<>>)
       /\ Stands(s, "failed", frame[s], <<>>, <<>>, (conn \o x) \o <<>> \o <<>>)
  BY <1>10, <1>11, <1>12 DEF Stands
<1> QED
  BY <1>4, <1>7, <1>11, <1>13, MoveKeepsLine

\* Who gives up leaves what is on the connection, the front of the line.
LEMMA LineOfGivingUp ==
  ASSUME OrderInv, NEW s \in Streams, SendGivesUp(s),
         Moves(s, "failed", frame[s], arg[s], <<>>, <<>>)
  PROVE  \A t \in Streams : InLine(t)'
<1> DEFINE f == frame[s]
           b == buf[s]
           a == arg[s]
<1>1. conn \in Seq(Units) /\ b \in Seq(Units) /\ a \in Seq(Units) /\ Line(s) = conn \o b \o a
  BY InHand DEF OrderInv, Line
<1>2. InStep(s, Line(s)) /\ a = <<>>
  BY DEF OrderInv, InLine, Stands, SendGivesUp
<1>3. Moves(s, "failed", f, a, <<>>, <<>>)
  BY DEF f, a
<1> HIDE DEF f, b, a
<1>4. Line(s) = conn \o b /\ (conn \o <<>>) \o <<>> \o a = conn
  <2>1. conn \o <<>> = conn /\ conn \o b \in Seq(Units)
    BY <1>1, JoinEmpty, JoinType, Zenon
  <2>2. (conn \o b) \o <<>> = conn \o b
    BY <2>1, JoinEmpty, Zenon
  <2> QED
    BY <1>1, <1>2, <2>1, <2>2, Zenon
<1>5. InStep(s, conn)
  BY <1>1, <1>2, <1>4, InStepPrefix, ZenonT(40)
<1>6. Only(s, <<>>) /\ <<>> \in Seq(Units)
  BY EmptySeq DEF Only
<1>7. /\ InStep(s, (conn \o <<>>) \o <<>> \o a)
      /\ Stands(s, "failed", f, a, <<>>, (conn \o <<>>) \o <<>> \o a)
  BY <1>2, <1>4, <1>5, <1>6 DEF Stands
<1> QED
  BY <1>1, <1>3, <1>6, <1>7, MoveKeepsLine

\* Every step of a SendToPeer.
LEMMA LineOfSend ==
  ASSUME OrderInv, NEW s \in Streams, SendStep(s)
  PROVE  \A t \in Streams : InLine(t)'
<1>1. WireTypes
  BY DEF OrderInv
<1> QED
  BY <1>1, SendMoves, LineOfBegin, LineOfHeader, LineOfLast, LineOfFill, LineOfFlush,
     LineOfDirect, LineOfEnd, LineOfFailure, LineOfGivingUp

------------------------------------------------------------------------------
(* Order of a stream: the invariant                                        *)

\* What writeRawMessage writes is all its own.
LEMMA ControlWrites ==
  ASSUME WireTypes, NEW c \in Controls, Lock(c) \/ ControlStep(c)
  PROVE  /\ UNCHANGED <<lens, streamVars, recvVars>>
         /\ \E x \in Seq(Units) : conn' = conn \o x /\ Only(c, x)
<1> DEFINE u == Part(c, 1, 1)
           tail == Tail(FrameOf(c, 1))
<1>1. UNCHANGED <<lens, streamVars, recvVars>>
  BY DEF Lock, ControlStep, WriteHeader, WritePayload, ControlFails
<1>2. /\ conn \in Seq(Units) /\ u \in Units /\ u.of = c
      /\ tail \in Seq(Units) /\ Len(tail) = ControlLen - 1 /\ ControlLen \in Nat \ {0, 1}
      /\ DOMAIN tail = 1..(ControlLen - 1)
      /\ \A k \in 1..(ControlLen - 1) : tail[k] = Part(c, 1, k + 1)
  <2>1. conn \in Seq(Units) /\ TypeOK
    BY DEF WireTypes, TypeOK
  <2>2. LenOf(c, 1) = ControlLen
    BY <2>1, LenOfType
  <2>3. /\ u \in Units /\ tail \in Seq(Units) /\ Len(tail) = LenOf(c, 1) - 1
        /\ \A k \in 1..(LenOf(c, 1) - 1) : tail[k] = Part(c, 1, k + 1)
    BY <2>1, FrameProperties
  <2>4. u.of = c
    BY DEF Part
  <2>5. DOMAIN tail = 1..Len(tail)
    BY <2>3
  <2> QED
    BY <2>1, <2>2, <2>3, <2>4, <2>5
<1>3. conn = conn \o <<>> /\ <<>> \in Seq(Units) /\ Only(c, <<>>)
  BY <1>2, ConcatEmptySeq, EmptySeq DEF Only
<1> HIDE DEF u, tail
<1>4. Only(c, tail)
  BY <1>2 DEF Only, Part
<1>5. CASE UNCHANGED conn
  BY <1>1, <1>3, <1>5
<1>6. CASE conn' = Append(conn, u)
  <2>1. <<u>> \in Seq(Units) /\ Append(conn, u) = conn \o <<u>> /\ Only(c, <<u>>)
    BY <1>2, AppendIsConcat DEF Only
  <2> QED
    BY <1>1, <1>6, <2>1
<1>7. CASE conn' = conn \o tail
  BY <1>1, <1>2, <1>4, <1>7
<1>8. ASSUME NEW n \in 0..(ControlLen - 2), conn' = conn \o SubSeq(tail, 1, n)
      PROVE  \E x \in Seq(Units) : conn' = conn \o x /\ Only(c, x)
  <2>1. ASSUME NEW i \in 1..n
        PROVE  tail[i] \in Units /\ tail[i].of = c
    <3>1. i \in DOMAIN tail /\ i \in 1..Len(tail)
      BY <1>2
    <3>2. tail \in Seq(Units)
      BY <1>2
    <3> HIDE DEF Units
    <3> QED
      BY <1>4, <3>1, <3>2 DEF Only
  <2>2. n \in Int /\ n - 1 + 1 = n /\ (IF 1 <= n THEN n - 1 + 1 ELSE 0) = n
    BY <1>2
  <2>3. /\ SubSeq(tail, 1, n) \in Seq(Units) /\ Len(SubSeq(tail, 1, n)) = n
        /\ \A i \in 1..n : SubSeq(tail, 1, n)[i] = tail[1 + i - 1]
    BY <2>1, <2>2, SubSeqProperties
  <2>4. Only(c, SubSeq(tail, 1, n))
    BY <2>1, <2>3 DEF Only
  <2> QED
    BY <1>8, <2>3, <2>4
<1> QED
  BY <1>1, <1>5, <1>6, <1>7, <1>8
     DEF Lock, ControlStep, WriteHeader, WritePayload, ControlFails, u, tail

LEMMA OrderInit == Init => OrderInv
<1> SUFFICES ASSUME Init
             PROVE  OrderInv
  OBVIOUS
<1>1. WireTypes
  BY TypesInit
<1>2. ASSUME NEW s \in Streams
      PROVE  InLine(s)
  <2>1. /\ conn = <<>> /\ buf[s] = <<>> /\ arg[s] = <<>> /\ send[s] = "frame" /\ frame[s] = 0
    BY DEF Init
  <2>2. <<>> \o <<>> = <<>> /\ Line(s) = <<>>
    BY <2>1 DEF Line
  <2>3. PlacesOf(s, <<>>) = {} /\ Only(s, <<>>)
    BY DEF PlacesOf, Only
  <2>4. frame[s] + 1 = 1
    BY <2>1
  <2> QED
    BY <2>1, <2>2, <2>3, <2>4 DEF InLine, InStep, Stands, Due
<1> QED
  BY <1>1, <1>2 DEF OrderInv

LEMMA OrderStep == OrderInv /\ [Next]_vars => OrderInv'
<1> SUFFICES ASSUME OrderInv, [Next]_vars
             PROVE  OrderInv'
  OBVIOUS
<1>1. WireTypes
  BY DEF OrderInv
<1>2. WireTypes'
  BY <1>1, TypesStep
<1>3. ASSUME NEW s \in Streams, SendStep(s)
      PROVE  \A t \in Streams : InLine(t)'
  BY <1>3, LineOfSend
<1>4. ASSUME NEW c \in Controls, Lock(c) \/ ControlStep(c), NEW t \in Streams
      PROVE  InLine(t)'
  <2>1. t # c
    OBVIOUS
  <2>2. UNCHANGED <<lens, streamVars>>
    BY <1>1, <1>4, ControlWrites
  <2>3. PICK x \in Seq(Units) : conn' = conn \o x /\ Only(c, x)
    BY <1>1, <1>4, ControlWrites
  <2> QED
    BY <2>1, <2>2, <2>3, OthersStay DEF streamVars
<1>5. ASSUME ReadFrame \/ ReadLost \/ UNCHANGED vars, NEW t \in Streams
      PROVE  InLine(t)'
  <2>1. lens' = lens /\ conn' = conn /\ UNCHANGED streamVars
    BY <1>5 DEF ReadFrame, ReadLost, vars, streamVars
  <2>2. Line(t)' = Line(t)
    BY <2>1 DEF Line, streamVars
  <2>3. InLine(t)
    BY DEF OrderInv
  <2> QED
    BY <2>1, <2>2, <2>3, OrderOfLengths DEF InLine, streamVars
<1>6. \A t \in Streams : InLine(t)'
  BY <1>3, <1>4, <1>5 DEF Next
<1> QED
  BY <1>2, <1>6 DEF OrderInv

\* Each SendToPeer's units stand in the order of its file, on the connection, in
\* its buffer and in the argument of the running Write, whatever the buffer's
\* size, whatever the other streams write between them, and after timeouts.
THEOREM StreamsInOrder == Safety => []StreamsKeepOrder
<1>1. OrderInv => StreamsKeepOrder
  BY DEF OrderInv, InLine, Line, StreamsKeepOrder
<1> QED
  BY OrderInit, OrderStep, <1>1, PTL DEF Safety

------------------------------------------------------------------------------
(* Control messages                                                        *)

\* A stretch of a sequence, by its units.
LEMMA StretchIs ==
  ASSUME NEW S, NEW q \in Seq(S), NEW fr \in Seq(S), NEW i \in 0..(Len(q) - Len(fr)),
         \A k \in 1..Len(fr) : q[i + k] = fr[k]
  PROVE  SubSeq(q, i + 1, i + Len(fr)) = fr
<1> DEFINE n == Len(fr)
<1>1. n \in Nat /\ Len(q) \in Nat /\ i + 1 \in Int /\ i + n \in Int
      /\ (IF i + 1 <= i + n THEN i + n - (i + 1) + 1 ELSE 0) = n /\ i + n - (i + 1) + 1 = n
  OBVIOUS
<1>2. \A k \in (i + 1)..(i + n) : q[k] \in S
  <2> SUFFICES ASSUME NEW k \in (i + 1)..(i + n)
               PROVE  q[k] \in S
    OBVIOUS
  <2>1. k \in 1..Len(q)
    BY <1>1
  <2> QED
    BY <2>1
<1>3. /\ SubSeq(q, i + 1, i + n) \in Seq(S) /\ Len(SubSeq(q, i + 1, i + n)) = n
      /\ \A k \in 1..n : SubSeq(q, i + 1, i + n)[k] = q[i + 1 + k - 1]
  BY <1>1, <1>2, SubSeqProperties
<1>4. ASSUME NEW k \in 1..n
      PROVE  SubSeq(q, i + 1, i + n)[k] = fr[k]
  <2>1. i + 1 + k - 1 = i + k
    BY <1>1
  <2>2. SubSeq(q, i + 1, i + n)[k] = q[i + 1 + k - 1]
    BY <1>3
  <2> QED
    BY <2>1, <2>2
<1> HIDE DEF n
<1>5. Len(fr) = n
  BY DEF n
<1> QED
  BY <1>3, <1>4, <1>5, SeqEqual

\* Units that are appended leave what stood before.
LEMMA StretchKept ==
  ASSUME NEW S, NEW q \in Seq(S), NEW x \in Seq(S), NEW fr \in Seq(S),
         NEW i \in 0..(Len(q) - Len(fr)), SubSeq(q, i + 1, i + Len(fr)) = fr
  PROVE  i \in 0..(Len(q \o x) - Len(fr)) /\ SubSeq(q \o x, i + 1, i + Len(fr)) = fr
<1> DEFINE all == q \o x
           n == Len(fr)
<1>1. /\ Len(q) \in Nat /\ Len(x) \in Nat /\ all \in Seq(S) /\ Len(all) = Len(q) + Len(x)
      /\ \A k \in 1..Len(q) : all[k] = q[k]
  BY Joined, ConcatProperties
<1>2. n \in Nat
  OBVIOUS
<1> HIDE DEF all, n
<1>3. i \in 0..(Len(all) - n)
  BY <1>1, <1>2 DEF n
<1>4. ASSUME NEW k \in 1..n
      PROVE  all[i + k] = fr[k]
  <2>1. i + k \in 1..Len(q) /\ i + k \in (i + 1)..(i + n)
    BY <1>1, <1>2 DEF n
  <2>2. fr[k] = q[i + k]
    <3>1. /\ \A j \in (i + 1)..(i + n) : q[j] \in S
          /\ i + 1 \in Int /\ i + n \in Int /\ k \in 1..((i + n) - (i + 1) + 1)
      <4> SUFFICES ASSUME NEW j \in (i + 1)..(i + n)
                   PROVE  /\ q[j] \in S
                          /\ i + 1 \in Int /\ i + n \in Int /\ k \in 1..((i + n) - (i + 1) + 1)
        BY <1>2, <2>1
      <4>1. j \in 1..Len(q)
        BY <1>1, <1>2 DEF n
      <4> QED
        BY <1>2, <4>1
    <3>2. SubSeq(q, i + 1, i + n)[k] = q[i + 1 + k - 1]
      BY <3>1, SubSeqProperties
    <3>3. i + 1 + k - 1 = i + k
      BY <1>2
    <3> QED
      BY <3>2, <3>3 DEF n
  <2> QED
    BY <1>1, <2>1, <2>2
<1>5. SubSeq(all, i + 1, i + Len(fr)) = fr
  BY <1>1, <1>3, <1>4, StretchIs DEF n
<1> QED
  BY <1>3, <1>5 DEF all, n

\* A frame whose first unit is the last one there is whole when the others follow.
LEMMA StretchEnds ==
  ASSUME NEW S, NEW q \in Seq(S), NEW fr \in Seq(S), q # <<>>, fr # <<>>,
         q[Len(q)] = fr[1]
  PROVE  \E i \in 0..(Len(q \o Tail(fr)) - Len(fr)) :
           SubSeq(q \o Tail(fr), i + 1, i + Len(fr)) = fr
<1> DEFINE tail == Tail(fr)
           all == q \o tail
           m == Len(q)
           n == Len(fr)
<1>1. /\ m \in Nat \ {0} /\ n \in Nat \ {0}
      /\ tail \in Seq(S) /\ Len(tail) = n - 1
      /\ \A k \in 1..(n - 1) : tail[k] = fr[k + 1]
  BY EmptySeq, HeadTailProperties
<1>2. /\ all \in Seq(S) /\ Len(all) = m + (n - 1)
      /\ \A k \in 1..m : all[k] = q[k]
      /\ \A k \in 1..(n - 1) : all[m + k] = tail[k]
  BY <1>1, Joined, ConcatProperties
<1> HIDE DEF tail, all
<1>3. ASSUME NEW k \in 1..n
      PROVE  all[(m - 1) + k] = fr[k]
  <2>1. CASE k = 1
    <3>1. (m - 1) + k = m /\ m \in 1..m
      BY <1>1, <2>1
    <3> QED
      BY <1>2, <2>1, <3>1
  <2>2. CASE k # 1
    <3> DEFINE j == k - 1
    <3>1. j \in 1..(n - 1) /\ (m - 1) + k = m + j /\ j + 1 = k
      BY <1>1, <2>2
    <3> HIDE DEF j
    <3>2. all[m + j] = tail[j]
      BY <1>2, <3>1
    <3>3. tail[j] = fr[j + 1]
      BY <1>1, <3>1
    <3> QED
      BY <3>1, <3>2, <3>3
  <2> QED
    BY <2>1, <2>2
<1>4. m - 1 \in 0..(Len(all) - n)
  BY <1>1, <1>2
<1>5. SubSeq(all, (m - 1) + 1, (m - 1) + n) = fr
  BY <1>2, <1>3, <1>4, StretchIs
<1> QED
  BY <1>4, <1>5 DEF all, tail

\* A frame stands among the units in one piece.
Whole(w, f, units) ==
  \E i \in 0..(Len(units) - LenOf(w, f)) :
    SubSeq(units, i + 1, i + LenOf(w, f)) = FrameOf(w, f)

\* The unit is one of a frame of the file, or of a control message.
LEMMA UnitOfFrame ==
  ASSUME TypeOK, NEW u \in Units
  PROVE  /\ u.frame \in Nat
         /\ \/ u.of \in Streams /\ u.frame \in 1..Len(lens)
            \/ u.of \in Controls /\ u.frame = 1
BY LenOfType DEF Units

\* A frame stays whole as units are appended.
LEMMA WholeGrows ==
  ASSUME TypeOK, NEW q \in Seq(Units), NEW x \in Seq(Units), NEW w, NEW f \in Nat,
         \/ w \in Streams /\ f \in 1..Len(lens)
         \/ w \in Controls /\ f = 1,
         Whole(w, f, q)
  PROVE  Whole(w, f, q \o x)
<1> DEFINE n == LenOf(w, f)
           fr == FrameOf(w, f)
<1>1. fr \in Seq(Units) /\ Len(fr) = n
  BY FrameProperties
<1> HIDE DEF n, fr
<1>2. PICK i \in 0..(Len(q) - n) : SubSeq(q, i + 1, i + n) = fr
  BY DEF Whole, n, fr
<1>3. i \in 0..(Len(q \o x) - n) /\ SubSeq(q \o x, i + 1, i + n) = fr
  BY <1>1, <1>2, StretchKept
<1> QED
  BY <1>3 DEF Whole, n, fr

\* The connection after a step, by frames of the same lengths.
LEMMA WholeThen ==
  ASSUME lens' = lens, NEW w, NEW f
  PROVE  /\ Contiguous(w, f) <=> Whole(w, f, conn)
         /\ Contiguous(w, f)' <=> Whole(w, f, conn')
<1>1. LenOf(w, f)' = LenOf(w, f) /\ FrameOf(w, f)' = FrameOf(w, f)
  BY DEF LenOf, FrameOf
<1> QED
  BY <1>1 DEF Contiguous, Whole

\* A writeRawMessage that is under way holds the lock, and between its two writes
\* the header is the last unit of the connection.
UnderWay(c) ==
  /\ control[c] \in {"header", "payload"} => writeMu = {c}
  /\ control[c] = "payload" => conn # <<>> /\ conn[Len(conn)] = Part(c, 1, 1)
  /\ control[c] = "done" => Contiguous(c, 1)

WholeInv == WireTypes /\ \A c \in Controls : UnderWay(c)

\* While a writeRawMessage holds the lock no SendToPeer writes.
LEMMA StreamsWriteUnlocked ==
  ASSUME WireTypes, NEW s \in Streams, SendStep(s)
  PROVE  /\ UNCHANGED <<lens, writeMu, control>>
         /\ \E x \in Seq(Units) : conn' = conn \o x
         /\ writeMu = {} \/ conn' = conn
<1>1. /\ conn \in Seq(Units) /\ buf[s] \in Seq(Units) /\ arg[s] \in Seq(Units)
      /\ conn = conn \o <<>> /\ <<>> \in Seq(Units)
  BY InHand, Unmoved
<1>2. \A n \in 0..(Len(Outgoing(s)) - 1) : SubSeq(Outgoing(s), 1, n) \in Seq(Units)
  BY OutgoingPart
<1>3. UNCHANGED <<lens, writeMu, control>>
  BY DEF SendStep, BeginFrame, CopyAll, Fill, Flush, Direct, EndFlush, SendFails, SendGivesUp
<1>4. \E x \in Seq(Units) : conn' = conn \o x
  BY <1>1, <1>2
     DEF SendStep, BeginFrame, CopyAll, Fill, Flush, Direct, EndFlush, SendFails,
         SendGivesUp
<1>5. writeMu = {} \/ conn' = conn
  BY <1>1
     DEF SendStep, BeginFrame, CopyAll, Fill, Flush, Direct, EndFlush, SendFails,
         SendGivesUp
<1> QED
  BY <1>3, <1>4, <1>5

\* A writeRawMessage that does not move is where it was, unless another one that
\* holds the lock moves the end of the connection away from it.
LEMMA ControlStays ==
  ASSUME WholeInv, NEW c \in Controls, control'[c] = control[c], lens' = lens,
         NEW x \in Seq(Units), conn' = conn \o x,
         control[c] \in {"header", "payload"} => writeMu' = writeMu /\ conn' = conn
  PROVE  UnderWay(c)'
<1>1. UnderWay(c)
  BY DEF WholeInv
<1>2. control[c] = "done" => Contiguous(c, 1)'
  <2>1. conn \in Seq(Units) /\ TypeOK
    BY DEF WholeInv, WireTypes, TypeOK
  <2>2. Whole(c, 1, conn) => Whole(c, 1, conn')
    BY <2>1, WholeGrows
  <2> QED
    BY <1>1, <2>2, WholeThen DEF UnderWay
<1>3. Part(c, 1, 1)' = Part(c, 1, 1)
  BY DEF Part
<1> QED
  BY <1>1, <1>2, <1>3 DEF UnderWay

LEMMA WholeSend ==
  ASSUME WholeInv, NEW s \in Streams, SendStep(s)
  PROVE  \A c \in Controls : UnderWay(c)'
<1>1. /\ UNCHANGED <<lens, writeMu, control>>
      /\ writeMu = {} \/ conn' = conn
  BY StreamsWriteUnlocked DEF WholeInv
<1>2. PICK x \in Seq(Units) : conn' = conn \o x
  BY StreamsWriteUnlocked DEF WholeInv
<1>3. ASSUME NEW c \in Controls
      PROVE  UnderWay(c)'
  <2>1. control'[c] = control[c]
    BY <1>1
  <2>2. control[c] \in {"header", "payload"} => writeMu' = writeMu /\ conn' = conn
    BY <1>1 DEF WholeInv, UnderWay
  <2> QED
    BY <1>1, <1>2, <2>1, <2>2, ControlStays
<1> QED
  BY <1>3

LEMMA WholeControl ==
  ASSUME WholeInv, NEW d \in Controls, Lock(d) \/ ControlStep(d)
  PROVE  \A c \in Controls : UnderWay(c)'
<1>1. /\ WireTypes /\ conn \in Seq(Units) /\ UnderWay(d)
      /\ control \in [Controls -> {"idle", "header", "payload", "done", "failed"}]
  BY DEF WholeInv, WireTypes, TypeOK
<1>2. UNCHANGED lens
  BY <1>1, ControlWrites
<1>3. PICK x \in Seq(Units) : conn' = conn \o x
  BY <1>1, ControlWrites
<1>4. ASSUME NEW c \in Controls, c # d
      PROVE  UnderWay(c)'
  <2>1. control'[c] = control[c]
    BY <1>1, <1>4 DEF Lock, ControlStep, WriteHeader, WritePayload, ControlFails
  <2>2. control[c] \notin {"header", "payload"}
    BY <1>1, <1>4 DEF WholeInv, UnderWay, Lock, ControlStep, WriteHeader, WritePayload, ControlFails
  <2> QED
    BY <1>2, <1>3, <2>1, <2>2, ControlStays
<1>5. ASSUME Lock(d)
      PROVE  UnderWay(d)'
  BY <1>1, <1>5 DEF Lock, UnderWay
<1>6. ASSUME WriteHeader(d)
      PROVE  UnderWay(d)'
  <2>1. conn' = Append(conn, Part(d, 1, 1)) /\ control'[d] = "payload" /\ writeMu' = {d}
    BY <1>1, <1>6 DEF WriteHeader, UnderWay
  <2>2. conn' # <<>> /\ conn'[Len(conn')] = Part(d, 1, 1)
    <3>1. Part(d, 1, 1) \in Units
      BY <1>1, FrameProperties DEF WireTypes
    <3> HIDE DEF Units
    <3> QED
      BY <1>1, <2>1, <3>1, AppendProperties
  <2> QED
    BY <2>1, <2>2 DEF UnderWay, Part
<1>7. ASSUME WritePayload(d)
      PROVE  UnderWay(d)'
  <2> DEFINE fr == FrameOf(d, 1)
  <2>1. conn' = conn \o Tail(fr) /\ control'[d] = "done" /\ conn # <<>>
        /\ conn[Len(conn)] = Part(d, 1, 1)
    BY <1>1, <1>7 DEF WritePayload, UnderWay
  <2>2. fr \in Seq(Units) /\ fr # <<>> /\ fr[1] = Part(d, 1, 1) /\ Len(fr) = LenOf(d, 1)
    <3>1. /\ LenOf(d, 1) \in Nat \ {0, 1} /\ fr \in Seq(Units) /\ Len(fr) = LenOf(d, 1)
          /\ \A k \in 1..LenOf(d, 1) : fr[k] = Part(d, 1, k)
      BY <1>1, FrameProperties DEF WireTypes
    <3> QED
      BY <3>1, EmptySeq
  <2>3. Whole(d, 1, conn')
    <3>1. conn[Len(conn)] = fr[1] /\ conn \in Seq(Units) /\ conn # <<>>
      BY <1>1, <2>1, <2>2
    <3>0. fr \in Seq(Units) /\ fr # <<>>
      BY <2>2
    <3> HIDE DEF fr
    <3>2. \E i \in 0..(Len(conn \o Tail(fr)) - Len(fr)) :
            SubSeq(conn \o Tail(fr), i + 1, i + Len(fr)) = fr
      BY <3>0, <3>1, StretchEnds
    <3> QED
      BY <2>1, <2>2, <3>2 DEF Whole, fr
  <2>4. Contiguous(d, 1)'
    BY <1>2, <2>3, WholeThen
  <2> QED
    BY <2>1, <2>4 DEF UnderWay
<1>8. ASSUME ControlFails(d)
      PROVE  UnderWay(d)'
  BY <1>1, <1>8 DEF ControlFails, UnderWay
<1>9. UnderWay(d)'
  BY <1>5, <1>6, <1>7, <1>8 DEF ControlStep
<1> QED
  BY <1>4, <1>9

LEMMA WholeInit == Init => WholeInv
BY TypesInit DEF Init, WholeInv, UnderWay

LEMMA WholeStep == WholeInv /\ [Next]_vars => WholeInv'
<1> SUFFICES ASSUME WholeInv, [Next]_vars
             PROVE  WholeInv'
  OBVIOUS
<1>1. WireTypes'
  BY TypesStep DEF WholeInv
<1>2. ASSUME ReadFrame \/ ReadLost \/ UNCHANGED vars, NEW c \in Controls
      PROVE  UnderWay(c)'
  <2>1. UNCHANGED <<lens, conn, control, writeMu>>
    BY <1>2 DEF ReadFrame, ReadLost, vars
  <2> QED
    BY <2>1 DEF WholeInv, UnderWay, Contiguous, FrameOf, LenOf, Part
<1>3. \A c \in Controls : UnderWay(c)'
  BY <1>2, WholeSend, WholeControl DEF Next
<1> QED
  BY <1>1, <1>3 DEF WholeInv

\* A control message that was written without an error stands on the connection
\* in one piece, for any number of streams and writers: Peer.writeMu is held over
\* both its writes, and every Write of a lockedPeerWriter takes it.
THEOREM ControlWhole == Safety => []ControlFramesWhole
<1>1. WholeInv => ControlFramesWhole
  BY DEF WholeInv, UnderWay, ControlFramesWhole
<1> QED
  BY WholeInit, WholeStep, <1>1, PTL DEF Safety

\* Peer.writeMu is held by one writeRawMessage, in the middle of its frame, or
\* by nobody: no error path keeps it.
LockHasHolder ==
  /\ writeMu = {} \/ \E c \in Controls : writeMu = {c}
  /\ \A c \in Controls : control[c] \in {"header", "payload"} <=> writeMu = {c}

\* What gets on the connection while a writeRawMessage holds the lock is its own.
HolderWrites ==
  \A c \in Controls : writeMu = {c} /\ conn' # conn => control'[c] # control[c]

\* A step of the lock's holder, or of another.
LEMMA LockStep ==
  WireTypes /\ LockHasHolder /\ [Next]_vars =>
    LockHasHolder' /\ (HolderWrites \/ UNCHANGED vars)
<1> SUFFICES ASSUME WireTypes, LockHasHolder, [Next]_vars
             PROVE  LockHasHolder' /\ (HolderWrites \/ UNCHANGED vars)
  OBVIOUS
<1>0. control \in [Controls -> {"idle", "header", "payload", "done", "failed"}]
  BY DEF WireTypes, TypeOK
<1>1. ASSUME NEW s \in Streams, SendStep(s)
      PROVE  LockHasHolder' /\ HolderWrites
  <2>1. /\ UNCHANGED <<writeMu, control>>
        /\ writeMu = {} \/ conn' = conn
    BY <1>1, StreamsWriteUnlocked
  <2> QED
    BY <2>1 DEF LockHasHolder, HolderWrites
<1>2. ASSUME NEW d \in Controls, Lock(d)
      PROVE  LockHasHolder' /\ HolderWrites
  <2>1. writeMu = {} /\ writeMu' = {d} /\ conn' = conn
        /\ control' = [control EXCEPT ![d] = "header"]
    BY <1>2 DEF Lock
  <2>2. \A c \in Controls : control[c] \notin {"header", "payload"}
    BY <2>1 DEF LockHasHolder
  <2> QED
    BY <1>0, <2>1, <2>2 DEF LockHasHolder, HolderWrites
<1>3. ASSUME NEW d \in Controls, ControlStep(d)
      PROVE  LockHasHolder' /\ HolderWrites
  <2>1. control[d] \in {"header", "payload"}
    BY <1>3 DEF ControlStep, WriteHeader, WritePayload, ControlFails
  <2>2. writeMu = {d}
    BY <2>1 DEF LockHasHolder
  <2>3. \A c \in Controls : c # d => control[c] \notin {"header", "payload"}
    BY <2>2 DEF LockHasHolder
  <2>4. \/ /\ control' = [control EXCEPT ![d] = "payload"] /\ control[d] = "header"
           /\ writeMu' = writeMu
        \/ /\ control' = [control EXCEPT ![d] = "done"] /\ writeMu' = {}
        \/ /\ control' = [control EXCEPT ![d] = "failed"] /\ writeMu' = {}
    BY <1>3 DEF ControlStep, WriteHeader, WritePayload, ControlFails
  <2>5. control'[d] # control[d] /\ \A c \in Controls : c # d => control'[c] = control[c]
    BY <1>0, <2>1, <2>4
  <2>6. LockHasHolder'
    BY <1>0, <2>2, <2>3, <2>4, <2>5 DEF LockHasHolder
  <2>7. HolderWrites
    BY <2>2, <2>5 DEF HolderWrites
  <2> QED
    BY <2>6, <2>7
<1>4. ASSUME ReadFrame \/ ReadLost \/ UNCHANGED vars
      PROVE  LockHasHolder' /\ HolderWrites
  BY <1>4 DEF ReadFrame, ReadLost, vars, LockHasHolder, HolderWrites
<1> QED
  BY <1>1, <1>2, <1>3, <1>4 DEF Next

\* Whoever holds the lock is in the middle of a control frame and gives it back,
\* in failure too; what is written meanwhile is its own, for any number of
\* writers.
THEOREM LockIsGivenBack == Safety => []LockHasHolder /\ [][HolderWrites]_vars
<1>1. Init => LockHasHolder
  BY DEF Init, LockHasHolder
<1>2. WireTypes /\ LockHasHolder /\ [Next]_vars => [HolderWrites]_vars
  BY LockStep
<1> QED
  BY TypesInit, TypesStep, LockStep, <1>1, <1>2, PTL DEF Safety

------------------------------------------------------------------------------
(* Files of one chunk that fits the buffer                                 *)

\* What a SendToPeer of such a file has in hand: nothing, the header, both parts
\* of its frame, or the whole frame in the buffer.
Small(s) ==
  LET fr == FrameOf(s, 1)
  IN  \/ send[s] = "frame" /\ frame[s] = 0 /\ buf[s] = <<>> /\ arg[s] = <<>>
      \/ send[s] = "write" /\ frame[s] = 1 /\ buf[s] = <<>> /\ arg[s] = <<Part(s, 1, 1)>>
      \/ send[s] = "write" /\ frame[s] = 1 /\ buf[s] = <<Part(s, 1, 1)>> /\ arg[s] = Tail(fr)
      \/ send[s] = "frame" /\ frame[s] = 1 /\ buf[s] = fr /\ arg[s] = <<>>
      \/ send[s] \in {"done", "failed"}

SmallInv ==
  WholeInv /\ (FitsBuffer => FramesContiguous /\ \A s \in Streams : Small(s))

\* Every frame that ends among the units is whole.
AllWhole(units) ==
  \A i \in 1..Len(units) :
    units[i].part = LenOf(units[i].of, units[i].frame)
      => Whole(units[i].of, units[i].frame, units)

LEMMA AllWholeThen ==
  ASSUME lens' = lens
  PROVE  (FramesContiguous <=> AllWhole(conn)) /\ (FramesContiguous' <=> AllWhole(conn'))
<1>1. FramesContiguous <=> AllWhole(conn)
  BY WholeThen DEF FramesContiguous, AllWhole
<1>2. \A w, f : LenOf(w, f)' = LenOf(w, f) /\ FrameOf(w, f)' = FrameOf(w, f)
  BY DEF LenOf, FrameOf
<1>3. FramesContiguous' <=> AllWhole(conn')
  BY <1>2 DEF FramesContiguous, AllWhole, Contiguous, Whole
<1> QED
  BY <1>1, <1>3

\* No frame is torn by units at the end.
LEMMA GrowsWhole ==
  ASSUME TypeOK, NEW q \in Seq(Units), AllWhole(q), NEW x \in Seq(Units),
         \A i \in 1..Len(x) :
           x[i].part = LenOf(x[i].of, x[i].frame) => Whole(x[i].of, x[i].frame, q \o x)
  PROVE  AllWhole(q \o x)
<1> DEFINE all == q \o x
<1>1. /\ Len(q) \in Nat /\ Len(x) \in Nat /\ Len(all) = Len(q) + Len(x)
      /\ \A i \in 1..Len(q) : all[i] = q[i]
      /\ \A i \in 1..Len(x) : all[Len(q) + i] = x[i]
  BY Joined, ConcatProperties
<1>2. ASSUME NEW i \in 1..Len(q)
      PROVE  q[i].part = LenOf(q[i].of, q[i].frame) => Whole(q[i].of, q[i].frame, all)
  <2> DEFINE u == q[i]
  <2>1. u \in Units
    BY <1>2
  <2>2. u.part = LenOf(u.of, u.frame) => Whole(u.of, u.frame, q)
    BY <1>2 DEF AllWhole
  <2> HIDE DEF u
  <2>3. Whole(u.of, u.frame, q) => Whole(u.of, u.frame, q \o x)
    BY <2>1, UnitOfFrame, WholeGrows
  <2> QED
    BY <2>2, <2>3 DEF u
<1>3. ASSUME NEW i \in 1..Len(x)
      PROVE  x[i].part = LenOf(x[i].of, x[i].frame) => Whole(x[i].of, x[i].frame, all)
  OBVIOUS
<1> HIDE DEF all
<1>4. ASSUME NEW i \in 1..Len(all)
      PROVE  all[i].part = LenOf(all[i].of, all[i].frame) => Whole(all[i].of, all[i].frame, all)
  <2>1. CASE i <= Len(q)
    <3>1. i \in 1..Len(q) /\ all[i] = q[i]
      BY <1>1, <2>1
    <3> QED
      BY <1>2, <3>1
  <2>2. CASE ~(i <= Len(q))
    <3>1. i - Len(q) \in 1..Len(x) /\ i = Len(q) + (i - Len(q))
      BY <1>1, <2>2
    <3>2. all[i] = x[i - Len(q)]
      BY <1>1, <3>1
    <3> QED
      BY <1>3, <3>1, <3>2
  <2> QED
    BY <2>1, <2>2
<1> QED
  BY <1>4 DEF AllWhole, all

\* A frame that is written as a whole is whole.
LEMMA StretchAppended ==
  ASSUME NEW S, NEW q \in Seq(S), NEW fr \in Seq(S)
  PROVE  /\ Len(q) \in 0..(Len(q \o fr) - Len(fr))
         /\ SubSeq(q \o fr, Len(q) + 1, Len(q) + Len(fr)) = fr
<1> DEFINE all == q \o fr
<1>1. /\ Len(q) \in Nat /\ Len(fr) \in Nat /\ all \in Seq(S) /\ Len(all) = Len(q) + Len(fr)
      /\ \A k \in 1..Len(fr) : all[Len(q) + k] = fr[k]
  BY Joined, ConcatProperties
<1> HIDE DEF all
<1>2. Len(q) \in 0..(Len(all) - Len(fr))
  BY <1>1
<1>3. SubSeq(all, Len(q) + 1, Len(q) + Len(fr)) = fr
  <2> DEFINE m == Len(q)
  <2>1. m \in 0..(Len(all) - Len(fr)) /\ all \in Seq(S) /\ \A k \in 1..Len(fr) : all[m + k] = fr[k]
    BY <1>1, <1>2
  <2> HIDE DEF m
  <2>2. SubSeq(all, m + 1, m + Len(fr)) = fr
    BY <2>1, StretchIs
  <2> QED
    BY <2>2 DEF m
<1> QED
  BY <1>2, <1>3 DEF all

\* The two parts of a frame.
LEMMA HeadAndTail ==
  ASSUME NEW S, NEW fr \in Seq(S), fr # <<>>
  PROVE  <<fr[1]>> \o Tail(fr) = fr
<1> DEFINE tail == Tail(fr)
           head == <<fr[1]>>
           all == head \o tail
           n == Len(fr)
<1>1. /\ n \in Nat \ {0} /\ fr[1] \in S /\ tail \in Seq(S) /\ Len(tail) = n - 1
      /\ \A k \in 1..(n - 1) : tail[k] = fr[k + 1]
  BY EmptySeq, HeadTailProperties
<1>2. head \in Seq(S) /\ Len(head) = 1 /\ head[1] = fr[1]
  BY <1>1
<1> HIDE DEF head, tail
<1>3. /\ all \in Seq(S) /\ Len(all) = 1 + (n - 1)
      /\ all[1] = head[1]
      /\ \A k \in 1..(n - 1) : all[1 + k] = tail[k]
  <2>1. head \in Seq(S) /\ tail \in Seq(S)
    BY <1>1, <1>2
  <2>2. /\ all \in Seq(S)
        /\ \A k \in 1..Len(head) : all[k] = head[k]
        /\ \A k \in 1..Len(tail) : all[Len(head) + k] = tail[k]
    BY <2>1, Joined
  <2>3. Len(all) = Len(head) + Len(tail)
    BY <2>1, ConcatProperties
  <2> HIDE DEF all
  <2> QED
    BY <1>1, <1>2, <2>2, <2>3
<1> HIDE DEF all
<1>4. ASSUME NEW k \in 1..n
      PROVE  all[k] = fr[k]
  <2>1. CASE k = 1
    BY <1>2, <1>3, <2>1
  <2>2. CASE k # 1
    <3>1. k - 1 \in 1..(n - 1) /\ 1 + (k - 1) = k /\ (k - 1) + 1 = k
      BY <1>1, <2>2
    <3> QED
      BY <1>1, <1>3, <3>1, ZenonT(40)
  <2> QED
    BY <2>1, <2>2
<1>5. Len(all) = Len(fr)
  BY <1>1, <1>3
<1>6. all = fr
  BY <1>3, <1>4, <1>5, SeqEqual
<1> QED
  BY <1>6 DEF all, head, tail

\* Neither the header nor the ciphertext of a frame that fits fills the buffer.
LEMMA SmallFits ==
  ASSUME WireTypes, FitsBuffer, NEW s \in Streams, Small(s)
  PROVE  /\ ~Fill(s) /\ ~Flush(s) /\ ~Direct(s)
         /\ AboutToWrite(s) => send[s] = "frame" /\ frame[s] = 1 /\ buf[s] = FrameOf(s, 1)
<1> DEFINE fr == FrameOf(s, 1)
           tail == Tail(fr)
           a == arg[s]
           b == buf[s]
<1>1. /\ 1 \in 1..Len(lens) /\ LenOf(s, 1) \in Nat \ {0, 1} /\ LenOf(s, 1) <= BufSize
      /\ Len(tail) = LenOf(s, 1) - 1
  BY LenOfType, FrameProperties DEF WireTypes, FitsBuffer, LenOf
<1>2. ASSUME send[s] = "write"
      PROVE  Len(a) <= BufSize - Len(b)
  <2>1. CASE b = <<>> /\ a = <<Part(s, 1, 1)>>
    <3>1. Len(a) = 1 /\ Len(b) = 0
      BY <2>1
    <3> QED
      BY <1>1, <3>1
  <2>2. CASE b = <<Part(s, 1, 1)>> /\ a = tail
    <3>1. Len(a) = LenOf(s, 1) - 1 /\ Len(b) = 1
      BY <1>1, <2>2
    <3> QED
      BY <1>1, <3>1
  <2> QED
    BY <1>2, <2>1, <2>2 DEF Small
<1>3. Len(a) \in Nat /\ Len(b) \in Nat /\ BufSize \in Nat
  BY InHand
<1>4. send[s] = "write" => ~(Len(a) > Room(s))
  <2>1. Room(s) = BufSize - Len(b)
    BY DEF Room
  <2> HIDE DEF a, b
  <2> QED
    BY <1>2, <1>3, <2>1
<1>5. send[s] # "flush"
  BY DEF Small
<1>6. ~Fill(s) /\ ~Flush(s) /\ ~Direct(s)
  BY <1>4, <1>5 DEF Fill, Flush, Direct
<1>7. ASSUME AboutToWrite(s)
      PROVE  send[s] = "frame" /\ frame[s] = 1 /\ buf[s] = fr
  BY <1>4, <1>5, <1>7 DEF AboutToWrite, Small
<1> QED
  BY <1>6, <1>7

\* The steps of SendToPeer that do not write: what it has in hand then.
LEMMA SmallMoves ==
  ASSUME WireTypes, FitsBuffer, NEW s \in Streams, Small(s), BeginFrame(s) \/ CopyAll(s), lens' = lens
  PROVE  conn' = conn /\ Small(s)'
<1> DEFINE fr == FrameOf(s, 1)
           h == Part(s, 1, 1)
           tail == Tail(fr)
<1>1. /\ 1 \in 1..Len(lens) /\ Len(lens) = 1 /\ LenOf(s, 1) \in Nat \ {0, 1}
      /\ fr \in Seq(Units) /\ Len(fr) = LenOf(s, 1) /\ fr[1] = h
      /\ tail \in Seq(Units) /\ Len(tail) = LenOf(s, 1) - 1 /\ tail[1] = Part(s, 1, 2)
  <2>1. Len(lens) = 1 /\ 1 \in 1..Len(lens)
    BY LenOfType DEF WireTypes, FitsBuffer
  <2> QED
    BY <2>1, FrameProperties DEF WireTypes
<1>2. fr # <<>> /\ <<h>> \o tail = fr
  BY <1>1, EmptySeq, HeadAndTail
<1>3. fr' = fr /\ h' = h
  BY DEF FrameOf, LenOf, Part
<1>4. h.part = 1 /\ tail[1].part = 2 /\ <<>> \o <<h>> = <<h>>
  <2>1. h.part = 1 /\ Part(s, 1, 2).part = 2
    BY DEF Part
  <2>2. <<>> \o <<h>> = <<h>>
    OBVIOUS
  <2> QED
    BY <1>1, <2>1, <2>2
<1>5. /\ send \in [Streams -> {"frame", "write", "flush", "done", "failed"}]
      /\ frame \in [Streams -> 0..Len(lens)]
      /\ arg \in [Streams -> Seq(Units)] /\ buf \in [Streams -> Seq(Units)]
  BY DEF WireTypes, TypeOK
<1>6. ASSUME BeginFrame(s)
      PROVE  conn' = conn /\ Small(s)'
  <2>1. frame[s] = 0 /\ buf[s] = <<>>
    BY <1>1, <1>6 DEF BeginFrame, Small
  <2>2. /\ send'[s] = "write" /\ frame'[s] = 1 /\ buf'[s] = <<>> /\ arg'[s] = <<h>>
        /\ conn' = conn
    BY <1>5, <1>6, <2>1 DEF BeginFrame
  <2> QED
    BY <1>3, <2>2 DEF Small
<1>7. ASSUME CopyAll(s)
      PROVE  conn' = conn /\ Small(s)'
  <2>1. /\ conn' = conn /\ frame'[s] = frame[s] /\ send[s] = "write" /\ frame[s] = 1
        /\ buf'[s] = buf[s] \o arg[s]
    BY <1>5, <1>7 DEF CopyAll, Small
  <2>2. CASE buf[s] = <<>> /\ arg[s] = <<h>>
    <3>1. arg[s][1].part = 1
      BY <1>4, <2>2
    <3>2. send'[s] = "write" /\ arg'[s] = tail
      BY <1>5, <1>7, <2>1, <3>1 DEF CopyAll, Payload
    <3>3. buf'[s] = <<h>>
      BY <1>4, <2>1, <2>2
    <3> QED
      BY <1>3, <2>1, <3>2, <3>3 DEF Small
  <2>3. CASE buf[s] = <<h>> /\ arg[s] = tail
    <3>1. arg[s][1].part # 1
      <4> HIDE DEF tail
      <4>1. arg[s][1] = tail[1]
        BY <2>3
      <4> QED
        BY <1>4, <4>1
    <3>2. send'[s] = "frame" /\ arg'[s] = <<>>
      BY <1>5, <1>7, <3>1 DEF CopyAll
    <3>3. buf'[s] = fr
      BY <1>2, <2>1, <2>3
    <3> QED
      BY <1>3, <2>1, <3>2, <3>3 DEF Small
  <2> QED
    BY <2>1, <2>2, <2>3 DEF Small
<1> QED
  BY <1>6, <1>7

\* The end of the file puts its frame on the connection in one Write, ...
LEMMA SmallEnd ==
  ASSUME WireTypes, FitsBuffer, NEW s \in Streams, Small(s), AllWhole(conn), EndFlush(s)
  PROVE  AllWhole(conn')
<1> DEFINE fr == FrameOf(s, 1)
<1>1. 1 \in 1..Len(lens) /\ Len(lens) = 1 /\ TypeOK /\ conn \in Seq(Units)
  BY LenOfType DEF WireTypes, TypeOK, FitsBuffer
<1>2. conn' = conn \o fr
  BY <1>1, SMTT(30) DEF EndFlush, Small
<1>3. /\ fr \in Seq(Units) /\ Len(fr) = LenOf(s, 1)
      /\ \A k \in 1..LenOf(s, 1) : fr[k] = Part(s, 1, k)
  BY <1>1, FrameProperties
<1> HIDE DEF fr
<1>4. \A k \in 1..Len(fr) : fr[k].of = s /\ fr[k].frame = 1
  BY <1>3 DEF Part
<1>5. Whole(s, 1, conn \o fr)
  <2>1. /\ Len(conn) \in 0..(Len(conn \o fr) - Len(fr))
        /\ SubSeq(conn \o fr, Len(conn) + 1, Len(conn) + Len(fr)) = fr
    BY <1>1, <1>3, StretchAppended
  <2>2. \E i \in 0..(Len(conn \o fr) - Len(fr)) : SubSeq(conn \o fr, i + 1, i + Len(fr)) = fr
    BY <2>1
  <2> QED
    BY <1>3, <2>2 DEF Whole, fr
<1>6. \A k \in 1..Len(fr) :
        fr[k].part = LenOf(fr[k].of, fr[k].frame) => Whole(fr[k].of, fr[k].frame, conn \o fr)
  BY <1>4, <1>5
<1> QED
  BY <1>1, <1>2, <1>3, <1>6, GrowsWhole

\* ... or, when it times out, a part without the end.
LEMMA SmallFailure ==
  ASSUME WireTypes, FitsBuffer, NEW s \in Streams, Small(s), AllWhole(conn), SendFails(s)
  PROVE  AllWhole(conn')
<1> DEFINE fr == FrameOf(s, 1)
<1>1. 1 \in 1..Len(lens) /\ TypeOK /\ conn \in Seq(Units)
  BY LenOfType DEF WireTypes, TypeOK, FitsBuffer
<1>2. Outgoing(s) = fr
  BY SmallFits DEF SendFails, Outgoing
<1>3. PICK n \in 0..(Len(Outgoing(s)) - 1) : conn' = conn \o SubSeq(Outgoing(s), 1, n)
  BY DEF SendFails
<1>4. /\ Len(fr) = LenOf(s, 1) /\ LenOf(s, 1) \in Nat \ {0, 1}
      /\ \A k \in 1..LenOf(s, 1) : fr[k] = Part(s, 1, k)
  BY <1>1, FrameProperties
<1> DEFINE x == SubSeq(Outgoing(s), 1, n)
<1>5. x \in Seq(Units) /\ Len(x) = n /\ \A i \in 1..n : x[i] = fr[i]
  BY <1>2, OutgoingPart
<1>6. n \in 0..(LenOf(s, 1) - 1)
  BY <1>2, <1>4
<1> HIDE DEF x, fr
<1>7. ASSUME NEW i \in 1..Len(x)
      PROVE  x[i].part # LenOf(x[i].of, x[i].frame)
  <2>1. i \in 1..n /\ i \in 1..LenOf(s, 1) /\ i # LenOf(s, 1)
    BY <1>4, <1>5, <1>6
  <2>2. x[i] = Part(s, 1, i)
    BY <1>4, <1>5, <2>1
  <2>3. Part(s, 1, i).of = s /\ Part(s, 1, i).frame = 1 /\ Part(s, 1, i).part = i
    BY DEF Part
  <2> QED
    BY <2>1, <2>2, <2>3
<1>8. conn' = conn \o x
  BY <1>3 DEF x
<1> QED
  BY <1>1, <1>5, <1>7, <1>8, GrowsWhole

LEMMA SmallSend ==
  ASSUME SmallInv, FitsBuffer, NEW s \in Streams, SendStep(s)
  PROVE  FramesContiguous' /\ \A t \in Streams : Small(t)'
<1>1. WireTypes /\ Small(s) /\ FramesContiguous /\ lens' = lens
  BY DEF SmallInv, WholeInv, SendStep
<1>2. AllWhole(conn) /\ (FramesContiguous' <=> AllWhole(conn'))
  BY <1>1, AllWholeThen
<1>3. BeginFrame(s) \/ CopyAll(s) \/ EndFlush(s) \/ SendFails(s) \/ SendGivesUp(s)
  BY <1>1, SmallFits DEF SendStep
<1>4. AllWhole(conn')
  <2>1. ASSUME BeginFrame(s) \/ CopyAll(s)
        PROVE  AllWhole(conn')
    BY <1>1, <1>2, <2>1, SmallMoves
  <2>2. ASSUME SendGivesUp(s)
        PROVE  AllWhole(conn')
    BY <1>2, <2>2 DEF SendGivesUp
  <2> QED
    BY <1>1, <1>2, <1>3, <2>1, <2>2, SmallEnd, SmallFailure
<1>5. Small(s)'
  <2>1. send \in [Streams -> {"frame", "write", "flush", "done", "failed"}]
    BY <1>1 DEF WireTypes, TypeOK
  <2>2. ASSUME EndFlush(s) \/ SendFails(s) \/ SendGivesUp(s)
        PROVE  send'[s] \in {"done", "failed"}
    BY <2>1, <2>2 DEF EndFlush, SendFails, SendGivesUp
  <2>3. ASSUME EndFlush(s) \/ SendFails(s) \/ SendGivesUp(s)
        PROVE  Small(s)'
    BY <2>2, <2>3 DEF Small
  <2> QED
    BY <1>1, <1>3, <2>3, SmallMoves
<1>6. ASSUME NEW t \in Streams, t # s
      PROVE  Small(t)'
  <2>1. send'[t] = send[t] /\ frame'[t] = frame[t] /\ buf'[t] = buf[t] /\ arg'[t] = arg[t]
    BY <1>1, <1>3, <1>6
       DEF BeginFrame, CopyAll, EndFlush, SendFails, SendGivesUp, WireTypes, TypeOK
  <2>2. FrameOf(t, 1)' = FrameOf(t, 1) /\ Part(t, 1, 1)' = Part(t, 1, 1)
    BY <1>1 DEF FrameOf, LenOf, Part
  <2>3. Small(t)
    BY DEF SmallInv
  <2> QED
    BY <2>1, <2>2, <2>3 DEF Small
<1> QED
  BY <1>2, <1>4, <1>5, <1>6

\* A header does not end a frame, nor does the ciphertext that a failed write
\* leaves; after the whole ciphertext the frame is whole (ControlWhole).
LEMMA SmallControl ==
  ASSUME SmallInv, FitsBuffer, NEW c \in Controls, Lock(c) \/ ControlStep(c)
  PROVE  FramesContiguous' /\ \A t \in Streams : Small(t)'
<1> DEFINE h == Part(c, 1, 1)
           tail == Tail(FrameOf(c, 1))
<1>1. WireTypes /\ TypeOK /\ conn \in Seq(Units) /\ FramesContiguous
  BY DEF SmallInv, WholeInv, WireTypes, TypeOK
<1>2. UNCHANGED <<lens, streamVars>>
  BY <1>1, ControlWrites
<1>3. AllWhole(conn) /\ (FramesContiguous' <=> AllWhole(conn'))
  BY <1>1, <1>2, AllWholeThen
<1>4. \A t \in Streams : Small(t)'
  BY <1>2 DEF SmallInv, Small, streamVars, FrameOf, LenOf, Part
<1>5. /\ LenOf(c, 1) = ControlLen /\ ControlLen \in Nat \ {0, 1}
      /\ h \in Units /\ tail \in Seq(Units) /\ Len(tail) = ControlLen - 1
      /\ \A k \in 1..(ControlLen - 1) : tail[k] = Part(c, 1, k + 1)
  BY <1>1, LenOfType, FrameProperties
<1>6. \A k : Part(c, 1, k).of = c /\ Part(c, 1, k).frame = 1 /\ Part(c, 1, k).part = k
  BY DEF Part
<1>7. ASSUME UNCHANGED conn
      PROVE  AllWhole(conn')
  BY <1>3, <1>7
<1>8. ASSUME WriteHeader(c)
      PROVE  AllWhole(conn')
  <2>1. conn' = Append(conn, h)
    BY <1>8 DEF WriteHeader
  <2>2. h.of = c /\ h.frame = 1 /\ h.part = 1
    BY <1>6
  <2> HIDE DEF h
  <2>3. <<h>> \in Seq(Units) /\ conn' = conn \o <<h>>
    BY <1>1, <1>5, <2>1, AppendIsConcat
  <2>4. \A i \in 1..Len(<<h>>) : <<h>>[i].part # LenOf(<<h>>[i].of, <<h>>[i].frame)
    BY <1>5, <2>2
  <2> QED
    BY <1>1, <1>3, <2>3, <2>4, GrowsWhole
<1>9. ASSUME WritePayload(c)
      PROVE  AllWhole(conn')
  <2>1. conn' = conn \o tail /\ control'[c] = "done"
    BY <1>1, <1>9 DEF WritePayload, TypeOK
  <2>2. Whole(c, 1, conn')
    BY <1>2, <2>1, WholeControl, WholeThen DEF SmallInv, UnderWay
  <2>3. ASSUME NEW k \in 1..Len(tail)
        PROVE  tail[k].of = c /\ tail[k].frame = 1
    BY <1>5, <1>6
  <2> HIDE DEF tail
  <2>4. \A k \in 1..Len(tail) : Whole(tail[k].of, tail[k].frame, conn \o tail)
    BY <2>1, <2>2, <2>3
  <2> QED
    BY <1>1, <1>3, <1>5, <2>1, <2>4, GrowsWhole
<1>10. ASSUME NEW n \in 0..(ControlLen - 2), conn' = conn \o SubSeq(tail, 1, n)
       PROVE  AllWhole(conn')
  <2> DEFINE x == SubSeq(tail, 1, n)
  <2> HIDE DEF tail
  <2>1. x \in Seq(Units) /\ Len(x) = n /\ \A i \in 1..n : x[i] = tail[i]
    <3>1. \A i \in 1..n : i \in 1..Len(tail) /\ i \in 1..(ControlLen - 1)
      BY <1>5
    <3>2. \A i \in 1..n : tail[i] \in Units
      BY <1>5, <3>1
    <3>3. n \in Int /\ n - 1 + 1 = n /\ (IF 1 <= n THEN n - 1 + 1 ELSE 0) = n
      BY <1>5
    <3>4. x \in Seq(Units) /\ Len(x) = n /\ \A i \in 1..n : x[i] = tail[1 + i - 1]
      BY <3>2, <3>3, SubSeqProperties
    <3> QED
      BY <3>4
  <2> HIDE DEF x
  <2>2. ASSUME NEW i \in 1..Len(x)
        PROVE  x[i].part # LenOf(x[i].of, x[i].frame)
    <3>1. i \in 1..n /\ i \in 1..(ControlLen - 1) /\ i + 1 # ControlLen
      BY <1>5, <2>1
    <3>2. x[i] = Part(c, 1, i + 1)
      BY <1>5, <2>1, <3>1
    <3> QED
      BY <1>5, <1>6, <3>1, <3>2
  <2>3. conn' = conn \o x
    BY <1>10 DEF x
  <2> QED
    BY <1>1, <1>3, <2>1, <2>2, <2>3, GrowsWhole
<1>11. AllWhole(conn')
  BY <1>7, <1>8, <1>9, <1>10 DEF Lock, ControlStep, ControlFails
<1> QED
  BY <1>3, <1>4, <1>11

LEMMA SmallInit == Init => SmallInv
<1> SUFFICES ASSUME Init
             PROVE  SmallInv
  OBVIOUS
<1>1. WholeInv
  BY WholeInit
<1>2. Len(conn) = 0
  BY DEF Init
<1>3. FramesContiguous
  BY <1>2 DEF FramesContiguous
<1>4. \A s \in Streams : Small(s)
  BY DEF Init, Small
<1> QED
  BY <1>1, <1>3, <1>4 DEF SmallInv

LEMMA SmallStep == SmallInv /\ [Next]_vars => SmallInv'
<1> SUFFICES ASSUME SmallInv, [Next]_vars
             PROVE  SmallInv'
  OBVIOUS
<1>1. WholeInv'
  BY WholeStep DEF SmallInv
<1>2. ASSUME FitsBuffer'
      PROVE  (FramesContiguous /\ \A s \in Streams : Small(s))'
  <2>1. lens' = lens
    BY DEF Next, SendStep, Lock, ControlStep, ReadFrame, ReadLost, vars
  <2>2. FitsBuffer
    BY <1>2, <2>1 DEF FitsBuffer
  <2>3. ASSUME ReadFrame \/ ReadLost \/ UNCHANGED vars
        PROVE  (FramesContiguous /\ \A s \in Streams : Small(s))'
    <3>1. UNCHANGED <<lens, conn, streamVars>>
      BY <2>3 DEF ReadFrame, ReadLost, vars, streamVars
    <3>2. FramesContiguous'
      BY <2>2, <3>1 DEF SmallInv, FramesContiguous, Contiguous, FrameOf, LenOf, Part
    <3>3. \A s \in Streams : Small(s)'
      BY <2>2, <3>1 DEF SmallInv, streamVars, Small, FrameOf, LenOf, Part
    <3> QED
      BY <3>2, <3>3
  <2> QED
    BY <2>2, <2>3, SmallSend, SmallControl DEF Next
<1> QED
  BY <1>1, <1>2 DEF SmallInv

\* What the README promises of the write lock holds for files of one chunk that
\* fits the bufio.Writer: no frame is torn, for any number of streams and control
\* messages, even when writes time out.  (For larger chunks it does not.)
THEOREM SmallFramesWhole == Safety => [](FitsBuffer => FramesContiguous)
<1>1. SmallInv => (FitsBuffer => FramesContiguous)
  BY DEF SmallInv
<1> QED
  BY SmallInit, SmallStep, <1>1, PTL DEF Safety

------------------------------------------------------------------------------
(* The receiver of such files                                              *)

\* Frames one after the other: each begins with its header, none is cut short, and
\* where one ends the next begins.
FrameByFrame(units) ==
  /\ 1 \in DOMAIN units => units[1].part = 1
  /\ \A i \in 1..Len(units) : units[i].part = 1 =>
       LET n == LenOf(units[i].of, units[i].frame)
       IN  /\ i + n <= Len(units) + 1
           /\ \A k \in 1..n : units[i + k - 1] = Part(units[i].of, units[i].frame, k)
           /\ i + n <= Len(units) => units[i + n].part = 1

\* What is on the connection but for a control message's header whose ciphertext
\* is still to be written.
Settled ==
  IF \E c \in Controls : control[c] = "payload" THEN SubSeq(conn, 1, Len(conn) - 1) ELSE conn

\* The receiver stands where a frame begins, and has decrypted those before.
InFrames(units) ==
  /\ reading = "frames"
  /\ readPos <= Len(units)
  /\ readPos + 1 \in DOMAIN units => units[readPos + 1].part = 1
  /\ \A i \in 1..readPos : units[i].part = 1 =>
       \E k \in DOMAIN got : got[k] = <<units[i].of, units[i].frame>>

ReadInv == SmallInv /\ (FitsBuffer /\ ~WritesMayFail => FrameByFrame(Settled) /\ InFrames(Settled))

\* Another frame at the end.
LEMMA FrameFollows ==
  ASSUME TypeOK, NEW q \in Seq(Units), FrameByFrame(q), NEW w, NEW f \in Nat,
         \/ w \in Streams /\ f \in 1..Len(lens)
         \/ w \in Controls /\ f = 1
  PROVE  FrameByFrame(q \o FrameOf(w, f))
<1> DEFINE n == LenOf(w, f)
           fr == FrameOf(w, f)
           m == Len(q)
           all == q \o fr
<1>1. /\ fr \in Seq(Units) /\ Len(fr) = n /\ n \in Nat \ {0, 1} /\ m \in Nat
      /\ \A k \in 1..n : fr[k] = Part(w, f, k)
  BY FrameProperties
<1>2. /\ Len(all) = m + n
      /\ \A i \in 1..m : all[i] = q[i]
      /\ \A k \in 1..n : all[m + k] = Part(w, f, k)
  <2>1. fr \in Seq(Units)
    BY <1>1
  <2> HIDE DEF fr
  <2>2. /\ Len(q \o fr) = Len(q) + Len(fr)
        /\ \A i \in 1..Len(q) : (q \o fr)[i] = q[i]
        /\ \A i \in 1..Len(fr) : (q \o fr)[Len(q) + i] = fr[i]
    BY <2>1, Joined, ConcatProperties
  <2> QED
    BY <1>1, <2>2
<1>3. \A k : Part(w, f, k).of = w /\ Part(w, f, k).frame = f /\ Part(w, f, k).part = k
  BY DEF Part
<1>4. all \in Seq(Units)
  <2> HIDE DEF fr
  <2> QED
    BY <1>1, ConcatProperties
<1> HIDE DEF fr, all, m, n
<1>5. all[m + 1].part = 1
  BY <1>1, <1>2, <1>3
<1>6. all[1].part = 1
  <2>1. CASE m = 0
    BY <1>5, <2>1
  <2>2. CASE m # 0
    <3>1. 1 \in 1..m /\ 1 \in DOMAIN q
      BY <1>1, <2>2 DEF m
    <3> QED
      BY <1>2, <3>1 DEF FrameByFrame
  <2> QED
    BY <2>1, <2>2
<1>7. ASSUME NEW i \in 1..Len(all), all[i].part = 1
      PROVE  LET l == LenOf(all[i].of, all[i].frame)
             IN  /\ i + l <= Len(all) + 1
                 /\ \A k \in 1..l : all[i + k - 1] = Part(all[i].of, all[i].frame, k)
                 /\ i + l <= Len(all) => all[i + l].part = 1
  <2>1. CASE i <= m
    <3> DEFINE l == LenOf(q[i].of, q[i].frame)
    <3>1. i \in 1..m /\ all[i] = q[i] /\ q[i] \in Units
      BY <1>1, <1>2, <2>1 DEF m
    <3>2. l \in Nat \ {0, 1}
      BY <3>1, UnitOfFrame, LenOfType
    <3>3. /\ i + l <= m + 1
          /\ \A k \in 1..l : q[i + k - 1] = Part(q[i].of, q[i].frame, k)
          /\ i + l <= m => q[i + l].part = 1
      BY <1>7, <3>1 DEF FrameByFrame, m
    <3> HIDE DEF l
    <3>4. ASSUME NEW k \in 1..l
          PROVE  all[i + k - 1] = q[i + k - 1]
      <4>1. i + k - 1 \in 1..m
        BY <1>1, <3>1, <3>2, <3>3
      <4> QED
        BY <1>2, <4>1
    <3>5. i + l <= Len(all) => all[i + l].part = 1
      <4>1. CASE i + l <= m
        <5>1. i + l \in 1..m
          BY <1>1, <3>1, <3>2, <4>1
        <5> QED
          BY <1>2, <3>3, <4>1, <5>1
      <4>2. CASE ~(i + l <= m)
        <5>1. i + l = m + 1
          BY <1>1, <3>1, <3>2, <3>3, <4>2
        <5> QED
          BY <1>5, <5>1
      <4> QED
        BY <4>1, <4>2
    <3>6. i + l <= Len(all) + 1
      BY <1>1, <1>2, <3>1, <3>2, <3>3
    <3> QED
      BY <3>1, <3>3, <3>4, <3>5, <3>6 DEF l
  <2>2. CASE ~(i <= m)
    <3>1. i - m \in 1..n /\ m + (i - m) = i
      BY <1>1, <1>2, <2>2
    <3>2. all[i] = Part(w, f, i - m)
      BY <1>2, <3>1
    <3>3. i - m = 1 /\ i = m + 1 /\ all[i].of = w /\ all[i].frame = f
      BY <1>1, <1>3, <1>7, <3>1, <3>2
    <3>4. \A k \in 1..n : i + k - 1 = m + k
      BY <1>1, <3>3
    <3>5. i + n = Len(all) + 1 /\ ~(i + n <= Len(all))
      BY <1>1, <1>2, <3>3
    <3>6. LenOf(all[i].of, all[i].frame) = n
      BY <3>3 DEF n
    <3> QED
      BY <1>2, <3>3, <3>4, <3>5, <3>6
  <2> QED
    BY <2>1, <2>2
<1>8. FrameByFrame(all)
  BY <1>6, <1>7 DEF FrameByFrame
<1> QED
  BY <1>8 DEF all, fr

\* A receiver on a frame boundary reads the frame that begins there.
LEMMA FrameCut ==
  ASSUME TypeOK, NEW q \in Seq(Units), FrameByFrame(q), NEW p \in Nat, p + 1 <= Len(q),
         q[p + 1].part = 1
  PROVE  LET u == q[p + 1]
             n == LenOf(u.of, u.frame)
         IN  /\ n \in Nat \ {0, 1} /\ p + n <= Len(q)
             /\ SubSeq(q, p + 1, p + n) = FrameOf(u.of, u.frame)
             /\ p + n + 1 <= Len(q) => q[p + n + 1].part = 1
             /\ \A i \in (p + 2)..(p + n) : q[i].part # 1
<1> DEFINE u == q[p + 1]
           n == LenOf(u.of, u.frame)
           fr == FrameOf(u.of, u.frame)
<1>1. u \in Units /\ p + 1 \in 1..Len(q) /\ Len(q) \in Nat
  OBVIOUS
<1>2. /\ n \in Nat \ {0, 1} /\ fr \in Seq(Units) /\ Len(fr) = n
      /\ \A k \in 1..n : fr[k] = Part(u.of, u.frame, k)
  BY <1>1, UnitOfFrame, LenOfType, FrameProperties
<1>3. /\ (p + 1) + n <= Len(q) + 1
      /\ \A k \in 1..n : q[(p + 1) + k - 1] = Part(u.of, u.frame, k)
      /\ (p + 1) + n <= Len(q) => q[(p + 1) + n].part = 1
  BY <1>1 DEF FrameByFrame
<1>4. \A k : Part(u.of, u.frame, k).part = k
  BY DEF Part
<1> HIDE DEF u, n, fr
<1>5. p + n <= Len(q) /\ (p + 1) + n = p + n + 1 /\ p \in 0..(Len(q) - n)
  BY <1>1, <1>2, <1>3
<1>6. ASSUME NEW k \in 1..n
      PROVE  q[p + k] = Part(u.of, u.frame, k)
  <2>1. (p + 1) + k - 1 = p + k
    OBVIOUS
  <2>2. q[(p + 1) + k - 1] = Part(u.of, u.frame, k)
    BY <1>3
  <2> QED
    BY <2>1, <2>2
<1>7. SubSeq(q, p + 1, p + n) = fr
  BY <1>2, <1>5, <1>6, StretchIs
<1>8. ASSUME NEW i \in (p + 2)..(p + n)
      PROVE  q[i].part # 1
  <2>1. i - p \in 1..n /\ p + (i - p) = i /\ i - p # 1
    BY <1>2
  <2>2. q[p + (i - p)] = Part(u.of, u.frame, i - p)
    BY <1>6, <2>1
  <2> QED
    BY <1>4, <2>1, <2>2
<1> QED
  BY <1>2, <1>3, <1>5, <1>7, <1>8 DEF u, n, fr

\* What is settled, and what is not.
LEMMA SettledIs ==
  ASSUME WholeInv
  PROVE  /\ Settled \in Seq(Units) /\ conn \in Seq(Units)
         /\ \A i \in 1..Len(Settled) : conn[i] = Settled[i]
         /\ writeMu = {} => Settled = conn
         /\ \/ Settled = conn /\ \A c \in Controls : control[c] # "payload"
            \/ \E c \in Controls :
                 /\ control[c] = "payload" /\ writeMu = {c}
                 /\ conn = Settled \o <<Part(c, 1, 1)>>
                 /\ Len(conn) = Len(Settled) + 1 /\ conn[Len(conn)] = Part(c, 1, 1)
<1>1. conn \in Seq(Units) /\ WireTypes
  BY DEF WholeInv, WireTypes, TypeOK
<1>2. CASE \A c \in Controls : control[c] # "payload"
  BY <1>1, <1>2 DEF Settled
<1>3. ASSUME NEW c \in Controls, control[c] = "payload"
      PROVE  /\ writeMu = {c} /\ Settled \in Seq(Units)
             /\ \A i \in 1..Len(Settled) : conn[i] = Settled[i]
             /\ conn = Settled \o <<Part(c, 1, 1)>>
             /\ Len(conn) = Len(Settled) + 1 /\ conn[Len(conn)] = Part(c, 1, 1)
  <2>1. writeMu = {c} /\ conn # <<>> /\ conn[Len(conn)] = Part(c, 1, 1)
    BY <1>3 DEF WholeInv, UnderWay
  <2> DEFINE m == Len(conn) - 1
             h == Part(c, 1, 1)
  <2>2. Settled = SubSeq(conn, 1, m)
    BY <1>3 DEF Settled
  <2>3. m \in Nat /\ Len(conn) = m + 1
    BY <1>1, <2>1, EmptySeq
  <2> HIDE DEF m
  <2>4. /\ Settled \in Seq(Units) /\ Len(Settled) = m
        /\ \A i \in 1..m : Settled[i] = conn[i]
    <3>1. \A i \in 1..m : i \in 1..Len(conn) /\ conn[i] \in Units
      BY <1>1, <2>3
    <3>2. m \in Int /\ m - 1 + 1 = m /\ (IF 1 <= m THEN m - 1 + 1 ELSE 0) = m
      BY <2>3
    <3>3. SubSeq(conn, 1, m) \in Seq(Units) /\ Len(SubSeq(conn, 1, m)) = m
          /\ \A i \in 1..m : SubSeq(conn, 1, m)[i] = conn[1 + i - 1]
      BY <3>1, <3>2, SubSeqProperties
    <3> QED
      BY <2>2, <3>3
  <2>5. h \in Units
    BY <1>1, <2>1, <2>3
  <2> HIDE DEF h
  <2>6. <<h>> \in Seq(Units) /\ Len(<<h>>) = 1 /\ <<h>>[1] = h
    BY <2>5
  <2> DEFINE all == Settled \o <<h>>
  <2>7. /\ all \in Seq(Units) /\ Len(all) = m + 1
        /\ \A i \in 1..m : all[i] = Settled[i]
        /\ all[m + 1] = h
    BY <2>3, <2>4, <2>6, Joined, ConcatProperties
  <2> HIDE DEF all
  <2>8. \A i \in 1..Len(conn) : conn[i] = all[i]
    <3> SUFFICES ASSUME NEW i \in 1..Len(conn)
                 PROVE  conn[i] = all[i]
      OBVIOUS
    <3>1. CASE i = m + 1
      BY <2>1, <2>3, <2>7, <3>1 DEF h
    <3>2. CASE i # m + 1
      <4>1. i \in 1..m
        BY <2>3, <3>2
      <4> QED
        BY <2>4, <2>7, <4>1
    <3> QED
      BY <3>1, <3>2
  <2>9. conn = all
    BY <1>1, <2>3, <2>7, <2>8, SeqEqual
  <2> QED
    BY <2>1, <2>3, <2>4, <2>9 DEF all, h
<1>4. CASE \E c \in Controls : control[c] = "payload"
  <2>1. PICK c \in Controls : control[c] = "payload"
    BY <1>4
  <2>2. writeMu # {}
    BY <1>3, <2>1
  <2> QED
    BY <1>1, <1>3, <2>1, <2>2
<1> QED
  BY <1>2, <1>4

\* What is read next stays a header as whole frames are appended.
LEMMA InFramesGrows ==
  ASSUME TypeOK, NEW q \in Seq(Units), InFrames(q), NEW x \in Seq(Units),
         Len(x) >= 1, x[1].part = 1
  PROVE  InFrames(q \o x)
<1> DEFINE all == q \o x
<1>1. /\ Len(q) \in Nat /\ Len(x) \in Nat /\ readPos \in Nat
      /\ DOMAIN all = 1..(Len(q) + Len(x)) /\ DOMAIN q = 1..Len(q)
      /\ all \in Seq(Units) /\ Len(all) = Len(q) + Len(x)
      /\ \A i \in 1..Len(q) : all[i] = q[i]
      /\ \A i \in 1..Len(x) : all[Len(q) + i] = x[i]
  BY Joined, ConcatProperties DEF TypeOK
<1> HIDE DEF all
<1>2. /\ reading = "frames" /\ readPos <= Len(q)
      /\ readPos + 1 \in 1..Len(q) => q[readPos + 1].part = 1
      /\ \A i \in 1..readPos : q[i].part = 1 =>
           \E k \in DOMAIN got : got[k] = <<q[i].of, q[i].frame>>
  BY <1>1 DEF InFrames
<1>3. all[readPos + 1].part = 1
  <2>1. CASE readPos = Len(q)
    BY <1>1, <2>1
  <2>2. CASE readPos # Len(q)
    <3> DEFINE m == Len(q)
    <3>1. m \in Nat /\ readPos \in Nat /\ readPos <= m /\ readPos # m
      BY <1>1, <1>2, <2>2
    <3> HIDE DEF m
    <3>2. readPos + 1 \in 1..m
      BY <3>1
    <3> QED
      BY <1>1, <1>2, <3>2 DEF m
  <2> QED
    BY <2>1, <2>2
<1>4. \A i \in 1..readPos : i \in 1..Len(q) /\ all[i] = q[i]
  BY <1>1, <1>2
<1>5. readPos <= Len(all)
  BY <1>1, <1>2
<1>6. \A i \in 1..readPos : all[i].part = 1 =>
        \E k \in DOMAIN got : got[k] = <<all[i].of, all[i].frame>>
  BY <1>2, <1>4
<1> QED
  BY <1>2, <1>3, <1>5, <1>6 DEF InFrames, all

\* The receiver stands still, and what is settled grows by a frame or not at all.
LEMMA ReadOfWrites ==
  ASSUME SmallInv, FrameByFrame(Settled), InFrames(Settled), UNCHANGED <<lens, recvVars>>,
         NEW w, NEW f \in Nat,
         \/ w \in Streams /\ f \in 1..Len(lens)
         \/ w \in Controls /\ f = 1,
         Settled' = Settled \/ Settled' = Settled \o FrameOf(w, f)
  PROVE  FrameByFrame(Settled)' /\ InFrames(Settled)'
<1> DEFINE q == Settled
           fr == FrameOf(w, f)
<1>1. TypeOK /\ q \in Seq(Units)
  BY SettledIs DEF SmallInv, WholeInv, WireTypes
<1>2. /\ fr \in Seq(Units) /\ Len(fr) >= 1 /\ fr[1].part = 1
  <2>1. /\ fr \in Seq(Units) /\ Len(fr) = LenOf(w, f) /\ LenOf(w, f) \in Nat \ {0, 1}
        /\ fr[1] = Part(w, f, 1)
    BY <1>1, FrameProperties
  <2>2. Part(w, f, 1).part = 1
    BY DEF Part
  <2> HIDE DEF fr
  <2> QED
    BY <2>1, <2>2
<1>3. FrameByFrame(q \o fr)
  BY <1>1, FrameFollows
<1> HIDE DEF fr, q
<1>4. InFrames(q \o fr)
  BY <1>1, <1>2, InFramesGrows DEF q
<1>5. PICK r : Settled' = r /\ FrameByFrame(r) /\ InFrames(r)
  BY <1>3, <1>4 DEF q, fr
<1>6. FrameByFrame(Settled)'
  BY <1>5 DEF FrameByFrame, LenOf, Part
<1>7. InFrames(Settled)'
  BY <1>5 DEF InFrames, recvVars
<1> QED
  BY <1>6, <1>7

\* SendToPeer puts its whole frame behind whole frames, as nobody holds the lock.
LEMMA ReadOfSend ==
  ASSUME SmallInv, FitsBuffer, ~WritesMayFail, FrameByFrame(Settled), InFrames(Settled),
         NEW s \in Streams, SendStep(s)
  PROVE  FrameByFrame(Settled)' /\ InFrames(Settled)'
<1>1. /\ WireTypes /\ WholeInv /\ Small(s) /\ conn \in Seq(Units)
      /\ lens' = lens /\ control' = control /\ recvVars' = recvVars
  BY DEF SmallInv, WholeInv, WireTypes, TypeOK, SendStep, BeginFrame, CopyAll, Fill, Flush,
         Direct, EndFlush, SendFails, SendGivesUp
<1>2. 1 \in 1..Len(lens) /\ Len(lens) = 1
  BY <1>1, LenOfType DEF WireTypes, FitsBuffer
<1>3. BeginFrame(s) \/ CopyAll(s) \/ EndFlush(s) \/ SendGivesUp(s)
  BY <1>1, SmallFits DEF SendStep, SendFails
<1>4. conn' = conn \/ (Settled = conn /\ conn' = conn \o FrameOf(s, 1))
  <2>1. CASE BeginFrame(s) \/ CopyAll(s) \/ SendGivesUp(s)
    BY <2>1 DEF BeginFrame, CopyAll, SendGivesUp
  <2>2. CASE EndFlush(s)
    <3>0. send[s] = "frame" /\ frame[s] = 1 /\ conn' = conn \o buf[s]
      BY <1>2, <2>2 DEF EndFlush
    <3>1. buf[s] = FrameOf(s, 1) /\ conn' = conn \o FrameOf(s, 1)
      BY <1>1, <3>0 DEF Small
    <3>2. FrameOf(s, 1) # <<>>
      <4>1. Len(FrameOf(s, 1)) # 0 /\ FrameOf(s, 1) \in Seq(Units)
        BY <1>1, <1>2, FrameProperties DEF WireTypes
      <4> QED
        BY <4>1, EmptySeq
    <3>3. writeMu = {}
      BY <2>2, <3>1, <3>2 DEF EndFlush
    <3> QED
      BY <1>1, <3>1, <3>3, SettledIs
  <2> QED
    BY <1>3, <2>1, <2>2
<1>5. Settled' = Settled \/ Settled' = Settled \o FrameOf(s, 1)
  <2>1. CASE conn' = conn
    BY <1>1, <2>1 DEF Settled
  <2>2. CASE Settled = conn /\ conn' = conn \o FrameOf(s, 1) /\ conn' # conn
    <3>1. \A c \in Controls : control[c] # "payload"
      <4>1. writeMu = {}
        BY <1>1, <2>2, StreamsWriteUnlocked
      <4> QED
        BY <4>1 DEF SmallInv, WholeInv, UnderWay
    <3> QED
      BY <1>1, <2>2, <3>1 DEF Settled
  <2> QED
    BY <1>4, <2>1, <2>2
<1> QED
  BY <1>1, <1>2, <1>5, ReadOfWrites

\* A control message is settled with its second write, which completes its frame.
LEMMA ReadOfControl ==
  ASSUME SmallInv, FitsBuffer, ~WritesMayFail, FrameByFrame(Settled), InFrames(Settled),
         NEW c \in Controls, Lock(c) \/ ControlStep(c)
  PROVE  FrameByFrame(Settled)' /\ InFrames(Settled)'
<1> DEFINE h == Part(c, 1, 1)
           fr == FrameOf(c, 1)
<1>1. /\ WholeInv /\ conn \in Seq(Units) /\ TypeOK
      /\ UNCHANGED <<lens, recvVars>>
      /\ control \in [Controls -> {"idle", "header", "payload", "done", "failed"}]
      /\ \A d \in Controls : control[d] \in {"header", "payload"} => writeMu = {d}
  BY DEF SmallInv, WholeInv, UnderWay, WireTypes, TypeOK, Lock, ControlStep, WriteHeader,
         WritePayload, ControlFails
<1>2. /\ h \in Units /\ fr \in Seq(Units) /\ Tail(fr) \in Seq(Units) /\ <<h>> \o Tail(fr) = fr
  <2>1. /\ h \in Units /\ fr \in Seq(Units) /\ Tail(fr) \in Seq(Units)
        /\ Len(fr) \in Nat \ {0, 1} /\ fr[1] = h
    BY <1>1, LenOfType, FrameProperties
  <2>2. fr # <<>>
    BY <2>1, EmptySeq
  <2> HIDE DEF fr, h
  <2> QED
    BY <2>1, <2>2, HeadAndTail
<1> HIDE DEF h, fr
<1>3. Settled' = Settled \/ Settled' = Settled \o fr
  <2>1. CASE Lock(c)
    <3>1. writeMu = {} /\ conn' = conn /\ \A d \in Controls : control'[d] # "payload"
      BY <1>1, <2>1 DEF Lock
    <3> QED
      BY <1>1, <3>1, SettledIs DEF Settled
  <2>2. CASE WriteHeader(c)
    <3>1. /\ control[c] = "header" /\ control'[c] = "payload" /\ conn' = Append(conn, h)
          /\ \A d \in Controls : control[d] # "payload"
      BY <1>1, <2>2 DEF WriteHeader, h
    <3>2. Settled = conn /\ Settled' = SubSeq(conn', 1, Len(conn') - 1)
      BY <3>1 DEF Settled
    <3> DEFINE all == Append(conn, h)
               m == Len(conn)
    <3>3. /\ all \in Seq(Units) /\ Len(all) = m + 1 /\ m \in Nat
          /\ \A i \in 1..m : all[i] = conn[i]
      BY <1>1, <1>2, AppendProperties
    <3> HIDE DEF all
    <3>4. 0 \in 0..(Len(all) - m) /\ \A i \in 1..m : all[0 + i] = conn[i]
      BY <3>3
    <3>5. SubSeq(all, 0 + 1, 0 + m) = conn
      BY <1>1, <3>3, <3>4, StretchIs
    <3>6. Len(conn') - 1 = 0 + m /\ 0 + 1 = 1
      BY <3>1, <3>3 DEF all
    <3>7. SubSeq(conn', 1, Len(conn') - 1) = conn
      BY <3>1, <3>5, <3>6 DEF all
    <3> QED
      BY <3>2, <3>7
  <2>3. CASE WritePayload(c)
    <3>1. /\ control[c] = "payload" /\ writeMu = {c} /\ conn' = conn \o Tail(fr)
          /\ \A d \in Controls : control'[d] # "payload"
      BY <1>1, <2>3 DEF WritePayload, fr
    <3>2. conn = Settled \o <<h>> /\ Settled \in Seq(Units)
      <4>1. PICK d \in Controls : writeMu = {d} /\ conn = Settled \o <<Part(d, 1, 1)>>
        BY <1>1, <3>1, SettledIs
      <4>2. d = c
        BY <3>1, <4>1
      <4> QED
        BY <1>1, <4>1, <4>2, SettledIs DEF h
    <3>3. <<h>> \in Seq(Units)
      BY <1>2
    <3>4. (Settled \o <<h>>) \o Tail(fr) = Settled \o (<<h>> \o Tail(fr))
      <4> DEFINE q == <<h>>
                 r == Tail(fr)
      <4>1. Settled \in Seq(Units) /\ q \in Seq(Units) /\ r \in Seq(Units)
        BY <1>2, <3>2, <3>3
      <4> HIDE DEF q, r
      <4>2. Join(Join(Settled, q), r) = Join(Settled, Join(q, r))
        BY <4>1, JoinAssociative, SMT
      <4> QED
        BY <4>2 DEF Join, q, r
    <3>5. conn' = Settled \o fr
      BY <1>2, <3>1, <3>2, <3>4
    <3>6. Settled' = conn'
      BY <3>1 DEF Settled
    <3> QED
      BY <3>5, <3>6
  <2> QED
    BY <2>1, <2>2, <2>3 DEF ControlStep, ControlFails
<1> QED
  BY <1>1, <1>3, ReadOfWrites DEF fr

\* The receiver takes the frame that begins where it stands, and finds a header
\* wherever it looks.
LEMMA ReadOfRead ==
  ASSUME SmallInv, FrameByFrame(Settled), InFrames(Settled), ReadFrame \/ ReadLost
  PROVE  FrameByFrame(Settled)' /\ InFrames(Settled)'
<1> DEFINE q == Settled
           p == readPos
           u == conn[p + 1]
           n == LenOf(u.of, u.frame)
<1>1. /\ WholeInv /\ TypeOK /\ q \in Seq(Units) /\ conn \in Seq(Units) /\ p \in 0..Len(conn)
      /\ \A i \in 1..Len(q) : conn[i] = q[i]
      /\ Len(q) \in Nat /\ DOMAIN q = 1..Len(q)
      /\ got \in Seq(Writers \X (Nat \ {0}))
  <2>1. WholeInv /\ TypeOK
    BY DEF SmallInv, WholeInv, WireTypes
  <2>2. q \in Seq(Units) /\ conn \in Seq(Units) /\ \A i \in 1..Len(q) : conn[i] = q[i]
    BY <2>1, SettledIs
  <2> HIDE DEF q
  <2> QED
    BY <2>1, <2>2 DEF TypeOK
<1>2. \/ q = conn
      \/ /\ Len(conn) = Len(q) + 1 /\ \E c \in Controls : conn[Len(conn)] = Part(c, 1, 1)
         /\ \E x \in Seq(Units) : conn = q \o x
  <2>1. ASSUME NEW c \in Controls, control[c] = "payload", conn = q \o <<Part(c, 1, 1)>>,
               Len(conn) = Len(q) + 1, conn[Len(conn)] = Part(c, 1, 1)
        PROVE  /\ Len(conn) = Len(q) + 1 /\ \E d \in Controls : conn[Len(conn)] = Part(d, 1, 1)
               /\ \E x \in Seq(Units) : conn = q \o x
    <3>1. Part(c, 1, 1) \in Units
      <4>1. Len(conn) \in 1..Len(conn)
        BY <1>1, <2>1
      <4> QED
        BY <1>1, <2>1, <4>1
    <3>2. <<Part(c, 1, 1)>> \in Seq(Units)
      BY <3>1
    <3> QED
      BY <2>1, <3>2
  <2> QED
    BY <1>1, <2>1, SettledIs
<1>3. /\ reading = "frames" /\ p <= Len(q)
      /\ p + 1 \in 1..Len(q) => q[p + 1].part = 1
      /\ \A i \in 1..p : q[i].part = 1 =>
           \E k \in DOMAIN got : got[k] = <<q[i].of, q[i].frame>>
  BY <1>1 DEF InFrames
<1>4. /\ UNCHANGED <<lens, conn, control>> /\ Settled' = q /\ p < Len(conn)
  BY DEF ReadFrame, ReadLost, AtHeader, Settled
<1>5. FrameByFrame(Settled)'
  BY <1>4 DEF FrameByFrame, LenOf, Part
<1> HIDE DEF q
<1>6. u.part = 1
  <2>1. CASE p + 1 <= Len(q)
    <3>1. p + 1 \in 1..Len(q)
      BY <1>1, <2>1
    <3> QED
      BY <1>1, <1>3, <3>1
  <2>2. CASE ~(p + 1 <= Len(q))
    <3>1. q # conn /\ p + 1 = Len(conn)
      BY <1>1, <1>2, <1>3, <1>4, <2>2
    <3>2. PICK c \in Controls : u = Part(c, 1, 1)
      BY <1>2, <3>1
    <3> HIDE DEF u
    <3> QED
      BY <3>2 DEF Part
  <2> QED
    BY <2>1, <2>2
<1>7. ReadFrame /\ ~ReadLost
  BY <1>4, <1>6 DEF ReadLost, AtHeader
<1>8. /\ p + n <= Len(conn) /\ readPos' = p + n /\ reading' = "frames"
      /\ got' = IF SubSeq(conn, p + 1, p + n) = FrameOf(u.of, u.frame)
                THEN Append(got, <<u.of, u.frame>>) ELSE got
  BY <1>3, <1>7 DEF ReadFrame, Slice
<1>9. p + 1 <= Len(q) /\ u = q[p + 1]
  <2>1. ASSUME ~(p + 1 <= Len(q))
        PROVE  FALSE
    <3>1. q # conn /\ p + 1 = Len(conn)
      BY <1>1, <1>2, <1>3, <1>4, <2>1
    <3>2. PICK c \in Controls : u = Part(c, 1, 1)
      BY <1>2, <3>1
    <3>3. n = LenOf(c, 1)
      <4> HIDE DEF u
      <4> QED
        BY <3>2 DEF Part
    <3>4. n \in Nat \ {0, 1}
      BY <1>1, <3>3, LenOfType
    <3> HIDE DEF n
    <3> QED
      BY <1>1, <1>8, <3>1, <3>4
  <2>2. p + 1 \in 1..Len(q)
    BY <1>1, <2>1
  <2> QED
    BY <1>1, <2>1, <2>2
<1>10. FrameByFrame(q)
  BY DEF q
<1>11. /\ n \in Nat \ {0, 1} /\ p + n <= Len(q)
       /\ SubSeq(q, p + 1, p + n) = FrameOf(u.of, u.frame)
       /\ p + n + 1 <= Len(q) => q[p + n + 1].part = 1
       /\ \A i \in (p + 2)..(p + n) : q[i].part # 1
  <2>1. p \in Nat /\ q[p + 1].part = 1
    BY <1>1, <1>6, <1>9
  <2>2. LET v == q[p + 1]
            m == LenOf(v.of, v.frame)
        IN  /\ m \in Nat \ {0, 1} /\ p + m <= Len(q)
            /\ SubSeq(q, p + 1, p + m) = FrameOf(v.of, v.frame)
            /\ p + m + 1 <= Len(q) => q[p + m + 1].part = 1
            /\ \A i \in (p + 2)..(p + m) : q[i].part # 1
    BY <1>1, <1>9, <1>10, <2>1, FrameCut
  <2> QED
    BY <1>9, <2>2
<1>12. SubSeq(conn, p + 1, p + n) = FrameOf(u.of, u.frame)
  <2>1. CASE q = conn
    BY <1>11, <2>1
  <2>2. CASE \E x \in Seq(Units) : conn = q \o x
    <3>1. PICK x \in Seq(Units) : conn = q \o x
      BY <2>2
    <3> DEFINE fr == FrameOf(u.of, u.frame)
    <3>2. fr \in Seq(Units) /\ Len(fr) = n
      <4>1. u \in Units
        BY <1>1, <1>9
      <4> HIDE DEF u
      <4> QED
        BY <1>1, <4>1, UnitOfFrame, FrameProperties
    <3> HIDE DEF fr
    <3>3. p \in 0..(Len(q) - n) /\ SubSeq(q, p + 1, p + n) = fr
      BY <1>1, <1>11, SMTT(30) DEF fr
    <3> HIDE DEF u, n
    <3>4. SubSeq(q \o x, p + 1, p + n) = fr
      BY <1>1, <3>2, <3>3, StretchKept
    <3> QED
      BY <3>1, <3>4 DEF fr
  <2> QED
    BY <1>2, <2>1, <2>2
<1>13. got' = Append(got, <<u.of, u.frame>>)
  BY <1>8, <1>12
<1> HIDE DEF n, u
<1>14. /\ got'[Len(got) + 1] = <<u.of, u.frame>> /\ Len(got) + 1 \in DOMAIN got'
       /\ \A k \in DOMAIN got : k \in DOMAIN got' /\ got'[k] = got[k]
  BY <1>1, <1>13
<1>15. ASSUME NEW i \in 1..(p + n), q[i].part = 1
       PROVE  \E k \in DOMAIN got' : got'[k] = <<q[i].of, q[i].frame>>
  <2>1. CASE i <= p
    <3>1. PICK k \in DOMAIN got : got[k] = <<q[i].of, q[i].frame>>
      <4>1. i \in 1..p
        BY <1>1, <2>1
      <4> QED
        BY <1>3, <1>15, <4>1
    <3> QED
      BY <1>14, <3>1
  <2>2. CASE i = p + 1
    BY <1>9, <1>14, <2>2
  <2>3. CASE i > p + 1
    <3>1. i \in (p + 2)..(p + n)
      BY <1>1, <1>11, <2>3
    <3> QED
      BY <1>11, <1>15, <3>1
  <2> QED
    BY <1>1, <1>11, <2>1, <2>2, <2>3
<1>16. (p + n) + 1 \in DOMAIN q => q[(p + n) + 1].part = 1
  BY <1>1, <1>11
<1>17. InFrames(Settled)'
  <2>1. Settled' = q /\ readPos' = p + n /\ reading' = "frames" /\ p + n <= Len(q)
    BY <1>4, <1>8, <1>11
  <2> HIDE DEF p
  <2> QED
    BY <1>15, <1>16, <2>1 DEF InFrames
<1> QED
  BY <1>5, <1>17

LEMMA ReadInit == Init => ReadInv
<1> SUFFICES ASSUME Init
             PROVE  ReadInv
  OBVIOUS
<1>1. SmallInv
  BY SmallInit
<1>2. conn = <<>> /\ Settled = <<>> /\ readPos = 0 /\ reading = "frames"
  BY DEF Init, Settled
<1>3. Len(Settled) = 0 /\ DOMAIN Settled = {}
  BY <1>2
<1> QED
  BY <1>1, <1>2, <1>3 DEF ReadInv, FrameByFrame, InFrames

LEMMA ReadStep == ReadInv /\ [Next]_vars => ReadInv'
<1> SUFFICES ASSUME ReadInv, [Next]_vars
             PROVE  ReadInv'
  OBVIOUS
<1>1. SmallInv /\ SmallInv'
  BY SmallStep DEF ReadInv
<1>2. ASSUME FitsBuffer', ~WritesMayFail
      PROVE  FrameByFrame(Settled)' /\ InFrames(Settled)'
  <2>1. lens' = lens
    BY DEF Next, SendStep, Lock, ControlStep, ReadFrame, ReadLost, vars
  <2>2. FitsBuffer /\ FrameByFrame(Settled) /\ InFrames(Settled)
    BY <1>2, <2>1 DEF FitsBuffer, ReadInv
  <2>3. ASSUME UNCHANGED vars
        PROVE  FrameByFrame(Settled)' /\ InFrames(Settled)'
    <3>1. Settled' = Settled /\ UNCHANGED <<lens, readPos, reading, got>>
      BY <2>3 DEF vars, recvVars, Settled
    <3>2. FrameByFrame(Settled)'
      BY <2>2, <3>1 DEF FrameByFrame, LenOf, Part
    <3>3. InFrames(Settled)'
      BY <2>2, <3>1 DEF InFrames
    <3> QED
      BY <3>2, <3>3
  <2> QED
    BY <1>1, <1>2, <2>2, <2>3, ReadOfSend, ReadOfControl, ReadOfRead DEF Next
<1> QED
  BY <1>1, <1>2 DEF ReadInv

\* The receiver's side of the same: if the files fit the buffer and no write times
\* out, it is on a frame boundary at all times and decrypts whatever it cuts off the
\* stream, for any number of streams and control messages.
THEOREM SmallFramesRead == Safety => [](FitsBuffer /\ ~WritesMayFail => ReadsWholeFrames)
<1>1. ReadInv => (FitsBuffer /\ ~WritesMayFail => ReadsWholeFrames)
  <2> SUFFICES ASSUME ReadInv, FitsBuffer, ~WritesMayFail
               PROVE  ReadsWholeFrames
    OBVIOUS
  <2>1. InFrames(Settled) /\ WholeInv /\ TypeOK
    BY DEF ReadInv, SmallInv, WholeInv, WireTypes
  <2>2. \A i \in 1..Len(Settled) : conn[i] = Settled[i]
    BY <2>1, SettledIs
  <2>3. /\ reading = "frames" /\ readPos <= Len(Settled) /\ readPos \in Nat
        /\ \A i \in 1..readPos : Settled[i].part = 1 =>
             \E k \in DOMAIN got : got[k] = <<Settled[i].of, Settled[i].frame>>
    BY <2>1 DEF InFrames, TypeOK
  <2>4. \A i \in 1..readPos : conn[i] = Settled[i]
    <3>1. Len(Settled) \in Nat
      BY <2>1, SettledIs
    <3> QED
      BY <2>2, <2>3, <3>1
  <2> QED
    BY <2>3, <2>4 DEF ReadsWholeFrames
<1> QED
  BY ReadInit, ReadStep, <1>1, PTL DEF Safety

===============================================================================
