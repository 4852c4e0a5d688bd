------------------------------- MODULE PeerWire -------------------------------
(***************************************************************************)
(* The bytes the host puts on one peer's connection.  Every SendToPeer for *)
(* that peer has a bufio.Writer of its own over a lockedPeerWriter, which  *)
(* takes Peer.writeMu for one Write of the connection; offers and feed     *)
(* entries go through writeRawMessage, which takes it for a whole frame    *)
(* (src/internal/host/host.go, src/internal/transfer/transfer.go).  At the *)
(* far end readLoop cuts the bytes into frames again                       *)
(* (src/internal/receiver/receiver.go).                                    *)
(*                                                                         *)
(* Bytes come in units: the first unit of a frame is its type and length,  *)
(* the others are ciphertext.  In the code the buffer has 262144 bytes and *)
(* the frame of a full chunk 262215.                                       *)
(***************************************************************************)
EXTENDS Naturals, Sequences

CONSTANTS Streams,        \* the SendToPeer calls under way to this peer
          Controls,       \* calls of writeRawMessage, one frame each
          FileKinds,      \* files, each the lengths of its chunk frames
          ControlLen,     \* the length of a control frame
          BufSize,        \* the size of the bufio.Writer
          WritesMayFail   \* a write may time out after part of its bytes

ASSUME PeerWireAssumption ==
  /\ Streams \cap Controls = {}
  /\ FileKinds \subseteq Seq(Nat \ {0, 1})
  /\ ControlLen \in Nat \ {0, 1}
  /\ BufSize \in Nat \ {0}
  /\ WritesMayFail \in BOOLEAN

VARIABLES lens,      \* the kind of file that is sent
          writeMu,   \* the call of writeRawMessage that holds Peer.writeMu
          conn,      \* units written to the connection
          send,      \* where each SendToPeer stands
          frame,     \* frames it has begun
          arg,       \* what bufio.Writer.Write has left of its argument
          buf,       \* what the bufio.Writer holds
          control,   \* where each writeRawMessage stands
          readPos,   \* units the receiver has cut into frames
          reading,   \* the receiver reads frames, or is lost in the stream
          got        \* frames the receiver could decrypt

vars == <<lens, writeMu, conn, send, frame, arg, buf, control, readPos, reading, got>>
streamVars == <<send, frame, arg, buf>>
recvVars == <<readPos, reading, got>>

LenOf(w, f) == IF w \in Streams THEN lens[f] ELSE ControlLen
Part(w, f, k) == [of |-> w, frame |-> f, part |-> k]
FrameOf(w, f) == [k \in 1..LenOf(w, f) |-> Part(w, f, k)]

Init ==
  /\ lens \in FileKinds
  /\ writeMu = {} /\ conn = <<>>
  /\ send = [s \in Streams |-> "frame"]
  /\ frame = [s \in Streams |-> 0]
  /\ arg = [s \in Streams |-> <<>>]
  /\ buf = [s \in Streams |-> <<>>]
  /\ control = [c \in Controls |-> "idle"]
  /\ readPos = 0 /\ reading = "frames" /\ got = <<>>

------------------------------------------------------------------------------
(* SendToPeer through its bufio.Writer                                     *)

\* A buffer that forgets what it already holds.
RoomUnused(s) == BufSize

\* bw.Available()
Room(s) == BufSize - Len(buf[s])

\* MarshalRaw writes the type and length of the next frame.
BeginFrame(s) ==
  /\ send[s] = "frame"
  /\ frame[s] < Len(lens)
  /\ frame' = [frame EXCEPT ![s] = @ + 1]
  /\ arg' = [arg EXCEPT ![s] = <<Part(s, frame[s] + 1, 1)>>]
  /\ send' = [send EXCEPT ![s] = "write"]
  /\ UNCHANGED <<writeMu, conn, buf, control, recvVars>>

\* The ciphertext of the frame whose header is written.
Payload(s) == Tail(FrameOf(s, frame[s]))

\* The argument fits: it is copied, and MarshalRaw goes on to the ciphertext
\* or returns.
CopyAll(s) ==
  /\ send[s] = "write"
  /\ Len(arg[s]) <= Room(s)
  /\ buf' = [buf EXCEPT ![s] = @ \o arg[s]]
  /\ LET header == arg[s][1].part = 1
     IN  /\ arg' = [arg EXCEPT ![s] = IF header THEN Payload(s) ELSE <<>>]
         /\ send' = [send EXCEPT ![s] = IF header THEN "write" ELSE "frame"]
  /\ UNCHANGED <<writeMu, conn, frame, control, recvVars>>

\* It does not fit: the buffer is filled up, to be written out.
Fill(s) ==
  /\ send[s] = "write"
  /\ Len(arg[s]) > Room(s)
  /\ buf[s] # <<>>
  /\ buf' = [buf EXCEPT ![s] = @ \o SubSeq(arg[s], 1, Room(s))]
  /\ arg' = [arg EXCEPT ![s] = SubSeq(@, Room(s) + 1, Len(@))]
  /\ send' = [send EXCEPT ![s] = "flush"]
  /\ UNCHANGED <<writeMu, conn, frame, control, recvVars>>

\* Writing out the buffer without lockedPeerWriter's lock.
FlushUnlocked(s) ==
  /\ send[s] = "flush"
  /\ conn' = conn \o buf[s]
  /\ buf' = [buf EXCEPT ![s] = <<>>]
  /\ send' = [send EXCEPT ![s] = "write"]
  /\ UNCHANGED <<writeMu, frame, arg, control, recvVars>>

\* lockedPeerWriter.Write of the full buffer.
Flush(s) ==
  /\ send[s] = "flush"
  /\ writeMu = {}
  /\ conn' = conn \o buf[s]
  /\ buf' = [buf EXCEPT ![s] = <<>>]
  /\ send' = [send EXCEPT ![s] = "write"]
  /\ UNCHANGED <<writeMu, frame, arg, control, recvVars>>

\* A writer that sends a large argument ahead of what it has buffered.
DirectAhead(s) ==
  /\ send[s] = "write"
  /\ Len(arg[s]) > Room(s)
  /\ writeMu = {}
  /\ conn' = conn \o arg[s]
  /\ arg' = [arg EXCEPT ![s] = <<>>]
  /\ send' = [send EXCEPT ![s] = "frame"]
  /\ UNCHANGED <<writeMu, frame, buf, control, recvVars>>

\* Nothing is buffered and the argument is larger than the buffer: it goes to
\* lockedPeerWriter.Write as it is.
Direct(s) ==
  /\ send[s] = "write"
  /\ Len(arg[s]) > Room(s)
  /\ buf[s] = <<>>
  /\ writeMu = {}
  /\ conn' = conn \o arg[s]
  /\ arg' = [arg EXCEPT ![s] = <<>>]
  /\ send' = [send EXCEPT ![s] = "frame"]
  /\ UNCHANGED <<writeMu, frame, buf, control, recvVars>>

\* The last flush without the lock.
EndFlushUnlocked(s) ==
  /\ send[s] = "frame"
  /\ frame[s] = Len(lens)
  /\ conn' = conn \o buf[s]
  /\ buf' = [buf EXCEPT ![s] = <<>>]
  /\ send' = [send EXCEPT ![s] = "done"]
  /\ UNCHANGED <<writeMu, frame, arg, control, recvVars>>

\* chunkCh is drained: bw.Flush().
EndFlush(s) ==
  /\ send[s] = "frame"
  /\ frame[s] = Len(lens)
  /\ buf[s] = <<>> \/ writeMu = {}
  /\ conn' = conn \o buf[s]
  /\ buf' = [buf EXCEPT ![s] = <<>>]
  /\ send' = [send EXCEPT ![s] = "done"]
  /\ UNCHANGED <<writeMu, frame, arg, control, recvVars>>

\* The bytes of the Write that the connection is given next.
Outgoing(s) == IF send[s] = "write" THEN arg[s] ELSE buf[s]

AboutToWrite(s) ==
  \/ send[s] = "flush"
  \/ send[s] = "write" /\ Len(arg[s]) > Room(s) /\ buf[s] = <<>>
  \/ send[s] = "frame" /\ frame[s] = Len(lens) /\ buf[s] # <<>>

\* The write times out after some of its bytes: SendToPeer gives up, and the
\* connection stays open.
SendFails(s) ==
  /\ WritesMayFail
  /\ AboutToWrite(s)
  /\ writeMu = {}
  /\ \E n \in 0..(Len(Outgoing(s)) - 1) : conn' = conn \o SubSeq(Outgoing(s), 1, n)
  /\ send' = [send EXCEPT ![s] = "failed"]
  /\ arg' = [arg EXCEPT ![s] = <<>>]
  /\ buf' = [buf EXCEPT ![s] = <<>>]
  /\ UNCHANGED <<writeMu, frame, control, recvVars>>

\* The file cannot be read on, or a chunk cannot be encrypted: SendToPeer gives up
\* between two frames, and what its buffer holds is never written.
SendGivesUp(s) ==
  /\ send[s] = "frame"
  /\ send' = [send EXCEPT ![s] = "failed"]
  /\ buf' = [buf EXCEPT ![s] = <<>>]
  /\ UNCHANGED <<writeMu, conn, frame, arg, control, recvVars>>

SendStep(s) == /\ UNCHANGED lens
               /\ \/ BeginFrame(s) \/ CopyAll(s) \/ Fill(s) \/ Flush(s)
                  \/ Direct(s) \/ EndFlush(s) \/ SendFails(s) \/ SendGivesUp(s)

------------------------------------------------------------------------------
(* writeRawMessage                                                         *)

Lock(c) ==
  /\ control[c] = "idle"
  /\ writeMu = {}
  /\ writeMu' = {c}
  /\ control' = [control EXCEPT ![c] = "header"]
  /\ UNCHANGED <<lens, conn, streamVars, recvVars>>

WriteHeader(c) ==
  /\ control[c] = "header"
  /\ conn' = Append(conn, Part(c, 1, 1))
  /\ control' = [control EXCEPT ![c] = "payload"]
  /\ UNCHANGED <<writeMu, streamVars, recvVars>>

\* The last Write of MarshalRaw, and the deferred Unlock.
WritePayload(c) ==
  /\ control[c] = "payload"
  /\ conn' = conn \o Tail(FrameOf(c, 1))
  /\ writeMu' = {}
  /\ control' = [control EXCEPT ![c] = "done"]
  /\ UNCHANGED <<streamVars, recvVars>>

\* An error path that returns without unlocking.
ControlFailsLocked(c) ==
  /\ WritesMayFail
  /\ \/ control[c] = "header" /\ UNCHANGED conn
     \/ /\ control[c] = "payload"
        /\ \E n \in 0..(ControlLen - 2) : conn' = conn \o SubSeq(Tail(FrameOf(c, 1)), 1, n)
  /\ control' = [control EXCEPT ![c] = "failed"]
  /\ UNCHANGED <<writeMu, streamVars, recvVars>>

\* One of its writes times out: the frame stays torn.
ControlFails(c) ==
  /\ WritesMayFail
  /\ \/ control[c] = "header" /\ UNCHANGED conn
     \/ /\ control[c] = "payload"
        /\ \E n \in 0..(ControlLen - 2) : conn' = conn \o SubSeq(Tail(FrameOf(c, 1)), 1, n)
  /\ writeMu' = {}
  /\ control' = [control EXCEPT ![c] = "failed"]
  /\ UNCHANGED <<streamVars, recvVars>>

ControlStep(c) == /\ UNCHANGED lens
                  /\ WriteHeader(c) \/ WritePayload(c) \/ ControlFails(c)

------------------------------------------------------------------------------
(* The receiver's readLoop                                                 *)

\* The frame the length at the read position calls for.
Slice == SubSeq(conn, readPos + 1,
                readPos + LenOf(conn[readPos + 1].of, conn[readPos + 1].frame))

AtHeader == readPos < Len(conn) /\ conn[readPos + 1].part = 1

\* Unmarshal returns and Decrypt authenticates the ciphertext; a packet it
\* does not accept is skipped.
ReadFrame ==
  /\ reading = "frames"
  /\ AtHeader
  /\ LET of == conn[readPos + 1].of  f == conn[readPos + 1].frame
     IN  /\ readPos + LenOf(of, f) <= Len(conn)
         /\ readPos' = readPos + LenOf(of, f)
         /\ got' = IF Slice = FrameOf(of, f) THEN Append(got, <<of, f>>) ELSE got
  /\ UNCHANGED <<lens, writeMu, conn, streamVars, control, reading>>

\* Ciphertext is taken for a type and a length: what is read from here on is
\* not a frame any more.
ReadLost ==
  /\ reading = "frames"
  /\ readPos < Len(conn)
  /\ ~AtHeader
  /\ reading' = "lost"
  /\ UNCHANGED <<lens, writeMu, conn, streamVars, control, readPos, got>>

------------------------------------------------------------------------------
Next == \/ \E s \in Streams : SendStep(s)
        \/ \E c \in Controls : Lock(c) \/ ControlStep(c)
        \/ ReadFrame \/ ReadLost

Safety == Init /\ [][Next]_vars

(* A write has a deadline, so it ends; sync.Mutex hands the lock on to a   *)
(* goroutine that has waited (strong fairness).  Control messages need not *)
(* be sent at all.                                                         *)
Fairness == /\ \A s \in Streams : SF_vars(SendStep(s))
            /\ \A c \in Controls : WF_vars(ControlStep(c))
            /\ WF_vars(ReadFrame \/ ReadLost)

Spec == Safety /\ Fairness

------------------------------------------------------------------------------
(* Properties                                                              *)

Writers == Streams \cup Controls
Units == [of : Streams, frame : 1..Len(lens), part : Nat \ {0}]
           \cup [of : Controls, frame : {1}, part : Nat \ {0}]

\* The values the variables range over; a buffer never holds more than its size.
TypeOK ==
  /\ lens \in FileKinds
  /\ writeMu \subseteq Controls
  /\ conn \in Seq(Units)
  /\ send \in [Streams -> {"frame", "write", "flush", "done", "failed"}]
  /\ frame \in [Streams -> 0..Len(lens)]
  /\ arg \in [Streams -> Seq(Units)]
  /\ buf \in [Streams -> Seq(Units)]
  /\ \A s \in Streams : Len(buf[s]) <= BufSize
  /\ control \in [Controls -> {"idle", "header", "payload", "done", "failed"}]
  /\ readPos \in 0..Len(conn)
  /\ reading \in {"frames", "lost"}
  /\ got \in Seq(Writers \X (Nat \ {0}))

\* The unit that comes after u in its writer's stream.
After(u) == IF u.part < LenOf(u.of, u.frame)
            THEN [u EXCEPT !.part = @ + 1]
            ELSE [u EXCEPT !.frame = @ + 1, !.part = 1]

\* The places of a writer's units in a sequence of them.
PlacesOf(w, units) == {i \in DOMAIN units : units[i].of = w}

\* Each of its units is the first of its stream, or the one that comes after the
\* unit of its that is in front of it.
InStep(w, units) ==
  \A j \in PlacesOf(w, units) :
    \/ units[j] = Part(w, 1, 1) /\ \A i \in PlacesOf(w, units) : i >= j
    \/ \E i \in PlacesOf(w, units) :
         /\ i < j /\ units[j] = After(units[i])
         /\ \A k \in PlacesOf(w, units) : k <= i \/ k >= j

\* The units of one SendToPeer on the connection, in its buffer and in the
\* argument of the running Write are one unbroken run of its stream from the
\* start: the buffered and the direct writes never overtake or drop each other.
StreamsKeepOrder == \A s \in Streams : InStep(s, conn \o buf[s] \o arg[s])

Contiguous(w, f) ==
  \E i \in 0..(Len(conn) - LenOf(w, f)) :
    SubSeq(conn, i + 1, i + LenOf(w, f)) = FrameOf(w, f)

\* A control message that was written without an error stands on the
\* connection in one piece, whatever the streams do meanwhile.
ControlFramesWhole ==
  \A c \in Controls : control[c] = "done" => Contiguous(c, 1)

\* The chunks of a file that the receiver decrypts are the first ones, in
\* order: a frame that was torn is never skipped over.  The receiver takes the
\* end of the last chunk for the end of the file, so "only a complete, verified
\* file gets renamed to its real name" (README.md:124-125) depends on it.
NoChunkSkipped ==
  \A s \in Streams :
    LET mine == SelectSeq(got, LAMBDA g : g[1] = s)
    IN  \A i \in 1..Len(mine) : mine[i][2] = i

\* Every SendToPeer gets through its writes, and every control message that
\* took the lock gives it back.
WritesEnd ==
  /\ \A s \in Streams : <>(send[s] \in {"done", "failed"})
  /\ (writeMu # {}) ~> (writeMu = {})

\* "A per-peer write mutex keeps frames from interleaving" (README.md:191-192):
\* a frame whose last unit is on the connection stands there in one piece.
FramesContiguous ==
  \A i \in 1..Len(conn) :
    LET u == conn[i]
    IN  u.part = LenOf(u.of, u.frame) => Contiguous(u.of, u.frame)

\* A file of one chunk whose frame fits into the bufio.Writer.
FitsBuffer == Len(lens) = 1 /\ lens[1] <= BufSize

\* The receiver is on a frame boundary, and what it has cut off the stream it has
\* decrypted: no frame came between another's units.
ReadsWholeFrames ==
  /\ reading = "frames"
  /\ \A i \in 1..readPos : conn[i].part = 1 =>
       \E k \in DOMAIN got : got[k] = <<conn[i].of, conn[i].frame>>

\* Files of one chunk that fits the buffer are decrypted by the receiver
\* whatever else goes over the connection, unless a SendToPeer has given up or a write
\* has timed out.
EverythingArrives ==
  FitsBuffer ~> \/ \A s \in Streams : \E i \in 1..Len(got) : got[i] = <<s, 1>>
                \/ \E s \in Streams : send[s] = "failed"
                \/ \E c \in Controls : control[c] = "failed"

==============================================================================
