----------------------------- MODULE ChunkStream -----------------------------
(***************************************************************************)
(* One call of Transfer.SendToPeer and the goroutine Transfer.ReadChunks   *)
(* starts for it (src/internal/transfer/transfer.go).  The reader cuts the *)
(* file into chunks and feeds a bounded channel; the sender selects over   *)
(* that channel and the error channel, and writes every chunk through a    *)
(* bufio.Writer to the peer's connection.                                  *)
(*                                                                         *)
(* A chunk is its number in the file.  What the buffered writer has of the *)
(* stream is counted in whole chunk frames, and how many of them leave     *)
(* with one write is left open: PeerWire looks inside that writer.         *)
(***************************************************************************)
EXTENDS Naturals, Sequences

CONSTANTS NumChunks,        \* chunks in the file
          ChunkChCap,       \* capacity of chunkCh (10 in the code)
          ReadsMayFail,     \* opening or reading the file may return an error
          WritesMayFail     \* a write to the connection may return an error

ASSUME ChunkStreamAssumption ==
  /\ NumChunks \in Nat
  /\ ChunkChCap \in Nat \ {0}
  /\ ReadsMayFail \in BOOLEAN
  /\ WritesMayFail \in BOOLEAN

VARIABLES reader,       \* where the goroutine of ReadChunks stands
          nextRead,     \* chunks read from the file so far
          chunkCh,      \* chunks queued between the two goroutines
          chunkClosed,  \* chunkCh has been closed
          errCh,        \* the error queued in errCh, if any
          errClosed,    \* errCh has been closed
          sender,       \* where SendToPeer stands
          held,         \* the chunk SendToPeer took and has not written
          buffered,     \* chunks not yet out of the bufio.Writer
          wire,         \* chunks handed to the connection
          peerState,    \* t.peerStates[peerID]
          peerOffset    \* t.peerOffset[peerID], in chunks

readerVars == <<reader, nextRead>>
chanVars   == <<chunkCh, chunkClosed, errCh, errClosed>>
outVars    == <<buffered, wire>>
peerVars   == <<peerState, peerOffset>>
vars       == <<reader, nextRead, chunkCh, chunkClosed, errCh, errClosed,
                sender, held, buffered, wire, peerState, peerOffset>>

Init ==
  /\ reader = "off"      /\ nextRead = 0
  /\ chunkCh = <<>>      /\ chunkClosed = FALSE
  /\ errCh = <<>>        /\ errClosed = FALSE
  /\ sender = "start"    /\ held = <<>>
  /\ buffered = <<>>     /\ wire = <<>>
  /\ peerState = "Accepted" /\ peerOffset = 0

------------------------------------------------------------------------------
(* The goroutine of ReadChunks                                             *)

\* The file is open; Read is the next call.
OpenFile ==
  /\ reader = "open"
  /\ reader' = "read"
  /\ UNCHANGED <<nextRead, chanVars, sender, held, outVars, peerVars>>

\* os.Open or file.Read fails: the error is queued and the deferred calls run.
ReadFails ==
  /\ ReadsMayFail
  /\ reader \in {"open", "read"}
  /\ errCh' = Append(errCh, "error")
  /\ reader' = "closeErr"
  /\ UNCHANGED <<nextRead, chunkCh, chunkClosed, errClosed,
                 sender, held, outVars, peerVars>>

ReadChunk ==
  /\ reader = "read"
  /\ nextRead < NumChunks
  /\ nextRead' = nextRead + 1
  /\ reader' = "put"
  /\ UNCHANGED <<chanVars, sender, held, outVars, peerVars>>

\* A reader whose channel has no capacity to wait for.
PutUnbounded ==
  /\ reader = "put"
  /\ chunkCh' = Append(chunkCh, nextRead)
  /\ reader' = "read"
  /\ UNCHANGED <<nextRead, chunkClosed, errCh, errClosed,
                 sender, held, outVars, peerVars>>

\* A reader that, instead of waiting, drops the chunk when the channel is full.
PutDropsWhenFull ==
  /\ reader = "put"
  /\ chunkCh' = IF Len(chunkCh) < ChunkChCap
                THEN Append(chunkCh, nextRead) ELSE chunkCh
  /\ reader' = "read"
  /\ UNCHANGED <<nextRead, chunkClosed, errCh, errClosed,
                 sender, held, outVars, peerVars>>

\* chunkCh <- chunk: waits for room.
PutChunk ==
  /\ reader = "put"
  /\ Len(chunkCh) < ChunkChCap
  /\ chunkCh' = Append(chunkCh, nextRead)
  /\ reader' = "read"
  /\ UNCHANGED <<nextRead, chunkClosed, errCh, errClosed,
                 sender, held, outVars, peerVars>>

\* file.Read returns 0, io.EOF: the loop ends and the deferred calls run.
ReadEOF ==
  /\ reader = "read"
  /\ nextRead = NumChunks
  /\ reader' = "closeErr"
  /\ UNCHANGED <<nextRead, chanVars, sender, held, outVars, peerVars>>

\* close(errCh) is deferred last and therefore runs first.
CloseErr ==
  /\ reader = "closeErr"
  /\ errClosed' = TRUE
  /\ reader' = "closeChunk"
  /\ UNCHANGED <<nextRead, chunkCh, chunkClosed, errCh,
                 sender, held, outVars, peerVars>>

\* A reader that returns without closing chunkCh.
LeaveChunkChOpen ==
  /\ reader = "closeChunk"
  /\ reader' = "done"
  /\ UNCHANGED <<nextRead, chanVars, sender, held, outVars, peerVars>>

CloseChunk ==
  /\ reader = "closeChunk"
  /\ chunkClosed' = TRUE
  /\ reader' = "done"
  /\ UNCHANGED <<nextRead, chunkCh, errCh, errClosed,
                 sender, held, outVars, peerVars>>

------------------------------------------------------------------------------
(* SendToPeer                                                              *)

\* SetState(InProgress), a fresh bufio.Writer, and ReadChunks.  Here as below SetState
\* returns at once: that its send waits for room is in HostRoom.
StartSend ==
  /\ sender = "start"
  /\ peerState' = "InProgress"
  /\ sender' = "select"
  /\ reader' = "open"
  /\ UNCHANGED <<nextRead, chanVars, held, outVars, peerOffset>>

\* case chunk, ok := <-chunkCh, ok.
SelectChunk ==
  /\ sender = "select"
  /\ chunkCh # <<>>
  /\ held' = <<Head(chunkCh)>>
  /\ chunkCh' = Tail(chunkCh)
  /\ sender' = "write"
  /\ UNCHANGED <<readerVars, chunkClosed, errCh, errClosed, outVars, peerVars>>

\* case chunk, ok := <-chunkCh, !ok: closed and drained.
SelectClosed ==
  /\ sender = "select"
  /\ chunkCh = <<>>
  /\ chunkClosed
  /\ sender' = "flush"
  /\ UNCHANGED <<readerVars, chanVars, held, outVars, peerVars>>

\* A sender that takes any value of errCh for the end of the stream.
AfterErrEndsAlways(pending) == IF pending = <<>> THEN "flush" ELSE "fail"

\* The body of case err := <-errCh: the nil of a closed errCh loops.
AfterErr(pending) == IF pending = <<>> THEN "select" ELSE "fail"

\* case err := <-errCh: a queued error, or nil for ever once errCh is closed.
SelectErr ==
  /\ sender = "select"
  /\ errCh # <<>> \/ errClosed
  /\ sender' = AfterErr(errCh)
  /\ errCh' = <<>>
  /\ UNCHANGED <<readerVars, chunkCh, chunkClosed, errClosed,
                 held, outVars, peerVars>>

\* The first n of the pending frames leave the bufio.Writer.
Push(pending, n) ==
  /\ wire' = wire \o SubSeq(pending, 1, n)
  /\ buffered' = SubSeq(pending, n + 1, Len(pending))

\* A sender that reports what the reader has read instead of what it wrote.
OffsetAfterRead == nextRead

\* chunk.Offset + len(chunk.Data), in chunks.
OffsetAfter == Head(held)

\* encodeChunk, encryptor, MarshalRaw into bw, and UpdateOffset.
WriteChunk ==
  /\ sender = "write"
  /\ \E n \in 0..(Len(buffered) + 1) : Push(buffered \o held, n)
  /\ peerOffset' = OffsetAfter
  /\ held' = <<>>
  /\ sender' = "select"
  /\ UNCHANGED <<readerVars, chanVars, peerState>>

\* One of these calls fails, after some frames already left.
WriteFails ==
  /\ WritesMayFail
  /\ sender = "write"
  /\ \E n \in 0..(Len(buffered) + 1) : Push(buffered \o held, n)
  /\ held' = <<>>
  /\ sender' = "fail"
  /\ UNCHANGED <<readerVars, chanVars, peerVars>>

\* A sender that reports success without flushing.
CompleteUnflushed ==
  /\ sender = "flush"
  /\ sender' = "complete"
  /\ UNCHANGED <<readerVars, chanVars, held, outVars, peerVars>>

\* bw.Flush()
Flush ==
  /\ sender = "flush"
  /\ Push(buffered, Len(buffered))
  /\ sender' = "complete"
  /\ UNCHANGED <<readerVars, chanVars, held, peerVars>>

FlushFails ==
  /\ WritesMayFail
  /\ sender = "flush"
  /\ \E n \in 0..Len(buffered) : Push(buffered, n)
  /\ sender' = "fail"
  /\ UNCHANGED <<readerVars, chanVars, held, peerVars>>

\* SetState(Completed); return nil
Complete ==
  /\ sender = "complete"
  /\ peerState' = "Completed"
  /\ sender' = "done"
  /\ UNCHANGED <<readerVars, chanVars, held, outVars, peerOffset>>

\* SetState(Failed); return err
Fail ==
  /\ sender = "fail"
  /\ peerState' = "Failed"
  /\ sender' = "done"
  /\ UNCHANGED <<readerVars, chanVars, held, outVars, peerOffset>>

------------------------------------------------------------------------------
ReaderStep == \/ OpenFile \/ ReadFails \/ ReadChunk \/ PutChunk
              \/ ReadEOF \/ CloseErr \/ CloseChunk

SenderStep == \/ StartSend \/ SelectChunk \/ SelectClosed \/ SelectErr
              \/ WriteChunk \/ WriteFails \/ Flush \/ FlushFails
              \/ Complete \/ Fail

Next == ReaderStep \/ SenderStep

Safety == Init /\ [][Next]_vars

(* Both goroutines are run by the Go scheduler.  A select with several     *)
(* ready cases draws one at random, so the nil of a closed errCh does not  *)
(* win for ever against a ready chunkCh: receiving from chunkCh is fair.   *)
Fairness == /\ WF_vars(ReaderStep)
            /\ WF_vars(SenderStep)
            /\ WF_vars(SelectChunk \/ SelectClosed)

Spec == Safety /\ Fairness

------------------------------------------------------------------------------
(* Properties                                                              *)

ReaderPC == {"off", "open", "read", "put", "closeErr", "closeChunk", "done"}
SenderPC == {"start", "select", "write", "flush", "complete", "fail", "done"}

\* The values the variables range over; chunkCh is never over its capacity.
TypeOK ==
  /\ reader \in ReaderPC
  /\ nextRead \in 0..NumChunks
  /\ chunkCh \in Seq(0..NumChunks) /\ Len(chunkCh) <= ChunkChCap
  /\ chunkClosed \in BOOLEAN
  /\ errCh \in Seq({"error"}) /\ Len(errCh) <= 1
  /\ errClosed \in BOOLEAN
  /\ sender \in SenderPC
  /\ held \in Seq(0..NumChunks) /\ Len(held) <= 1
  /\ buffered \in Seq(0..NumChunks)
  /\ wire \in Seq(0..NumChunks)
  /\ peerState \in {"Accepted", "InProgress", "Completed", "Failed"}
  /\ peerOffset \in 0..NumChunks

\* s holds consecutive chunk numbers, the first of them from + 1.
Consecutive(s, from) == \A i \in 1..Len(s) : s[i] = from + i

Written  == Len(wire) + Len(buffered)
InFlight == Len(held) + Len(chunkCh) + (IF reader = "put" THEN 1 ELSE 0)

\* Until a write fails, the chunks on the connection, in the bufio.Writer, in
\* SendToPeer's hands, in chunkCh and in the reader's hands are together the
\* chunks 1..nextRead, each exactly once and in file order: no interleaving of
\* the two goroutines loses, repeats or reorders one.
ChunksInOrder ==
  /\ Consecutive(wire, 0)
  /\ Consecutive(buffered, Len(wire))
  /\ Consecutive(held, Written)
  /\ peerState # "Failed" /\ sender # "fail" =>
       /\ Consecutive(chunkCh, Written + Len(held))
       /\ Written + InFlight = nextRead

\* The host's offset for a peer, the number its progress bar shows, counts
\* chunks that were given to the writer, all of them once the state is
\* COMPLETED: UpdateOffset runs after MarshalRaw and never behind its back.
OffsetIsWritten ==
  /\ peerOffset <= Written
  /\ peerState = "Completed" => peerOffset = Written

\* COMPLETED means that every chunk that was ever read from the file has left
\* for the connection: none is stranded in chunkCh, in either goroutine's hands
\* or in the buffered writer, whichever case the last select drew.
CompletedIsSent ==
  peerState = "Completed" => Len(wire) = nextRead /\ buffered = <<>>

\* "SendToPeer already records the terminal state on t" (host.go:368-369):
\* COMPLETED is recorded for a file that was sent to its end, FAILED otherwise.
CompletedIsWhole ==
  peerState = "Completed" => Len(wire) = NumChunks /\ buffered = <<>>

\* The goroutine that reads the file outlives SendToPeer only when SendToPeer
\* failed: a finished transfer leaves no goroutine parked on chunkCh.
ReaderLeaksOnlyOnFailure ==
  sender = "done" /\ reader # "done" => peerState = "Failed"

\* The abstract view of the call: the chunks on the connection are those
\* delivered, and a call that could not read its file to the end has failed,
\* even where SendToPeer lost the reader's error and recorded COMPLETED.
Outcome == IF peerState = "Completed" /\ nextRead < NumChunks THEN "Failed" ELSE peerState

Delivery == INSTANCE ChunkDelivery WITH peerState <- Outcome, delivered <- Len(wire)

\* SendToPeer, its reader, its channels and its buffered writer implement
\* ChunkDelivery.
DeliverySpec == Delivery!Spec

==============================================================================
