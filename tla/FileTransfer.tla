----------------------------- MODULE FileTransfer -----------------------------
(***************************************************************************)
(* An accepted transfer from the host's file to the receiver's save        *)
(* directory: the stream of ChunkStream, the connection, and the           *)
(* FileWriter of the receiver that takes the chunks                        *)
(* (src/internal/receiver/receiver.go, src/internal/transfer/transfer.go). *)
(* It starts where HandleFileAccept starts SendToPeer; the receiver has    *)
(* registered its writer before that (ReceiverFiles!AcceptedHasWriter).    *)
(*                                                                         *)
(* The size in the offer is the one the file had when it was offered, and  *)
(* the file is opened and read after the answer: it may have grown or      *)
(* shrunk.  Sizes are counted in half chunks, so that the last chunk of    *)
(* either may be a short one.  Frames arrive whole here (PeerWire looks at *)
(* that), and offers of no bytes, which have no chunks, are left to        *)
(* ReceiverFiles.                                                          *)
(***************************************************************************)
EXTENDS ChunkStream

CONSTANTS Sizes,         \* the sizes the offer may have carried
          DiskMayFail,   \* writing or renaming the receiver's file may fail
          LinkMayFail    \* the connection may break

ASSUME FileTransferAssumption ==
  /\ Sizes \subseteq Nat \ {0}
  /\ DiskMayFail \in BOOLEAN /\ LinkMayFail \in BOOLEAN

VARIABLES fileSize,     \* FileOffer.FileSize, which is fw.fileSize
          readSize,     \* what ReadChunks finds in the file
          link,         \* the connection: "up" or "down"
          taken,        \* chunks readLoop has taken from the connection
          registered,   \* the transfer is in r.fileWriters
          stored,       \* the chunks in the receiver's file
          renamed,      \* that file has its real name, and not .part
          shown         \* the last state pushed to the receiver's progressCh

fileVars == <<registered, stored, renamed, shown>>
receiverVars == <<fileSize, readSize, link, taken, fileVars>>
systemVars == <<vars, receiverVars>>

\* NumChunks chunks, the last of them whole or half.
ReadSizes == {n \in 0..(2 * NumChunks) : 2 * NumChunks - 1 <= n}

SystemInit ==
  /\ Init
  /\ fileSize \in Sizes /\ readSize \in ReadSizes
  /\ link = "up" /\ taken = 0
  /\ registered = TRUE /\ stored = {} /\ renamed = FALSE /\ shown = "nothing"

\* chunk.Offset, and chunk.Offset + len(chunk.Data)
ChunkStart(c) == 2 * (c - 1)
ChunkEnd(c) == IF c = NumChunks THEN readSize ELSE 2 * c

------------------------------------------------------------------------------
(* The receiver's readLoop                                                 *)

\* A window that is checked where it starts, and not where it ends.
StartInRange(c) == ChunkStart(c) < fileSize

\* The window WriteChunk clamps writes to.
InRange(c) == ChunkStart(c) < fileSize /\ ChunkEnd(c) <= fileSize

\* A receiver that is done with the chunk before the last.
EndReachedEarly(c) == ChunkEnd(c) + 1 >= fileSize

\* offset >= total in handleChunk
EndReached(c) == ChunkEnd(c) >= fileSize

\* readLoop takes a frame, and handleChunk looks the transfer up.
TakeChunk == link = "up" /\ taken < Len(wire) /\ taken' = taken + 1
Taking == wire[taken + 1]

\* finishTransfer: the writer is forgotten, and the file renamed if that works.
FinishTransfer ==
  /\ registered' = FALSE
  /\ \/ renamed' = TRUE /\ shown' = "Completed"
     \/ DiskMayFail /\ shown' = "Failed" /\ UNCHANGED renamed

\* fw.WriteChunk succeeds: progress, and the end of the transfer with its last chunk.
StoreChunk ==
  /\ TakeChunk
  /\ registered /\ InRange(Taking)
  /\ stored' = stored \cup {Taking}
  /\ IF EndReached(Taking) THEN FinishTransfer
     ELSE shown' = "InProgress" /\ UNCHANGED <<registered, renamed>>
  /\ UNCHANGED <<fileSize, readSize, link>>

\* A failed write that nobody is told of.
RefuseSilently ==
  /\ TakeChunk
  /\ registered /\ (~InRange(Taking) \/ DiskMayFail)
  /\ registered' = FALSE
  /\ UNCHANGED <<fileSize, readSize, link, stored, renamed, shown>>

\* It fails: the transfer is forgotten and reported, its .part file stays.
RefuseChunk ==
  /\ TakeChunk
  /\ registered /\ (~InRange(Taking) \/ DiskMayFail)
  /\ registered' = FALSE /\ shown' = "Failed"
  /\ UNCHANGED <<fileSize, readSize, link, stored, renamed>>

\* A chunk of a transfer that has no writer any more.
IgnoreChunk ==
  /\ TakeChunk
  /\ ~registered
  /\ UNCHANGED <<fileSize, readSize, link, fileVars>>

\* The connection breaks, or the receiver quits: readLoop returns, and what is
\* on its way is lost.
LinkDown ==
  /\ LinkMayFail /\ link = "up"
  /\ link' = "down"
  /\ UNCHANGED <<fileSize, readSize, taken, fileVars>>

ReceiverStep == StoreChunk \/ RefuseChunk \/ IgnoreChunk

SystemNext == \/ Next /\ UNCHANGED receiverVars
              \/ (ReceiverStep \/ LinkDown) /\ UNCHANGED vars

SystemSafety == SystemInit /\ [][SystemNext]_systemVars

(* ChunkStream's fairness for the host; readLoop runs, too.                *)
SystemSpec == SystemSafety /\ Fairness /\ WF_systemVars(ReceiverStep /\ UNCHANGED vars)

------------------------------------------------------------------------------
(* Properties                                                              *)

\* The values the receiver's variables range over.  What it has taken was sent.
ReceiverTypeOK ==
  /\ fileSize \in Sizes /\ readSize \in ReadSizes
  /\ link \in {"up", "down"}
  /\ taken \in 0..Len(wire)
  /\ registered \in BOOLEAN /\ renamed \in BOOLEAN
  /\ stored \in SUBSET (1..NumChunks)
  /\ shown \in {"nothing", "InProgress", "Completed", "Failed"}

\* "Only a complete, verified file gets renamed to its real name"
\* (README.md:124-125), from the host's file to the receiver's: every unit of
\* the offered size was read, sent, taken and written, and nothing beyond it,
\* although the file may have changed its size since it was offered and its
\* chunks went through two goroutines, a channel and a buffered writer.
RealNameIsWhole ==
  renamed =>
    /\ \A u \in 0..(fileSize - 1) :
         \E c \in stored : ChunkStart(c) <= u /\ u < ChunkEnd(c)
    /\ \A c \in stored : ChunkEnd(c) <= fileSize

\* The reader stopped before the end of the file.
ReadFailed == reader \in {"closeErr", "closeChunk", "done"} /\ nextRead < NumChunks

Hopeless == link = "down" \/ readSize < fileSize \/ ReadFailed

Promise == INSTANCE FileDelivery WITH
  host <- peerState, named <- renamed, hopeless <- Hopeless

\* The host's stream, the connection and the receiver's writer together
\* implement FileDelivery.
FileDeliverySpec == Promise!Spec

\* "received" in the host's feed (transferResultText, host.go:509-514) means
\* that the receiver has the file.
ReceivedIsStored == (peerState = "Completed") ~> (renamed \/ link = "down")

\* The receiver learns that the host gave a transfer up.
ReceiverIsTold ==
  (peerState = "Failed") ~> (shown \in {"Completed", "Failed"} \/ link = "down")

==============================================================================
