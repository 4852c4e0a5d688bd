# GoDrop, specified

TLA+ models of GoDrop (`src/`): a terminal program that sends files and folders
over a local network. One process is the *host* of a room; *receivers* find it,
prove that they know the room key, and accept or reject what the host offers.
Accepted files stream from the host in encrypted chunks of 256 KiB.

The models say what the goroutines on both sides do to each other: locks,
channels, one TCP connection per receiver, and a directory of files. TLC checks
them on small instances and TLAPS proves the results listed below for
every value of the constants.

## 1. Inventory

| Component | Code | State | Operations |
|---|---|---|---|
| Transfer | `internal/transfer/transfer.go` | `peerStates`, `peerOffsets`, `progressCh` (100), `mu` | `SetState`, `UpdateOffset`, `AllPeersSettled`, `ReadChunks`, `SendToPeer` |
| Host room | `internal/host/host.go` | `peers`, `transfers`, `displayNames`, `progressCh`, `eventCh`, `systemCh`, RW lock `mu` | `OfferFile`, `handleConn`, `readLoop`, `handleFileAccept/Reject`, forwarder, `broadcastEvent`, `Stop` |
| Peer connection | `host.go` (`Peer`, `lockedPeerWriter`), `internal/protocol` | the byte stream, `writeMu` per peer, write deadline | `writeRawMessage`, `Write`, `Marshal`, `Unmarshal` |
| Handshake | `host.go`, `receiver.go`, `internal/crypto` | a deadline on each side, keys | `Connect`, `performKeyExchange`, `verifyAuth`, `handleAuthChallenge`, `sendPeerJoin` |
| Receiver | `internal/receiver/receiver.go`, `archive.go`, `FileWriter` | `fileOffers`, `fileWriters`, `savePaths`, `dirTransfers`, channels, `mu`; the save directory | `handleFileOffer`, `AcceptTransfer`, `RejectTransfer`, `handleChunk`, `finishTransfer`, `extractFolder`, `Close` |
| Receiver UI | `internal/tui/receiver/tui.go` | offer list, cursor, transfer rows, feed | `Update`, `waitForProgress`, `waitForOffer` |
| Host UI | `internal/tui/host/tui.go` | splash, command line, browser (`browserDir`, `files`, `browserIdx`), `transferNames`, rows, peers, feed | `Update`, `submitCommand`, `handleBrowserKey`, `loadFiles`, `renderBrowser` |
| Receiver start-up | `tui/receiver/tui.go`, `receiver.go`, `internal/discovery/mdns.go` | one query at a time: `entriesCh` (10), `errCh` (1) | `ConnectByRoomKey`, `Resolve`, `Connect` |
| Clipboard | `tui/components/clipboard*.go` | a helper process that owns the X11 selection, `okCh` (1), a timer | `CopyToClipboard`, `copyViaX11Server`, `runClipboardServer` |
| Formats | `internal/crypto/pin.go`, `protocol.go`, chunk blobs, `sanitizeFilename`, `ArchiveName`, entry paths | none | format, parse, encode, decode |
| Panels, banner, styles, flags | `internal/tui/components`, `internal/banner`, `cmd` | none that is shared | layout, start-up |

**Who talks to whom.** The host runs one goroutine per connection
(`handleConn` and then `readLoop`), one `SendToPeer` with one file reader per
accepted offer, and one *forwarder* per transfer that drains
`Transfer.progressCh`, announces ends in the feed and drops a settled
transfer. `OfferFile` runs on the event loop of the host's interface. On a
receiver there are two goroutines: `readLoop`, and the event loop of the
interface, which calls `AcceptTransfer` and its like; commands (`waitFor...`)
carry channel values to that loop. All sharing is through `Host.mu`,
`Transfer.mu`, `Peer.writeMu`, `Receiver.mu`, bounded channels, and the
connection.

**What is hard.** Sends on bounded channels under a lock; locks that are free
between two halves of an operation; a `select` over two channels that close one
after the other; frames longer than the buffer they pass through; file names
chosen long before they are used; deadlines on both sides of a handshake;
receivers that vanish at any step; lists that are replaced under a cursor;
commands that answer late and out of order; a file that changes size between its offer
and its reading; a helper process that may outlive the call that started it.
`PROJECT.json` lists each hazard at its line.

**What makes each part correct.** A chunk is neither lost, repeated nor
reordered, and COMPLETED is true (Transfer). Every settled transfer is dropped,
every send ends, the room always admits peers (Host room). A frame stands on the
connection in one piece and what the receiver decrypts is the file's prefix (Peer
connection). Only the room's key gets in, deadlines neither hang a goroutine nor
end a member (Handshake). What has a real name is whole and nothing is
overwritten (Receiver). Every start ends, what is received is shown, and the event loop
comes back (Receiver UI). What the panel shows has a name, what is sent was listed, and
the screen catches up with the room (Host UI). "Copied" means that a paste works, and a
helper nobody vouched for is gone (Clipboard). What was formatted is read back, and no
name leaves its directory (Formats).

## 2. Modules

| Module | Models | Lines of code it stands for |
|---|---|---|
| `ChunkDelivery` | abstract: what one `SendToPeer` promises | `transfer.go` 206-266 |
| `ChunkStream` | `ReadChunks` and `SendToPeer`, in detail | `transfer.go` 157-266 |
| `FileDelivery` | abstract: what an accepted transfer promises the two users | `transfer.go` 95-266; `receiver.go` 256-453 |
| `FileTransfer` | `ChunkStream`, the connection and the receiver's writer, composed | `transfer.go` 72-93, 369-408; `receiver.go` 256-453 |
| `FileTransferProofs` | proofs about `ChunkStream` and about the composition | |
| `HostRoom` | offers, answers, streams, settlements, two locks | `host.go` 151-218, 295-459; `transfer.go` 95-151 |
| `HostRoomProofs` | proofs about it | |
| `PeerWire` | one connection, in units of bytes | `host.go` 32-64; `protocol.go`; `transfer.go` 206-245; `receiver.go` 256-283 |
| `PeerWireProofs` | proofs about it | |
| `Handshake` | joining and leaving | `host.go` 141-293; `receiver.go` 107-247 |
| `HandshakeProofs` | proofs about it | |
| `ReceiverFiles` | what is stored, under which name | `receiver.go` 318-586; `archive.go`; `FileWriter` |
| `ReceiverFilesProofs` | proofs about it | |
| `ReceiverUi` | event loop, commands, `readLoop` around one lock | `tui/receiver/tui.go` 134-302; `receiver.go` |
| `ReceiverApp` | extends `ReceiverUi` by the program's start: discovery and connecting | `tui/receiver/tui.go` 82-488; `receiver.go` 68-136; `mdns.go` 79-123 |
| `ReceiverUiProofs` | proofs about both | |
| `RoomKeyCopy` | the clipboard helper, its process and the X11 selection | `clipboard.go` 32-85; `clipboardServerLinux.go` |
| `HostUi` | extends `RoomKeyCopy` by the host's event loop and its commands | `tui/host/tui.go` 84-405; `host.go` 193-218, 374-419, 500-533; `archive.go` |
| `BrowserWindow` | which entries the browser draws, and what keys do to it | `tui/host/tui.go` 366-405, 590-624 |
| `HostUiProofs` | proofs about the three | |
| `Formats` | room keys, frames, chunk blobs, file names, archive paths, as functions | `pin.go` 31-78; `protocol.go`; `transfer.go` 297-346; `receiver.go` 342-357; both `archive.go` |
| `FormatsChecks` | what the formats promise each other, over bounded inputs | |
| `FormatsProofs` | a theorem about file names of any length | |

Each `MC...` module gives a specification small constants for TLC, in one or
several `.cfg` files.

### ChunkStream

`reader` and `sender` are the program counters of the two goroutines.
`chunkCh`, `errCh` and their `...Closed` flags are the channels of `ReadChunks`;
`held` is the chunk between the `select` and the write; `buffered` and `wire`
are what is in the `bufio.Writer` and on the connection. A write hands any
prefix of what is pending to the connection (`Push`), which covers every size of
frame and buffer. The deferred closes are two steps in the order Go runs them,
`errCh` first. A chunk is its number; that a chunk cannot be encrypted is one of the ways `WriteFails`.
`SetState` returns at once here; that its send waits for room in the progress channel is in `HostRoom`.

The abstract `ChunkDelivery` has two variables and four actions; `ChunkStream`
instantiates it with `delivered <- Len(wire)` and with `Outcome` for the state: a call
that could not read its file to the end counts as failed there, even where `SendToPeer`
loses the reader's error and records COMPLETED (`chunk_stream_lost_error`). TLC checks `DeliverySpec` (its
fairness included) and `FileTransferProofs!Implements` proves the safety part.

### FileDelivery and FileTransfer

`FileTransfer` EXTENDS `ChunkStream` and adds the other side: `readLoop` takes the chunks
off `wire` in their order, `FileWriter.WriteChunk` checks their range, and the chunk that
reaches the offered size ends the transfer. `fileSize` is what the offer says, `readSize` what
`ReadChunks` finds when it opens the file after the answer; they are independent, as
nothing keeps the user from changing the file in between. Sizes are in half chunks, so that both
files may end in a short chunk at different places. The host's actions are taken over
unchanged, and a receiver's step changes none of the host's variables.

`FileDelivery` has four variables: what each side shows, whether the file has its real
name, and whether the transfer is `hopeless` (the connection is down, or the file has become
shorter than the offer says). It allows the receiver to hear of the file only after the
host has started, to see the real name exactly when it is told COMPLETED, and demands an end for
every file that the host has sent and that is not hopeless. The chunks of `wire`,
`taken`, `stored` and the program counters of the sender are what the refinement hides.

### HostRoom

One action per lock section, send and call. `mu[t]` is true while a `SetState`
stands between its write of the entry and the end of its send on
`progressCh`: the code holds `Transfer.mu` there, so whoever needs that lock
(`AllPeersSettled` in `Judge`, `UpdateOffset`, every other
`SetState`) has `~mu[t]` in its guard. The best-effort progress value after `UpdateOffset` is a step of
its own (`SendProgress`), without the lock. `Host.mu` is a readers-writer lock
with Go's rule that a waiting writer keeps new readers out (`CanLock`,
`CanRLock`); only the loop of `OfferFile` keeps it across steps. Iteration over the
map of peers comes in any order. A peer is one authenticated connection and may
answer or break whenever it likes; `inbox` holds its answers in order, at most one
per offer. The feed is left out, except that `Announce` is a step and needs the
read lock as `broadcastEvent` does.

### PeerWire

A frame is a sequence of *units* (`[of, frame, part]`), the first one its
header. `conn` is what has been written on the connection; `writeMu` is held for
the duration of one `Write`, as in `lockedPeerWriter`, or for one whole
message, as in `writeRawMessage`. `bufio.Writer` follows the library: copy what
fits, fill and flush when it does not, write directly past an empty
buffer (`CopyAll`, `Fill`, `Flush`, `Direct`). A `SendToPeer` may also give up between two frames, the file
being unreadable, and leave unwritten what its buffer holds (`SendGivesUp`). The receiver cuts the stream by the length in the
header (`Slice`); what is not one writer's whole frame does not decrypt, and
what is not a header where one is expected is an arbitrary length (`ReadLost`).

### Handshake

Per receiver: where `Connect` stands (`recv`), where `handleConn` stands
(`host`), the messages in flight each way, the two deadlines and whether the connection
was closed. A read needs a deadline that has not passed; the receiver's
`writeMessage` sets a deadline of its own, so its `PeerJoin` may leave after the
handshake's time is over, as in the code. `keyOf` is the room key each receiver was
started with, any key at all, and never changes. Keys are symbolic: a tag is the pair of
room key and role.

### ReceiverFiles

`disk` and `folders` are the save directory, one namespace: under a path is an inode, the state of a folder, or
nothing, whether the path is that of an old file, a received one, an archive or a `.part` file. Paths are
opaque; what the code makes of a path is given by three functions, `Numbered` (`base(i)ext`), `Zip` and `Part`,
and nothing keeps their values for two names apart. Files are inodes (`data`), so two writers of one path write
one inode, `os.Create` truncates whatever is there (`Created`), and a rename moves an inode over what has the
name. `Reach` is what an offer may come to use: its names, the names of its archive, and
their `.part` files. `Separate` says that no two offers reach one path, and that no `.part` path is an old file or
a name the offer itself could get; the run has it, the proofs assume it where they need it.

`os.Stat` takes `ErrNotExist` alone for a free path. `Blocked` are paths of folders that were there, and paths
that cannot be looked at; when all candidates are taken, `uniquePath` does not come back and `Receiver.mu`
is not given back (`AcceptHangs`). In the code the candidates never end, so that only an error that every number
repeats, as of a name that is too long, leads there; `Numbers` being finite the model gets there sooner.

`pc` says where the event loop (`"ui"`) and `readLoop` (`"loop"`) stand in `AcceptTransfer`,
`handleChunk` and `finishTransfer`; every system call is a step. The chunks of a
transfer arrive in order and may stop coming; any step on the disk may fail. The archive of an empty folder has
one entry, which `extractFolder` skips (`ExtractNothing`).

### ReceiverUi

`ui` is the event loop: idle, or in one of the calls of `Update` with what
remains to be done in `next`. `waiter` is the one `waitForProgress` command (a
progress message starts the next), `offerWaiters` counts the `waitForOffer`
commands, of which every message adds one. `mu` records who holds `Receiver.mu` while
waiting for room in `progressCh`; every other critical section is one step. The
order of `PendingOffers` is any order, as Go's map iteration. Files are in `ReceiverFiles`; here a write
(`WriteFails`) and the rename or extraction after the last chunk (`Outcomes`) succeed or fail, `result` keeps how a
transfer ended, and what is followed is the update that says so.

### ReceiverApp

`connect` is where the connect command stands: parsing the key, one of two queries
(over IPv4, then over IPv6), dialling, done. The mDNS library is external: it puts entries in
`entriesCh` if there is room and returns nil or an error into `errCh`; the `select` draws
from either when both are ready. The session of `ReceiverUi` starts when `Connect` has succeeded;
until then its variables stand still, and a failed start or a quit ends the program.

### RoomKeyCopy and HostUi

`RoomKeyCopy` follows one press of the copy key after the other: the clipboard tools
with their read-back, then the detached helper. `helper[h]` is where the process `h` stands,
`okCh` its answer, `expired` the three seconds. The selection has one owner among helpers, tools, other
programs and nobody; X may end, a helper may fail before its OK, and be killed by the caller
although its OK is on the way.

`HostUi` EXTENDS it, because `CopyToClipboard` runs inside `Update`: while `copying` or
`offering` is not `"no"` the loop handles nothing. `cmds` holds the commands whose
messages the loop has not handled, and any of them may come next. The code does not remember
which directory it asked for last, so the answer to an older request is shown as well, and
`browserDir` becomes that of the answer. `rows`, `transferNames` and `shownPeers` are what is on
the screen; `told`, `progressCh`, `dropped`, `member` and `eventCh` are the room as the
interface
sees it. An end may be told before the `WAITING` that `OfferFile` writes late (`Early`, `Late`), or
without any. Keys, copies, joins and offers are taken from a `Budget`.

### Formats

A byte is a number below `Base`, a reader the sequence of what is left, and what cannot be
read is `Malformed`. `FormatRoomKey` and `ParseRoomKey` work on characters that are digits in either
case, dashes or junk; frames have their length in four bytes; file names are sequences of characters
of which separators, colon, zero byte, dot and blank matter; archive paths are sequences of
segments. `FormatsChecks` states as assumptions what TLC evaluates before the run `handshake`.

## 3. Runs

| Run | Configuration | Shows |
|---|---|---|
| `chunk_stream` | both sides of a file: 4 chunks, channel of 2, four offered and two read sizes, everything fails | order, truth of the offset, nothing stranded behind COMPLETED, no parked reader after success, a real name only for the whole offered size; the stream implements `ChunkDelivery` and the composition `FileDelivery`, fairness included |
| `chunk_stream_lost_error` | 2 chunks, reads fail | **violated**: COMPLETED for a file not read to its end |
| `room_safety` | 2 peers, 1 transfer, progress channel of 2, links fail | no settlement is lost, no stream without an accept |
| `room_live` | 2 peers, channel of 12 | settled transfers are dropped, sends settle, the room stays open |
| `room_hot_loop_stalls` | channel of 2 | **violated**: sender and forwarder wait for each other |
| `wire_mixed` | 2 files, long or short, 1 control message, writes time out, sends are given up | streams keep their order, control messages are whole, writes end; with short files everything arrives |
| `wire_torn_frames` | 1 file, 1 control message | **violated**: a frame is not contiguous |
| `handshake` | 2 receivers, each with the right or a wrong key, that may stall anywhere | only the right key, the handshake is undisturbed, members stay, every handshake ends, who is connected joins or learns it did not, who has gone is forgotten; evaluates `FormatsChecks`, too |
| `files` | a file, a folder, an empty file, an empty folder and a name that cannot be looked at, whose paths do not meet; one name taken; all failures | real names are whole, nothing is replaced, COMPLETED is on the disk, an accept has its writer, an accepted transfer whose chunks have come ends |
| `files_shared_part` | two offers of one name | **violated**: half or mixed files under a real name |
| `ui` | from the start of the program: a query that hears up to 2 entries, then 2 offers, channels of 3 and 1, answers, writes and ends fail, the link breaks | offers are shown, and each end as what it was, completed or failed; every start ends and the loop always comes back |
| `host_ui` | two directories, 2 peers, channels of 1, two copies, five budgets | a report of a copy is true, rows have names, what is sent was listed, the screen catches up |

A violated run checks what a comment of the code or the repository's README says, and
`PROJECT.json` quotes it under `findings`. The passing runs next to it show under
which condition the statement does hold: with a progress channel that does not
fill, with files that fit the buffer, with offers whose paths do not meet, with a file that can
be read.

The modules state a few more things that the code or its documentation leads one to expect
and that TLC refutes. They have no run of their own; give the property to the
configuration named here to see the behaviour.

| Property | Configuration | What happens |
|---|---|---|
| `HostRoom!TerminalIsFinal` | `HostRoomSafety.cfg` | an answer overtakes `OfferFile`'s own `SetState(WAITING)` (`host.go:452`), which then overwrites an end state; that no other write does is proved (`HostRoomProofs!OnlyTheOfferOverwrites`) |
| `HostRoom!NothingAfterRemoval` | `HostRoomSafety.cfg` | the forwarder drops a transfer while the offer loop has not reached every peer (`host.go:432`); its states go on changing |
| `HostRoom!NoAccumulation` | `HostRoomLive.cfg` with one peer and `LinksMayFail = TRUE` | a peer that leaves while WAITING settles nothing (`host.go:209`); its transfer stays for ever |
| `PeerWire!NoChunkSkipped` | `PeerWire.cfg` | torn frames complete each other and the receiver is back on a frame boundary with a chunk missing; with files of one chunk that fits the buffer the receiver never leaves the boundaries (`PeerWireProofs!SmallFramesRead`) |
| `FileTransfer!ReceivedIsStored` | `FileTransfer.cfg` | "received" in the host's feed (`host.go:513`) means that the host has written it: the receiver may have refused a chunk or failed to rename |
| `FileTransfer!ReceiverIsTold` | `FileTransfer.cfg` | when the host cannot read on, the receiver is sent nothing and its transfer stays in progress |
| `ReceiverFiles!NeverReplaced` | `ReceiverFilesSameName.cfg` | the name is chosen at the accept and used at the end (`receiver.go:464`, `433`) |
| `ReceiverFiles!FilesWhole` | `ReceiverFilesSameName.cfg` with `NameOf <- MCDerived` and `Folders = {o1}` | the folder `b` and the file `b.zip` are different names, and both write `b.zip.part` (`receiver.go:481`) |
| `ReceiverFiles!NeverReplaced` | `ReceiverFiles.cfg` with `Present = {"a", "c.part"}` | accepting `c` truncates a file that is called `c.part` (`transfer.go:371`), and the rename takes it away |
| `ReceiverFiles!FoldersWhole` | `ReceiverFiles.cfg` | a folder is extracted entry by entry under its real name |
| `ReceiverUi!ProgressReachesUi` | `ReceiverUi.cfg` with `ProgressCap = 1` | `readLoop` waits for room in `progressCh` with `Receiver.mu` held, and the event loop for that lock |
| `ReceiverUi!SelectionStays` | `ReceiverUi.cfg` | `PendingOffers` ranges over a map: a message puts another offer under the cursor |
| `ReceiverUi!CursorInRange` | `ReceiverUi.cfg` | after a failed answer the offer leaves the list and the cursor stays behind its end; it holds with `AnswerMayFail = FALSE` (`ReceiverUiProofs!CursorInList`), and the cursor is never further than one row behind the end (`CursorNearList`) |
| `ReceiverApp!HeardIsDialled` | `ReceiverUi.cfg` | the query ends while an entry is queued and the `select` draws `errCh` (`mdns.go:103`): "not found", of a host that was heard |
| `ReceiverApp!FoundIsDialable` | `ReceiverUi.cfg` | an IPv6 address is put together with the port without brackets (`receiver.go:86`), and `Dial` refuses it |
| `HostUi!LastStateShown` | `HostUi.cfg` | `h.progressCh` is full and the last update of a transfer is dropped (`host.go:420`) |
| `HostUi!ClosedStaysClosed` | `HostUi.cfg` | a directory that was asked for before `esc` arrives after it and opens the browser again (`README.md:112`) |

`TransferEnds` excepts what follows an `AcceptHangs`: with any error of `os.Stat` but `ErrNotExist` `uniquePath`
(`receiver.go:522`) tries numbers for ever, on the event loop and with `Receiver.mu` held. `CompletedIsOnDisk` excepts
empty folders, for which nothing is extracted (`archive.go:32`) and COMPLETED is reported.

`ProgressReachesUi` also excepts transfers whose connection has ended: `readLoop` closes
`progressCh` and forgets it (`receiver.go:265`), so what is still buffered is not shown.

Reading the code for these models also showed, without a property of their own:

* `ctrl+c` does nothing while the browser or the command line is open, although
  README.md:252 lists `ctrl+c` as quitting; there `esc` comes first.
* The temporary archive of a folder is never removed (`host.go:395`), also not when
  `NewTransfer` fails after it was made.
* `m.err` of the host's interface, once set, is never cleared.
* `browserPage`, which `View` computes, is stored in a copy of the model and lost: the
  keys scroll by another page than the drawn one. `HostUiProofs!CursorIsShown` proves that the cursor
  is drawn all the same.
* A backslash in the name of a host's file becomes a separator in the archive's entry
  for it.
* A transfer id longer than 255 bytes is not read back from a chunk (`LongIdIsLost` in
  `FormatsChecks`); the program's own ids are short.

### Bounds, and why they are enough

* *Two peers and one transfer.* The host's maps are keyed by peer and by transfer, and
  each transfer has its own lock, channel and forwarder. What needs two peers is the check
  that all are settled and the offer loop being between them. Two transfers at once meet
  only in `Host.mu`; the proofs have no bound on either. `room_live` leaves link failures
  to `room_safety`: with both, the liveness check does not end in useful time.
* *Chunks.* Four chunks over a channel of two fill the channel, block the reader,
  and leave a chunk in each of its places. One to three are enough for the room,
  which does not look at them.
* *Progress channels.* 100 in the code. The safety runs take 2, so that it fills; the
  liveness runs one that cannot fill with the updates of the instance, because the code
  does deadlock when it does (`room_hot_loop_stalls`, and `ui` with `ProgressCap = 1`).
* *Sizes of 5, 7, 8 and 9 half chunks* against a file that reads as 7 or 8: much shorter
  than offered is a failed read, and otherwise the offer is smaller by more than a chunk, by less,
  equal, or larger, with the last chunk whole or short on either side.
* *Buffer of 3 units, frames of 5, 5 and 2.* The code's frame of a full chunk is 71
  bytes longer than the buffer of 262144; what matters is that it is longer and that the
  last chunk is shorter. A frame of 5 takes a fill, a flush, and a rest.
* *Two receivers and two keys* in the handshake, in every assignment: two members, a member
  and an intruder, a member and one half way through its handshake.
* *Discovery.* A channel of one entry and up to two heard: one more than fits.
* *Host UI.* A home with a file and a folder below it give a list to go down, a way back and two
  listings to confuse. Channels of one overflow with the second update. Two copies let the second helper take the selection
  from the first while another is told; two tools, as the loop over them looks the same for three.
  `MCBudgets` picks one of five mixes at the start: ten keys and an offer for the browser, copies
  with keys, moves alone for the room's list, and two mixtures.
* *Formats.* `Base` 4 keeps the arithmetic of 256 with four digits; keys of 2 bytes in groups of 3, so that
  groups and bytes do not fit each other; names up to four of seven characters; paths of up to five segments.
* *Paths.* Five offers: a file of two chunks, a folder, an empty file, an empty folder, and a file all of whose
  names are `Blocked`. The save directory holds one old file, with the name of the first offer. `Numbers` are 0
  and 1, for the name as it is and the first that is numbered; an offer that would need a second hangs, which the fifth does. Two transfers of
  one name, or of a name and its `.zip`, are the smallest collisions (`ReceiverFilesSameName.cfg`).
* `CHECK_DEADLOCK FALSE` everywhere: each instance comes to an end when all files are
  sent, all receivers have left, the link is down, or the budget of keys is used up.

### Fairness, and why the code justifies it

Weak fairness for goroutines: the Go scheduler runs whatever can run, and a
blocked channel operation or lock proceeds once it can. Strong fairness where a
goroutine competes for something that is free again and again: `Receiver.mu` and the
event loop's choice among commands and keys in `ReceiverUi` (Go's mutex hands over
to waiters after a millisecond, and the runtime's select is random); there the steps of one goroutine, of which at most one
can be taken at a time, share a condition. `ReceiverFiles` takes weak fairness for its two goroutines and
nothing else. `ChunkStream` takes weak fairness for receiving from `chunkCh`,
as a `select` with a ready case draws it with positive probability at each turn.
`HostUi` and `ReceiverApp` take it for what the event loop does with the messages of
commands that are ready again and again; the loop's channel is unbuffered and senders wait in order.
The two sides of `FileTransfer` have fairness conditions of their own. Deadlines, queries and the helper's timer run out (`Expire`, `QueryEnds`). Nothing is assumed of users, of a receiver during
its handshake, of the host's choice to offer a file or, in the receiver's models, to send its chunks, or of a connection's
end. `SendToPeer` may give up and tell the receiver nothing, so `TransferEnds` begins when the last chunk
is there.

## 4. Proofs

| Theorem | States | Inductive invariant |
|---|---|---|
| `FileTransferProofs!TypeCorrect` | `[]TypeOK` | `TypeOK` and `Control`: which places of the two goroutines go together |
| `FileTransferProofs!InOrder` | `[]ChunksInOrder` | `OrderInv`: all chunks in flight are one run of consecutive numbers |
| `FileTransferProofs!OffsetTruthful` | `[]OffsetIsWritten` | adds that the offset is exact whenever no chunk is in hand |
| `FileTransferProofs!CompletedSent` | `[]CompletedIsSent` | `SentInv`: a closed `chunkCh` means the reader is done, and past the drained channel nothing is left to write |
| `FileTransferProofs!CompletedWhole` | `[]CompletedIsWhole`, if reads do not fail | `WholeInv` adds that the reader is done only at the end of the file |
| `FileTransferProofs!Implements` | `ChunkDelivery`'s safety | `SentInv`, and `Len(wire)` grows only |
| `HostRoomProofs!TypeCorrect` | `[]TypeOK` | with `Fresh`: a transfer that was not offered has no forwarder and no senders |
| `HostRoomProofs!SendsAreAccepted` | `[]ChunksOnlyAfterAccept` | `AcceptInv`: an answer is given once and after the offer, and replies under way repeat it |
| `HostRoomProofs!SettlementsArrive` | `[]NoLostSettlement` | `Watched`: while a transfer is settled a terminal update is coming, queued or in the forwarder's hands; `Track`: who is about to send has an entry |
| `HostRoomProofs!OnlyTheOfferOverwrites` | `EndsStay`: over the end of a transfer for a peer only the `WAITING` of `OfferFile` that was overtaken is written | `OnceInv`: one reply to a transfer is queued at most, none once its send has started; `Ended`: which of a lost offer, a refusal and a send goes with which end |
| `FileTransferProofs!NoReaderIsParked` | `[]ReaderLeaksOnlyOnFailure` | `SentInv`: a call that completed has drained `chunkCh`, so the reader was done |
| `FileTransferProofs!StepsRunOut` | `StepsLeft`, at most four for each chunk and eight, gets less with every step that changes anything | `Inv`: the places of both goroutines, and one chunk in hand where there is one |
| `FileTransferProofs!NoDeadlock` | `[]NeverBothWait`: `SendToPeer` and its reader never wait for each other | `SentInv`, and a reader that is done has closed `chunkCh` |
| `FileTransferProofs!RealNamesWhole` | `[]RealNameIsWhole` | `TransferInv`: the writer is registered as long as what it stored is a run of chunks below the offered size |
| `FileTransferProofs!DeliversFiles` | `FileDelivery`'s safety | `StartedInv` adds that nothing is on the connection before the host starts |
| `HandshakeProofs!TypeCorrect` | `[]TypeOK` | with `Traffic`: what is on each connection |
| `HandshakeProofs!OnlyTheRoomsKey` | `[]KeysAgree` | `KeyInv`: each way of a connection carries tags of its sender's key only; past the check the keys are equal |
| `HandshakeProofs!DeadlineEndsNoMember` | `MembersStay` | `Disarmed`: who reads has no deadline, and who leaves has lost the connection |
| `HandshakeProofs!NobodyIsDisturbed` | `[]HandshakeInStep` | `StepInv`: each queue goes on in its sender's script from what the other side has taken; events of the room come only after it |
| `HandshakeProofs!ConnectedIsNoMistake` | `[]ConnectedIsExpected`: a receiver that was told it is connected, and whose connection stands, is in the room, or the host reads its `PeerJoin` or registers it next | `ExpectedInv`: `StepInv`, `Disarmed`, and of the connections it has verified the host leaves only closed ones |
| `HandshakeProofs!HandshakeMoves` | `[]NeverBothWait`: the two sides of an open connection never both wait with nothing on the way | `StepInv`: what one side has sent the other has taken, or it is on the way |
| `HandshakeProofs!DeadlineGuards` | `[]WaitsAreTimed`: neither side waits in a handshake without a deadline | itself, with `TypeOK` |
| `HandshakeProofs!NoStepTwice` | each step moves a side on in `HostStage` or `RecvStage`, or leaves it where it is | `TypeOK` |
| `ReceiverFilesProofs!AcceptedCanBeStored` | `[]AcceptedHasWriter` | `WriterInv`: which places of event loop and `readLoop` go with which entries of the maps |
| `ReceiverFilesProofs!TypeCorrect` | `[]TypeOK` | `SaveInv`, see below |
| `ReceiverFilesProofs!OldFilesStay` | `[]OldKept`: what the directory held at the start stays, whatever the offers are called, but for files whose path is that of an offer's `.part` file | `SaveInv` |
| `ReceiverFilesProofs!FilesStayWhole` | `[]FilesWhole`, if `Separate` | `DiskInv`, see below |
| `ReceiverFilesProofs!CompletedStays` | `[]CompletedIsOnDisk`, if `Separate` | `DiskInv` |
| `ReceiverFilesProofs!NothingReplaced` | `NeverReplaced`, if `Separate` | `DiskInv` |
| `PeerWireProofs!TypeCorrect` | `[]TypeOK` | `WireTypes`: who writes has begun a frame |
| `PeerWireProofs!StreamsInOrder` | `[]StreamsKeepOrder` | `OrderInv`: where a `SendToPeer` stands, what its argument is and which unit is due |
| `PeerWireProofs!ControlWhole` | `[]ControlFramesWhole` | `WholeInv`: who is under way holds the lock, and between its two writes its header is the last unit |
| `PeerWireProofs!LockIsGivenBack` | `[]LockHasHolder` and `[][HolderWrites]_vars`: who holds the lock is in the middle of a control frame, and what is written meanwhile is its own | itself, with `WireTypes` |
| `PeerWireProofs!SmallFramesWhole` | `[]FramesContiguous`, if `FitsBuffer` | `SmallInv`: the buffer holds nothing, the header or the whole frame, and neither fills it |
| `PeerWireProofs!SmallFramesRead` | `[]ReadsWholeFrames`, if `FitsBuffer` and writes do not fail | `ReadInv`: what is settled on the connection is frame by frame, and the receiver stands where one begins |
| `ReceiverUiProofs!TypeCorrect` | `[]TypeOK` | with `HasWhatItNeeds`: each step's update or offer is there |
| `ReceiverUiProofs!CursorNearList`, `CursorInList` | the cursor is at most one row past the list; `[]CursorInRange`, if answers do not fail | `CursorInv`: the list is up to date, or about to be replaced by one that is long enough |
| `ReceiverUiProofs!EndShown` | `[]EndIsTrue` and `EndIsFinal`: an end on the screen is the one there was, completed only with every chunk, and stays | `ShownInv`: the updates on their way, in all hands, are one queue in which the end of a transfer is its last; `FreshInv`: what is pending has not been accepted before, and no other has ended |
| `HostUiProofs!CopyIsReported` | `[]CopyReportIsTrue` | `CopyInv`: only the helper of the copy under way is on its way to the selection, who serves otherwise was let go, and who took the selection keeps it unless another program or the end of X came |
| `HostUiProofs!RowsNamed` | `[]RowsAreNamed` | `NameInv`: updates are of registered transfers, and all of those have their name but the one that `OfferFile` has not returned yet |
| `HostUiProofs!PathsAreListed` | `[]PathsListed` | `PathInv`: the list on the screen is none or that of `browserDir`, and every message to come names an entry of its own directory |
| `HostUiProofs!CursorIsShown`, `KeysKeepCursor` | pure: the drawn window holds the cursor and stays in the list; keys keep it there | |
| `FormatsProofs!SanitizedIsOneElement` | pure: a name of any length becomes one element of a path, or is refused | |

Assumptions are those the modules name: `ChunkStreamAssumption` (chunks and capacity
are natural numbers, the capacity not zero), `FileTransferAssumption`, `HostRoomAssumption`,
`HandshakeAssumption`, `PeerWireAssumption` (a frame has a header and a ciphertext, the buffer
is not empty), `ReceiverFilesAssumption` (an archive has a chunk at least, no `.part` path of an offer is a path
that its file or archive may get), `ReceiverUiAssumption`, and those of the host's interface.
`CompletedWhole` assumes `ReadsMayFail = FALSE`; without it it is false, as
`chunk_stream_lost_error` shows. `Separate`, that the paths of the offers do not meet, is what
`FilesStayWhole`, `CompletedStays` and `NothingReplaced` assume. Names that differ are not enough, since the code derives
paths from them; without it the first is false, as `files_shared_part` shows, and the promise comes down to that of
`OldFilesStay`.
The other theorems about the receiver's files need no such assumption. `SmallFramesWhole` and `SmallFramesRead` are
about files of one chunk that fits the buffer, for longer ones `wire_torn_frames` shows the contrary;
`CursorInList` assumes that no answer fails, and `CursorNearList` is what remains without it.

None of the properties is inductive. `ChunksInOrder` says nothing of where the two
goroutines stand, and a reader that puts a chunk twice would satisfy it for a
moment; `Control` rules that state out. `NoLostSettlement` speaks of a forwarder that waits, but the
step before it is the forwarder's check: `Watched` follows the value from the
channel through the forwarder's hands, and the proof of `Judge` shows that a settled transfer
with a terminal value in hand goes to `Remove` instead of waiting again.
`EndsStay` is what remains of `TerminalIsFinal`, which fails under `room_safety`'s constants (section 3): the
comment of `IsTerminal` is wrong about one write and right about all others. Each end has
its own reason why no other write can follow. A lost offer is never answered, a refusal starts no send, and the end
of a send is past the only reply that could still be recorded, since `OnceInv` leaves no second one in the queue.
`KeysAgree` says nothing of messages: `Traffic` is what makes a right tag a proof of the key.

`SaveInv` follows the paths from `uniquePath` to the rename. `WorkFits` and `MapsFit` say that a path in
use is one that its offer may get, so that what `os.Create` touches is the `.part` file of an offer and what a rename
lands on is free of old files: `OldSafe` says that no open file, no entry of the maps and no local variable is
that of an old file. `OldKept` is stated beside its proof. It is all that can be said of any names; `NeverReplaced`, which TLC
checks, says more of offers whose paths do not meet.

`DiskInv` is the largest of them. `NeverReplaced` is about the moment of a rename, yet the name was found
free long before, when the offer was accepted. `Mapped` and `Placed` carry "no file has this name"
from `uniquePath` over the maps and through the local variables of `finishTransfer` to the rename;
`Owned` says that whatever stands in the directory belongs to the one offer that reaches its path,
which is how two transfers under way cannot meet. `Opened` says that an open file holds the
chunks its transfer has written and no others, which makes a rename put a whole file
under its name. `NeverTheSame` shows that event loop and `readLoop`, which may both run
`finishTransfer`, are never with one transfer: the one ends empty files, the other all others.

`StreamsKeepOrder` speaks of a stream's units in the connection, the buffer and the argument of `Write`,
among the units of everybody else. `OrderInv` adds what the code counts on at each place: that
an argument that is no header goes on where the buffer ends, and that `Due`, the unit the
stream needs next, is the one the next step brings. The lemmas `Inserted` and `AppendKeeps` show
that units of others between one's own change nothing. `ControlWhole` is about the lock alone;
`SmallFramesWhole` about the buffer alone, as such a frame leaves it in one flush.
`SmallFramesRead` needs both: between its two writes a control message is half a frame, and only the
lock keeps whole frames of others from following it. `Settled` leaves that half out, and
a receiver that finds it waits for the rest.

`CursorInRange` is about the idle event loop, but the map of offers changes while a message is handled.
`CursorInv` bounds the cursor by the map whenever the list is about to be read, and by the list
afterwards; `readLoop` only adds offers, so the one bound implies the other. After an answer
the cursor is clamped against the old list less one row, which is not longer than the map
without that offer. `EndIsFinal` would fail if the update of a chunk could be shown after that
of the end, completed or failed. An update passes through three hands (`readLoop`, `progressCh`, the command), and
the event loop puts the end of an empty file into the middle of that queue; `InTurnInsert` shows that this does no
harm, since an empty file has no chunks and so no other update.

Six theorems are the parts of liveness that do not speak of fairness. `StepsRunOut` counts: a chunk costs four
steps while it is in the file, three in the reader's hands, two in `chunkCh`, one with `SendToPeer`.
The only step that it does not count is the `nil` of a closed `errCh`, which changes nothing. `NoDeadlock` adds that the two
goroutines never wait for each other, so a call of `SendToPeer` ends if it is run and the
`select` is fair, which is what `ChunkStream!Fairness` says. `HandshakeMoves`, `DeadlineGuards` and
`NoStepTwice` are the same for a handshake: a side that waits for a silent one has a
deadline, and there are no more steps than `HostStage` and `RecvStage` have. `LockIsGivenBack` is what the strong
fairness of the writers relies on in `WritesEnd`: no error path keeps the lock. The formulas are stated next to
their proofs; TLC finds nothing against them in the instances of `chunk_stream`, `handshake` and `wire_mixed`.

Liveness (all properties with `~>` and `<>`, and the fairness parts of `DeliverySpec` and
`FileDeliverySpec`) is otherwise checked by TLC only: fairness and `ENABLED` are out of the prover's reach. So are the formats but for file names,
whose functions are recursive over their input. Of the statements that the code does not keep (section 3) there is nothing
to prove but the conditions under which they hold. Every safety invariant and every action property that
a passing run checks is stated by a theorem; `FramesContiguous`, which `wire_torn_frames` refutes, under the
condition named above.

## 5. Not modelled

* Cryptography itself: keys, tags and packets are symbolic, checksums are numbers.
* Wall-clock time: a deadline passes or does not.
* `Host.Start` and `Host.Stop`: one opens a listener and hands the service to the mDNS
  library, with the other the process ends.
* The feed on both sides: its text, its scrolling and the system events that feed it. They are
  sent without waiting and read by one command each, as the peer events in `HostUi`.
* The mouse, the window's size but for `BrowserWindow`, the receiver's splash, the
  view functions, the banner and the styles.
* The X11 messages with which a helper answers a paste, and clipboards of other systems,
  where the copy is the tool alone.
* The mDNS library, the zip library and JSON: entries, archives and bodies are values.
* Flags and the version command of the command line.

## 6. What could follow

Done: everything planned at the outset, that is the chunk stream, the room, the
connection, the handshake, the receiver's files and interface, the composition of both sides
against `FileDelivery`, the formats, the host's interface, discovery, the clipboard, and
the proofs listed above.

The codec theorems beyond file names need induction over the data and stay with TLC's
bounded inputs.
