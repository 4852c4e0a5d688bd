-------------------------------- MODULE HostUi --------------------------------
(***************************************************************************)
(* The host's user interface (src/internal/tui/host/tui.go): a Bubble Tea  *)
(* event loop whose Update handles one message at a time, the commands it  *)
(* starts, which run on goroutines of their own and come back with a       *)
(* message in any order, and the channels of the room that it reads, one   *)
(* waiting command each (src/internal/host/host.go).                       *)
(*                                                                         *)
(* OfferFile and CopyToClipboard run inside Update; nothing else is        *)
(* handled until they return.  Of the room only what the interface sees is *)
(* here: who is in it, and the updates that the forwarder of a transfer    *)
(* hands over; HostRoom has the rest.  The text of the feed is left out,   *)
(* and which of its lines are shown.                                       *)
(***************************************************************************)
EXTENDS RoomKeyCopy, Sequences, SequencesExt

CONSTANTS
  Dirs,          \* directories; the name of one is the directory itself
  Listing,       \* the names in each directory
  Parent,        \* filepath.Dir of each
  Home,          \* the working directory
  Peers,         \* receivers that may be in the room
  ProgressCap,   \* capacity of h.progressCh (100 in the code)
  EventCap,      \* capacity of h.eventCh (100 in the code)
  MaxOffers,     \* transfers
  Typed,         \* what the user may type on the command line
  Budgets        \* how many keys of a kind, joins and transfers a run takes

ASSUME HostUiAssumption ==
  /\ Home \in Dirs /\ Parent \in [Dirs -> Dirs]
  /\ Listing \in [Dirs -> Seq(STRING)]
  /\ ProgressCap \in Nat \ {0} /\ EventCap \in Nat \ {0}
  /\ MaxOffers \in Nat
  /\ \A b \in Budgets : b \in [keys : Nat, copies : 0..MaxCopies, moves : Nat, offers : Nat]

VARIABLES
  left,          \* what is left of the budget
  over,          \* the program has been told to quit
  splash,        \* m.splash
  showInput,     \* m.showInput
  input,         \* m.input, as the words of the command
  browserMode,   \* m.browserMode
  browserDir,    \* m.browserDir
  files,         \* m.files
  browserIdx,    \* m.browserIdx, from 1 here
  cmds,          \* messages of commands that the loop has not handled
  offering,      \* where OfferFile stands in Update, or "no"
  path,          \* its argument
  sent,          \* transfers registered: 1, 2, ...
  told,          \* what the peers of each transfer have come to
  progressCh,    \* h.progressCh
  dropped,       \* transfers and peers with an update that found it full
  progressMsg,   \* the update waitForProgress has taken
  transferNames, \* transfers that m.transferNames knows
  rows,          \* m.transfers: the state shown for a transfer and peer
  member,        \* where the handler of each peer stands
  eventCh,       \* events queued in h.eventCh
  eventMsg,      \* waitForPeerEvents has taken one
  shownPeers     \* m.peers

screenVars == <<splash, showInput, input, browserMode, browserDir, files, browserIdx>>
offerVars == <<offering, path, sent, transferNames>>
progressVars == <<told, progressCh, dropped, progressMsg, rows>>
peerVars == <<member, eventCh, eventMsg>>
uiVars == <<left, over, screenVars, cmds, offerVars, progressVars, peerVars, shownPeers>>
allVars == <<copyVars, uiVars>>

Path(d, n) == [dir |-> d, name |-> n]
NoPath == Path(Home, "")
Exists(p) == \E i \in DOMAIN Listing[p.dir] : Listing[p.dir][i] = p.name
IsDir(p) == Exists(p) /\ p.name \in Dirs

Transfers == 1..MaxOffers
Rows == Transfers \X Peers

\* h.Peers()
Room == {p \in Peers : member[p] \in {"registered", "in"}}

UiInit ==
  /\ CopyInit
  /\ left \in Budgets
  /\ over = FALSE /\ splash = TRUE
  /\ showInput = FALSE /\ input = <<>>
  /\ browserMode = FALSE /\ browserDir = Home /\ files = <<>> /\ browserIdx = 1
  /\ cmds = <<>>
  /\ offering = "no" /\ path = NoPath /\ sent = 0 /\ transferNames = {}
  /\ told = [r \in Rows |-> "none"] /\ rows = [r \in Rows |-> "none"]
  /\ progressCh = <<>> /\ dropped = {} /\ progressMsg = <<>>
  /\ member = [p \in Peers |-> "out"] /\ eventCh = 0 /\ eventMsg = FALSE
  /\ shownPeers = {}

------------------------------------------------------------------------------
(* Update                                                                  *)

\* The event loop is ready for its next message.
Idle == ~over /\ copying = "no" /\ offering = "no"

Spend(what) == left[what] > 0 /\ left' = [left EXCEPT ![what] = @ - 1]

\* A key other than c.
Key == Idle /\ Spend("keys") /\ UNCHANGED <<copyVars, progressVars, peerVars, shownPeers>>

\* Neither the browser nor the command line takes the keys.
Dashboard == ~browserMode /\ ~showInput

\* The first key ends the splash, and does nothing else unless it is c or q.
DismissKey ==
  /\ Key /\ splash
  /\ splash' = FALSE
  /\ UNCHANGED <<over, showInput, input, browserMode, browserDir, files, browserIdx,
                 cmds, offerVars>>

QuitKey ==
  /\ Key /\ Dashboard
  /\ over' = TRUE /\ splash' = FALSE
  /\ UNCHANGED <<showInput, input, browserMode, browserDir, files, browserIdx,
                 cmds, offerVars>>

CopyKey ==
  /\ Idle /\ Spend("copies") /\ Dashboard
  /\ PressCopy
  /\ splash' = FALSE
  /\ UNCHANGED <<over, showInput, input, browserMode, browserDir, files, browserIdx,
                 cmds, offerVars, progressVars, peerVars, shownPeers>>

\* The timer of the splash has run out.
SplashEnds ==
  /\ Idle /\ splash
  /\ splash' = FALSE
  /\ UNCHANGED <<copyVars, left, over, showInput, input, browserMode, browserDir, files,
                 browserIdx, cmds, offerVars, progressVars, peerVars, shownPeers>>

\* openBrowser that moves to the directory before it has been read.
OpenAtOnce(dir) ==
  /\ cmds' = Append(cmds, [is |-> "load", path |-> Path(dir, "")])
  /\ browserDir' = dir

\* openBrowser: a command that reads the directory.
OpenBrowser(dir) ==
  /\ cmds' = Append(cmds, [is |-> "load", path |-> Path(dir, "")])
  /\ UNCHANGED browserDir

\* A command that comes back with the path to be offered.
SendFile(p) ==
  /\ cmds' = Append(cmds, [is |-> "send", path |-> p])
  /\ UNCHANGED browserDir

NoCommand == UNCHANGED <<cmds, browserDir>>

\* OfferFile is called.
BeginOffer(p) ==
  /\ offering' = "stat" /\ path' = p
  /\ UNCHANGED <<sent, transferNames>>

------------------------------------------------------------------------------
(* The command line                                                        *)

CommandLine == Key /\ ~splash /\ UNCHANGED <<splash, browserMode, files, browserIdx>>

\* "/", any text, and esc
SlashKey ==
  /\ CommandLine /\ Dashboard
  /\ showInput' = TRUE /\ input' = <<"/">>
  /\ NoCommand /\ UNCHANGED <<over, offerVars>>

TypeKeys ==
  /\ CommandLine /\ showInput /\ ~browserMode
  /\ input' \in Typed
  /\ NoCommand /\ UNCHANGED <<over, showInput, offerVars>>

EscInput ==
  /\ CommandLine /\ showInput /\ ~browserMode
  /\ showInput' = FALSE /\ input' = <<>>
  /\ NoCommand /\ UNCHANGED <<over, offerVars>>

\* submitCommand
Submit ==
  /\ CommandLine /\ showInput /\ ~browserMode
  /\ showInput' = FALSE /\ input' = <<>>
  /\ over' = (input = <<"/exit">>)
  /\ CASE Len(input) = 2 /\ IsDir(input[2]) ->
            OpenBrowser(input[2].name) /\ UNCHANGED offerVars
       [] Len(input) = 2 /\ ~IsDir(input[2]) -> BeginOffer(input[2]) /\ NoCommand
       [] input = <<"/send">> -> OpenBrowser(browserDir) /\ UNCHANGED offerVars
       [] OTHER -> NoCommand /\ UNCHANGED offerVars

------------------------------------------------------------------------------
(* The file browser                                                        *)

Browser == Key /\ browserMode /\ UNCHANGED <<over, splash, showInput, input, files, offerVars>>

Selected == Path(browserDir, files[browserIdx])

EscBrowser ==
  /\ Browser
  /\ browserMode' = FALSE
  /\ NoCommand /\ UNCHANGED browserIdx

\* enter opens a directory, and sends anything else
EnterKey ==
  /\ Browser /\ browserIdx <= Len(files)
  /\ IF IsDir(Selected)
     THEN OpenBrowser(Selected.name) /\ UNCHANGED browserMode
     ELSE SendFile(Selected) /\ browserMode' = FALSE
  /\ UNCHANGED browserIdx

\* s sends what is selected, a directory too
SendKey ==
  /\ Browser /\ browserIdx <= Len(files)
  /\ SendFile(Selected) /\ browserMode' = FALSE
  /\ UNCHANGED browserIdx

ArrowKey ==
  /\ Browser
  /\ \/ browserIdx > 1 /\ browserIdx' = browserIdx - 1
     \/ browserIdx < Len(files) /\ browserIdx' = browserIdx + 1
  /\ NoCommand /\ UNCHANGED browserMode

BackKey ==
  /\ Browser
  /\ Parent[browserDir] # browserDir
  /\ OpenBrowser(Parent[browserDir])
  /\ UNCHANGED <<browserMode, browserIdx>>

------------------------------------------------------------------------------
(* Messages of commands                                                    *)

Handles(i) == /\ Idle /\ cmds' = RemoveAt(cmds, i)
              /\ UNCHANGED <<copyVars, left, over, splash, showInput, input,
                             progressVars, peerVars, shownPeers>>

\* BrowserLoaded: the browser opens, whatever happened since it was asked for.
OnLoaded(i) ==
  /\ cmds[i].is = "load" /\ Handles(i)
  /\ browserMode' = TRUE
  /\ browserDir' = cmds[i].path.dir
  /\ files' = Listing[browserDir'] /\ browserIdx' = 1
  /\ UNCHANGED offerVars

\* The directory could not be read: SendFileMsg without a path.
OnLoadFailed(i) ==
  /\ cmds[i].is = "load" /\ Handles(i)
  /\ UNCHANGED <<browserMode, browserDir, files, browserIdx, offerVars>>

\* SendFileMsg
OnSendFile(i) ==
  /\ cmds[i].is = "send" /\ Handles(i)
  /\ BeginOffer(cmds[i].path)
  /\ UNCHANGED <<browserMode, browserDir, files, browserIdx>>

------------------------------------------------------------------------------
(* OfferFile, in Update                                                    *)

Offering == UNCHANGED <<copyVars, over, screenVars, cmds, path, peerVars, shownPeers,
                        progressCh, dropped, progressMsg, rows>>

\* createArchive of a folder
CreateArchive ==
  /\ Offering /\ offering = "stat" /\ IsDir(path)
  /\ offering' = "new"
  /\ UNCHANGED <<left, sent, transferNames, told>>

\* Stat, createArchive (which removes its file) or NewTransfer (which leaves the
\* archive where it is) fails.
OfferFails ==
  /\ Offering /\ offering \in {"stat", "new"}
  /\ offering' = "no"
  /\ UNCHANGED <<left, sent, transferNames, told>>

\* The transfer is in h.transfers, and the peers of the room are offered it.
Registers ==
  /\ Offering
  /\ offering = "new" \/ (offering = "stat" /\ Exists(path) /\ ~IsDir(path))
  /\ Spend("offers") /\ sent < MaxOffers
  /\ sent' = sent + 1
  /\ told' = [r \in Rows |-> IF r[1] = sent' /\ r[2] \in Room THEN "offered" ELSE told[r]]
  /\ UNCHANGED transferNames

\* OfferFile on a goroutine of its own, the name being noted when it is back.
RegisterAlongside == Registers /\ offering' = "no"

\* From here on the forwarder runs, and OfferFile is still under way.
RegisterTransfer == Registers /\ offering' = "send"

\* It returns, and the interface notes the name.
EndOffer ==
  /\ Offering /\ offering = "send"
  /\ offering' = "no"
  /\ transferNames' = transferNames \cup {sent}
  /\ UNCHANGED <<left, sent, told>>

------------------------------------------------------------------------------
(* Updates of the transfers                                                *)

\* The states a transfer goes through for a peer: WAITING and then an end, the end
\* alone if the offer could not be written, or an end that came early and the WAITING
\* of OfferFile late.
Later(state) == CASE state = "offered" -> {"Waiting", "Settled", "Early"}
                  [] state = "Waiting" -> {"Settled"}
                  [] state = "Early" -> {"Late"}
                  [] OTHER -> {}

\* What the update says.
StateOf(state) == IF state \in {"Settled", "Early"} THEN "Settled" ELSE "Waiting"

\* The forwarder: h.progressCh <- progress, or not if it is full.
Push(r) ==
  /\ \E state \in Later(told[r]) : told' = [told EXCEPT ![r] = state]
  /\ IF Len(progressCh) < ProgressCap
     THEN /\ progressCh' = Append(progressCh, [of |-> r, state |-> StateOf(told'[r])])
          /\ UNCHANGED dropped
     ELSE dropped' = dropped \cup {r} /\ UNCHANGED progressCh
  /\ UNCHANGED <<copyVars, left, over, screenVars, cmds, offerVars, progressMsg, rows,
                 peerVars, shownPeers>>

\* waitForProgress
WaiterTakes ==
  /\ progressMsg = <<>> /\ progressCh # <<>>
  /\ progressMsg' = <<Head(progressCh)>> /\ progressCh' = Tail(progressCh)
  /\ UNCHANGED <<copyVars, left, over, screenVars, cmds, offerVars, told, dropped, rows,
                 peerVars, shownPeers>>

\* The row found by the transfer alone.
RowOfTransfer(r) == CHOOSE q \in Rows : /\ q[1] = r[1]
                                        /\ rows[q] # "none" \/ \A p \in Rows : rows[p] = "none"

\* The row of an update.
RowOf(r) == r

\* ProgressUpdate: its row is set, and the next one is waited for.
OnProgress ==
  /\ Idle /\ progressMsg # <<>>
  /\ rows' = [rows EXCEPT ![RowOf(progressMsg[1].of)] = progressMsg[1].state]
  /\ progressMsg' = <<>>
  /\ splash' = FALSE /\ shownPeers' = Room
  /\ UNCHANGED <<copyVars, left, over, showInput, input, browserMode, browserDir, files,
                 browserIdx, cmds, offerVars, told, progressCh, dropped, peerVars>>

------------------------------------------------------------------------------
(* The list of peers                                                       *)

RoomOnly == UNCHANGED <<copyVars, over, screenVars, cmds, offerVars, progressVars, shownPeers>>

\* handleConn puts the peer into the room, or takes it out ...
Register(p) ==
  /\ RoomOnly /\ Spend("moves")
  /\ member[p] = "out"
  /\ member' = [member EXCEPT ![p] = "registered"]
  /\ UNCHANGED <<eventCh, eventMsg>>

Unregister(p) ==
  /\ RoomOnly
  /\ member[p] = "in"
  /\ member' = [member EXCEPT ![p] = "leaving"]
  /\ UNCHANGED <<left, eventCh, eventMsg>>

\* ... and then tells the interface, if there is room in the channel.
Announce(p) ==
  /\ RoomOnly
  /\ \/ member[p] = "registered" /\ member' = [member EXCEPT ![p] = "in"]
     \/ member[p] = "leaving" /\ member' = [member EXCEPT ![p] = "out"]
  /\ eventCh' = IF eventCh < EventCap THEN eventCh + 1 ELSE eventCh
  /\ UNCHANGED <<left, eventMsg>>

\* waitForPeerEvents
EventTaken ==
  /\ RoomOnly
  /\ ~eventMsg /\ eventCh > 0
  /\ eventMsg' = TRUE /\ eventCh' = eventCh - 1
  /\ UNCHANGED <<left, member>>

\* PeerEventMsg: what it says does not matter, the room is read again.
OnPeerEvent ==
  /\ Idle /\ eventMsg
  /\ eventMsg' = FALSE
  /\ splash' = FALSE /\ shownPeers' = Room
  /\ UNCHANGED <<copyVars, left, over, showInput, input, browserMode, browserDir, files,
                 browserIdx, cmds, offerVars, progressVars, member, eventCh>>

------------------------------------------------------------------------------
KeyStep == \/ DismissKey \/ QuitKey \/ CopyKey \/ SlashKey \/ TypeKeys \/ EscInput \/ Submit
           \/ EscBrowser \/ EnterKey \/ SendKey \/ ArrowKey \/ BackKey
MessageStep == \E i \in DOMAIN cmds : OnLoaded(i) \/ OnLoadFailed(i) \/ OnSendFile(i)
OfferStep == CreateArchive \/ OfferFails \/ RegisterTransfer \/ EndOffer
RoomStep == \/ \E r \in Rows : Push(r)
            \/ \E p \in Peers : Register(p) \/ Unregister(p) \/ Announce(p)

\* When the program quits the room is closed, and the process ends.
UiNext ==
  /\ ~over
  /\ \/ KeyStep \/ SplashEnds \/ MessageStep \/ OfferStep
     \/ RoomStep \/ WaiterTakes \/ OnProgress \/ EventTaken \/ OnPeerEvent
     \/ CopyNext /\ UNCHANGED uiVars

UiSafety == UiInit /\ [][UiNext]_allVars

(* The event loop runs and takes its messages from the commands and the    *)
(* keys in turn; the handlers and the waiting commands run, and timers     *)
(* fire.  Nobody has to press a key, and no transfer has to end.           *)
UiSpec ==
  /\ UiSafety
  /\ WF_allVars(~over /\ OfferStep)
  /\ WF_allVars(~over /\ CopyStep /\ UNCHANGED uiVars)
  /\ WF_allVars(~over /\ Expire /\ UNCHANGED uiVars)
  /\ WF_allVars(~over /\ WaiterTakes) /\ SF_allVars(~over /\ OnProgress)
  /\ WF_allVars(~over /\ EventTaken) /\ SF_allVars(~over /\ OnPeerEvent)
  /\ \A p \in Peers : WF_allVars(~over /\ Announce(p))

------------------------------------------------------------------------------
(* Properties                                                              *)

\* Every row of the transfer panel can be shown with the name of its file: an
\* update is never handled before the interface has noted the name, although
\* the forwarder hands it over while OfferFile still runs.
RowsAreNamed == \A r \in Rows : rows[r] # "none" => r[1] \in transferNames

\* What is sent from the browser is an entry of the directory it was listed in,
\* although directories are read by commands whose answers come late and in any
\* order, while the keys go on.
PathsListed == \A i \in DOMAIN cmds : cmds[i].is = "send" => Exists(cmds[i].path)

\* The screen catches up with the room, whatever keys are pressed: the last state
\* of a transfer is shown for its peer, unless one of its updates was dropped,
\* and so are those who are in the room, although their events may be dropped.
UiCatchesUp ==
  /\ \A r \in Rows : (told[r] \in {"Settled", "Late"} /\ r \notin dropped)
                       ~> (rows[r] = StateOf(told[r]) \/ over)
  /\ <>[](shownPeers = Room \/ over)

\* "Progress and feed events reach the UIs over buffered channels"
\* (README.md:192-193): the last state is shown even if updates are dropped.
LastStateShown == \A r \in Rows : (told[r] = "Settled") ~> (rows[r] = "Settled" \/ over)

\* "esc closes" (README.md:112): a browser that was closed does not open again
\* because of a directory that was asked for before.
ClosedStaysClosed ==
  [][browserMode /\ ~browserMode' => \A i \in DOMAIN cmds' : cmds'[i].is # "load"]_allVars

==============================================================================
