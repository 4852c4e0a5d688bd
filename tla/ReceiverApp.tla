----------------------------- MODULE ReceiverApp -----------------------------
(***************************************************************************)
(* The receiver's program from its start: the connect command looks for    *)
(* the host by mDNS, or takes the address of --ip, connects, and hands the *)
(* outcome to the event loop; the session of ReceiverUi begins when        *)
(* Connect starts readLoop (src/internal/tui/receiver/tui.go,              *)
(* src/internal/receiver/receiver.go, src/internal/discovery/mdns.go).     *)
(*                                                                         *)
(* The mDNS library is external: a query puts the entries it hears into a  *)
(* channel, if there is room, and returns when its time is over or with an *)
(* error.  Handshake has what goes on between dialling and the session.    *)
(* Quitting is looked at until then; later on it ends what this module     *)
(* and ReceiverUi are about (Handshake and ReceiverFiles go on from it).   *)
(***************************************************************************)
EXTENDS ReceiverUi

CONSTANTS EntriesCap,   \* capacity of entriesCh (10 in the code)
          MaxEntries    \* entries a query hears, at most

ASSUME ReceiverAppAssumption == EntriesCap \in Nat \ {0} /\ MaxEntries \in Nat

VARIABLES
  connect,       \* where the connect command stands
  heard,         \* entries of the running query so far
  entriesCh,     \* entries that query has not drawn yet
  errCh,         \* what mdns.Query has returned: <<>>, <<"nil">> or <<"error">>
  address,       \* the address Connect is given
  outcome,       \* the error of connectedMsg, or "nil"; "none" before it is sent
  session,       \* readLoop has been started
  connected,     \* m.connected
  connectErr,    \* m.connectErr, or "nil"
  over           \* the program quits

queryVars == <<heard, entriesCh, errCh>>
progVars == <<connected, connectErr, over>>
startVars == <<connect, queryVars, address, outcome, session, progVars>>
appVars == <<vars, startVars>>

AppInit ==
  /\ Init
  /\ connect = "parse" /\ heard = 0 /\ entriesCh = <<>> /\ errCh = <<>>
  /\ address = "none" /\ outcome = "none" /\ session = FALSE
  /\ connected = FALSE /\ connectErr = "nil" /\ over = FALSE

------------------------------------------------------------------------------
(* The connect command                                                     *)

Command == UNCHANGED <<vars, progVars>>

\* The command returns connectedMsg.
Returns(err) == connect' = "done" /\ outcome' = err

\* The room key is parsed, or not; then the address of --ip is dialled, if there
\* is one (SetRoomKey and Connect, or ConnectByRoomKey).
ParseKey ==
  /\ Command /\ connect = "parse"
  /\ \/ Returns("key") /\ UNCHANGED address
     \/ connect' = "dial" /\ address' = "v4" /\ UNCHANGED outcome
     \/ connect' = "query4" /\ UNCHANGED <<address, outcome>>
  /\ UNCHANGED <<queryVars, session>>

Querying == connect \in {"query4", "query6"}

\* What may be heard: the room's host by its IPv4 or only its IPv6 address, or
\* the host of another room.
Entries == {"v4", "v6", "other"}

\* mdns.Query: params.Entries <- entry, unless it is full
Hear(entry) ==
  /\ Command /\ Querying /\ errCh = <<>> /\ heard < MaxEntries
  /\ heard' = heard + 1
  /\ entriesCh' = IF Len(entriesCh) < EntriesCap THEN Append(entriesCh, entry) ELSE entriesCh
  /\ UNCHANGED <<connect, errCh, address, outcome, session>>

\* errCh <- mdns.Query(params)
QueryEnds ==
  /\ Command /\ Querying /\ errCh = <<>>
  /\ errCh' \in {<<"nil">>, <<"error">>}
  /\ UNCHANGED <<connect, heard, entriesCh, address, outcome, session>>

\* case entry := <-entriesCh: the room's host ends the query
TakeEntry ==
  /\ Command /\ Querying /\ entriesCh # <<>>
  /\ IF Head(entriesCh) = "other"
     THEN entriesCh' = Tail(entriesCh) /\ UNCHANGED <<connect, heard, errCh, address>>
     ELSE /\ connect' = "dial" /\ address' = Head(entriesCh)
          /\ heard' = 0 /\ entriesCh' = <<>> /\ errCh' = <<>>
  /\ UNCHANGED <<outcome, session>>

\* case err := <-errCh, which select may draw although an entry is there, too:
\* Resolve tries once more, without IPv4, and gives up then.
TakeEnd ==
  /\ Command /\ Querying /\ errCh # <<>>
  /\ heard' = 0 /\ entriesCh' = <<>> /\ errCh' = <<>>
  /\ IF connect = "query4" THEN connect' = "query6" /\ UNCHANGED outcome
     ELSE Returns(IF errCh = <<"nil">> THEN "notFound" ELSE "query")
  /\ UNCHANGED <<address, session>>

\* An IPv6 address followed by a colon and the port is not an address Dial takes.
Dialable == address = "v4"

\* Connect returns nil, having started readLoop ...
Connects ==
  /\ Command /\ connect = "dial" /\ Dialable
  /\ Returns("nil") /\ session' = TRUE
  /\ UNCHANGED <<queryVars, address>>

\* ... or fails: nobody is there, or the handshake does not succeed.
ConnectFails ==
  /\ Command /\ connect = "dial"
  /\ Returns("connect")
  /\ UNCHANGED <<queryVars, address, session>>

------------------------------------------------------------------------------
(* The event loop                                                          *)

Handle == /\ ui.at = "idle"
          /\ UNCHANGED <<vars, connect, queryVars, address, session>>

\* An error that is shown, and does not end the program.
OnConnectedStays ==
  /\ Handle /\ outcome \notin {"none", "handled"}
  /\ outcome' = "handled"
  /\ IF outcome = "nil" THEN connected' = TRUE /\ UNCHANGED connectErr
                        ELSE connectErr' = outcome /\ UNCHANGED connected
  /\ UNCHANGED over

\* case connectedMsg: an error ends the program, and Run returns it.
OnConnected ==
  /\ Handle /\ outcome \notin {"none", "handled"}
  /\ outcome' = "handled"
  /\ IF outcome = "nil" THEN connected' = TRUE /\ UNCHANGED <<connectErr, over>>
                        ELSE connectErr' = outcome /\ over' = TRUE /\ UNCHANGED connected

\* q, before the session begins
QuitKey ==
  /\ Handle /\ ~session
  /\ over' = TRUE
  /\ UNCHANGED <<outcome, connected, connectErr>>

------------------------------------------------------------------------------
ConnectStep == ParseKey \/ TakeEntry \/ TakeEnd \/ Connects \/ ConnectFails

AppNext ==
  /\ ~over
  /\ \/ ConnectStep \/ QueryEnds \/ \E e \in Entries : Hear(e)
     \/ OnConnected \/ QuitKey
     \/ session /\ Next /\ UNCHANGED startVars

AppSafety == AppInit /\ [][AppNext]_appVars

(* ReceiverUi's fairness; the connect command runs, a query ends by its    *)
(* timeout, Dial and the handshake by theirs, and the event loop gets to   *)
(* the command's message.                                                  *)
AppSpec == /\ AppSafety /\ Fairness
           /\ WF_appVars(~over /\ ConnectStep) /\ WF_appVars(~over /\ QueryEnds)
           /\ SF_appVars(~over /\ OnConnected)

------------------------------------------------------------------------------
(* Properties                                                              *)

\* Whatever is heard, dialled or typed, a start comes to its end: the receiver
\* is shown as connected, or the program ends; and from then on the event loop
\* comes back after every message, though readLoop and the commands share its lock.
NothingHangs == <>(connected \/ over) /\ UiComesBack

\* "The receiver finds the host on its own" (README.md:93-94): a host that was
\* heard, and not dropped at a full channel, is dialled, or the user quits.
HeardIsDialled ==
  \A e \in {"v4", "v6"} :
    (\E i \in DOMAIN entriesCh : entriesCh[i] = e)
      ~> (connect = "dial" \/ (over /\ connectErr = "nil"))

\* A host that was found can be dialled.
FoundIsDialable == connect = "dial" => Dialable

==============================================================================
