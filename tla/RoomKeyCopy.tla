----------------------------- MODULE RoomKeyCopy -----------------------------
(***************************************************************************)
(* Copying the room key on Linux: CopyToClipboard runs on the event loop   *)
(* of an interface, tries a clipboard tool and reads back what it did,     *)
(* then starts a detached copy of the program that owns the X11 selection, *)
(* and waits for its OK for three seconds                                  *)
(* (src/internal/tui/components/clipboard.go, clipboardServerLinux.go).    *)
(* The helper serves the key until another program takes the selection.    *)
(*                                                                         *)
(* The X server keeps one owner of the selection: a helper, a clipboard    *)
(* tool, some other program, or nobody.  It tells an owner that it lost    *)
(* the selection, and forgets an owner whose process is gone.              *)
(***************************************************************************)
EXTENDS Naturals

CONSTANTS MaxCopies,   \* how often the key is pressed
          MaxTools     \* clipboard tools that are tried, 3 in the code

ASSUME RoomKeyCopyAssumption == MaxCopies \in Nat /\ MaxTools \in Nat

Helpers == 1..MaxCopies

\* Who may own the selection, but for the helpers.
Nobody == 0
Tool == MaxCopies + 1
Other == MaxCopies + 2

VARIABLES
  copying,     \* where CopyToClipboard stands, or "no"
  tools,       \* clipboard tools it has not tried yet
  started,     \* helpers started so far, the last one being the current one
  helper,      \* where each helper stands
  okCh,        \* what the reading goroutine put into okCh, or "empty"
  expired,     \* the three seconds are over
  released,    \* helpers the program let go after their OK
  report,      \* what the feed says of the last copy
  selection,   \* who owns the selection
  xUp          \* the X server runs

copyVars == <<copying, tools, started, helper, okCh, expired, released, report, selection, xUp>>
parentVars == <<copying, tools, started, okCh, expired, released, report>>

CopyInit ==
  /\ copying = "no" /\ tools = 0 /\ started = 0
  /\ helper = [h \in Helpers |-> "none"]
  /\ okCh = "empty" /\ expired = FALSE /\ released = {}
  /\ report = "nothing" /\ selection = Nobody /\ xUp = TRUE

------------------------------------------------------------------------------
(* CopyToClipboard                                                         *)

\* The feed of the interface gets a line about the copy.
Reports(text) == copying' = "no" /\ report' = text

PressCopy ==
  /\ copying = "no" /\ started < MaxCopies
  /\ copying' = "native" /\ tools' = MaxTools
  /\ UNCHANGED <<started, helper, okCh, expired, released, report, selection, xUp>>

NextTool == copying = "native" /\ tools > 0 /\ tools' = tools - 1

\* A tool is not installed, or fails.
SkipTool ==
  /\ NextTool
  /\ UNCHANGED <<copying, started, helper, okCh, expired, released, report, selection, xUp>>

\* A tool is found and reports success; it may have done nothing all the same.
RunTool ==
  /\ NextTool
  /\ copying' = "verify"
  /\ selection' \in {selection} \cup (IF xUp THEN {Tool} ELSE {})
  /\ UNCHANGED <<started, helper, okCh, expired, released, report, xUp>>

\* A paste gives the key.
HoldsKey == \/ selection = Tool
            \/ selection \in Helpers /\ helper[selection] = "serving"

\* The tool's read-back gives the text: confirmed.
Verified ==
  /\ copying = "verify" /\ HoldsKey
  /\ Reports("confirmed") /\ tools' = 0
  /\ UNCHANGED <<started, helper, okCh, expired, released, selection, xUp>>

\* It fails, or gives something else: the next tool.
NotVerified ==
  /\ copying = "verify"
  /\ copying' = "native"
  /\ UNCHANGED <<tools, started, helper, okCh, expired, released, report, selection, xUp>>

NoToolLeft == copying = "native" /\ tools = 0 /\ UNCHANGED tools

\* The helper is started.
StartHelper ==
  /\ NoToolLeft
  /\ copying' = "wait"
  /\ started' = started + 1
  /\ helper' = [helper EXCEPT ![started + 1] = "starting"]
  /\ okCh' = "empty" /\ expired' = FALSE
  /\ UNCHANGED <<released, report, selection, xUp>>

\* No display, or no process: the OSC 52 sequence is all that is left.
FallBack ==
  /\ NoToolLeft
  /\ Reports("unconfirmed")
  /\ started' = started + 1
  /\ UNCHANGED <<helper, okCh, expired, released, selection, xUp>>

\* The goroutine that reads the pipe: OK, or its end when the helper failed.
ReadPipe ==
  /\ copying = "wait" /\ okCh = "empty"
  /\ helper[started] \in {"serving", "ended", "gone"}
  /\ okCh' = IF helper[started] = "gone" THEN "bad" ELSE "ok"
  /\ UNCHANGED <<copying, tools, started, helper, expired, released, report, selection, xUp>>

Expire ==
  /\ copying = "wait" /\ ~expired
  /\ expired' = TRUE
  /\ UNCHANGED <<copying, tools, started, helper, okCh, released, report, selection, xUp>>

\* case ok = <-okCh, with Process.Release after an OK
Answered ==
  /\ copying = "wait" /\ okCh # "empty"
  /\ IF okCh = "ok"
     THEN Reports("confirmed") /\ released' = released \cup {started}
     ELSE Reports("unconfirmed") /\ UNCHANGED released
  /\ UNCHANGED <<tools, started, helper, okCh, expired, selection, xUp>>

\* A timeout that leaves the helper alone.
TimedOutKeeping ==
  /\ copying = "wait" /\ expired
  /\ Reports("unconfirmed")
  /\ UNCHANGED <<tools, started, helper, okCh, expired, released, selection, xUp>>

\* case <-time.After: the helper is killed, though its OK may be there by now.
TimedOut ==
  /\ copying = "wait" /\ expired
  /\ Reports("unconfirmed")
  /\ helper' = [helper EXCEPT ![started] = "gone"]
  /\ UNCHANGED <<tools, started, okCh, expired, released, selection, xUp>>

------------------------------------------------------------------------------
(* runClipboardServer                                                      *)

Moves(h, from, to) == helper[h] = from /\ helper' = [helper EXCEPT ![h] = to]

\* SetSelectionOwner
TakeSelection(h) ==
  /\ xUp /\ Moves(h, "starting", "owner")
  /\ selection' = h
  /\ UNCHANGED <<parentVars, xUp>>

\* GetSelectionOwner names the helper: it prints OK and serves.
SayOk(h) ==
  /\ selection = h /\ Moves(h, "owner", "serving")
  /\ UNCHANGED <<parentVars, selection, xUp>>

\* Any error before that, another owner among them: exit 1.
HelperFails(h) ==
  /\ Moves(h, "starting", "gone") \/ Moves(h, "owner", "gone")
  /\ UNCHANGED <<parentVars, selection, xUp>>

\* SelectionClear, or the connection to the X server ends: exit 0.
HelperEnds(h) ==
  /\ Moves(h, "serving", "ended")
  /\ selection # h
  /\ UNCHANGED <<parentVars, selection, xUp>>

------------------------------------------------------------------------------
(* The X server                                                            *)

\* Before the first copy nobody looks.
Watched == copying # "no" \/ report # "nothing"

OtherTakes ==
  /\ Watched /\ xUp /\ selection # Other
  /\ selection' = Other
  /\ UNCHANGED <<parentVars, helper, xUp>>

OwnerForgotten ==
  /\ selection \in Helpers /\ helper[selection] \in {"gone", "ended"}
  /\ selection' = Nobody
  /\ UNCHANGED <<parentVars, helper, xUp>>

XEnds ==
  /\ Watched /\ xUp
  /\ xUp' = FALSE /\ selection' = Nobody
  /\ UNCHANGED <<parentVars, helper>>

------------------------------------------------------------------------------
CopyStep == \/ SkipTool \/ RunTool \/ Verified \/ NotVerified
            \/ StartHelper \/ FallBack \/ Answered \/ TimedOut
HelperStep(h) == TakeSelection(h) \/ SayOk(h) \/ HelperFails(h) \/ HelperEnds(h)

\* What goes on without a key.
CopyNext == \/ CopyStep \/ ReadPipe \/ Expire
            \/ \E h \in Helpers : HelperStep(h)
            \/ OtherTakes \/ OwnerForgotten \/ XEnds

------------------------------------------------------------------------------
(* Properties                                                              *)

\* "Copied room key" means that a paste gives the key, until another program
\* takes the selection or X ends; and a helper that did not get its OK through
\* in time is gone, so that no helper serves a key the feed said it could not
\* copy ("When a copy can't be confirmed, the feed says so", README.md:279-281).
CopyReportIsTrue ==
  copying = "no" =>
    /\ report = "confirmed" => HoldsKey \/ selection = Other \/ ~xUp
    /\ \A h \in Helpers : helper[h] \in {"starting", "owner", "serving"} => h \in released

==============================================================================
