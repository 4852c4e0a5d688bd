----------------------------- MODULE HostUiProofs -----------------------------
(***************************************************************************)
(* Proofs about the host's interface, for any directories, receivers,      *)
(* transfers and copies, and about the browser's window for any height.    *)
(***************************************************************************)
EXTENDS HostUi, BrowserWindow, SequenceTheorems, TLAPS

------------------------------------------------------------------------------
(* Copying the room key                                                    *)

CopyTypes ==
  /\ copying \in {"no", "native", "verify", "wait"}
  /\ started \in 0..MaxCopies
  /\ copying \in {"native", "verify"} => started < MaxCopies
  /\ copying = "wait" => started \in Helpers
  /\ helper \in [Helpers -> {"none", "starting", "owner", "serving", "ended", "gone"}]
  /\ selection \in Helpers \cup {Nobody, Tool, Other}
  /\ okCh \in {"empty", "ok", "bad"}

\* The helper that CopyToClipboard waits for.
Current(h) == copying = "wait" /\ h = started

\* Only that one is on its way to the selection, and who serves otherwise was
\* let go; what the pipe gave is what became of it.
HelpersKnown ==
  /\ \A h \in Helpers : helper[h] \in {"starting", "owner"} => Current(h)
  /\ \A h \in Helpers : helper[h] = "serving" => h \in released \/ Current(h)
  /\ copying = "wait" /\ okCh = "bad" => helper[started] = "gone"
  /\ copying = "wait" /\ okCh = "ok" => helper[started] \in {"serving", "ended"}

\* Who took the selection keeps it, unless another program or the end of X came.
SelectionKept ==
  /\ \A h \in Helpers : helper[h] = "ended" => selection # h
  /\ copying = "wait" /\ helper[started] \in {"serving", "ended"} =>
       selection = started \/ selection = Other \/ ~xUp
  /\ copying = "no" /\ report = "confirmed" => HoldsKey \/ selection = Other \/ ~xUp

CopyInv == CopyTypes /\ HelpersKnown /\ SelectionKept

LEMMA NobodyIsHelper ==
  /\ \A h \in Helpers : h # Nobody /\ h # Tool /\ h # Other
  /\ Nobody # Tool /\ Nobody # Other /\ Tool # Other
BY RoomKeyCopyAssumption DEF Helpers, Nobody, Tool, Other

LEMMA CopyInvInit == CopyInit => CopyInv
BY RoomKeyCopyAssumption
   DEF CopyInit, CopyInv, CopyTypes, HelpersKnown, SelectionKept, Current, HoldsKey

\* Every step of the copy keeps the invariant.
LEMMA CopyInvStep ==
  ASSUME CopyInv, PressCopy \/ CopyNext
  PROVE  CopyInv'
<1> USE RoomKeyCopyAssumption, NobodyIsHelper
    DEF CopyInv, CopyTypes, HelpersKnown, SelectionKept, Current, HoldsKey, parentVars, Reports, Moves
<1>1. CASE PressCopy
  BY <1>1 DEF PressCopy
<1>2. CASE SkipTool
  BY <1>2 DEF SkipTool, NextTool
<1>3. CASE RunTool
  BY <1>3 DEF RunTool, NextTool
<1>4. CASE Verified
  BY <1>4 DEF Verified
<1>5. CASE NotVerified
  BY <1>5 DEF NotVerified
<1>6. CASE StartHelper
  <2>1. started + 1 \in Helpers
    BY <1>6 DEF StartHelper, NoToolLeft, Helpers
  <2> QED
    BY <1>6, <2>1 DEF StartHelper, NoToolLeft, Helpers
<1>7. CASE FallBack
  BY <1>7 DEF FallBack, NoToolLeft
<1>8. CASE Answered
  BY <1>8 DEF Answered
<1>9. CASE TimedOut
  BY <1>9 DEF TimedOut
<1>10. CASE ReadPipe
  BY <1>10 DEF ReadPipe
<1>11. CASE Expire
  BY <1>11 DEF Expire
<1>12. ASSUME NEW h \in Helpers, HelperStep(h) PROVE CopyInv'
  <2>1. CASE TakeSelection(h)
    BY <2>1 DEF TakeSelection
  <2>2. CASE SayOk(h)
    BY <2>2 DEF SayOk
  <2>3. CASE HelperFails(h)
    BY <2>3 DEF HelperFails
  <2>4. CASE HelperEnds(h)
    BY <2>4 DEF HelperEnds
  <2> QED
    BY <1>12, <2>1, <2>2, <2>3, <2>4 DEF HelperStep
<1>13. CASE OtherTakes
  BY <1>13 DEF OtherTakes
<1>14. CASE OwnerForgotten
  BY <1>14 DEF OwnerForgotten
<1>15. CASE XEnds
  BY <1>15 DEF XEnds
<1> QED
  BY <1>1, <1>2, <1>3, <1>4, <1>5, <1>6, <1>7, <1>8, <1>9, <1>10, <1>11, <1>12, <1>13, <1>14, <1>15
     DEF CopyNext, CopyStep

\* To the copy, a step of the interface is one of its own or none.
LEMMA UiStepIsCopyStep == [UiNext]_allVars => PressCopy \/ CopyNext \/ UNCHANGED copyVars
<1> SUFFICES ASSUME [UiNext]_allVars PROVE PressCopy \/ CopyNext \/ UNCHANGED copyVars
  OBVIOUS
<1>1. CASE KeyStep
  <2>1. CASE CopyKey
    BY <2>1 DEF CopyKey
  <2>2. Key => UNCHANGED copyVars
    BY DEF Key
  <2> QED
    BY <1>1, <2>1, <2>2 DEF KeyStep, DismissKey, QuitKey, SlashKey, TypeKeys, EscInput, Submit,
       EscBrowser, EnterKey, SendKey, ArrowKey, BackKey, CommandLine, Browser
<1>2. CASE MessageStep
  BY <1>2 DEF MessageStep, OnLoaded, OnLoadFailed, OnSendFile, Handles
<1>3. CASE OfferStep
  BY <1>3 DEF OfferStep, CreateArchive, OfferFails, RegisterTransfer, Registers, EndOffer, Offering
<1>4. CASE RoomStep
  BY <1>4 DEF RoomStep, Push, Register, Unregister, Announce, RoomOnly
<1>5. CASE SplashEnds \/ WaiterTakes \/ OnProgress \/ EventTaken \/ OnPeerEvent
  BY <1>5 DEF SplashEnds, WaiterTakes, OnProgress, EventTaken, OnPeerEvent, RoomOnly
<1>6. CASE UNCHANGED allVars
  BY <1>6 DEF allVars
<1> QED
  BY <1>1, <1>2, <1>3, <1>4, <1>5, <1>6 DEF UiNext

\* For any number of copies, whatever helpers, tools, other programs and the X
\* server do between them: "Copied room key" means that a paste gives the key until
\* another program takes the selection, and no helper outlives a copy that was not
\* confirmed (CopyToClipboard, copyViaX11Server, runClipboardServer).
THEOREM CopyIsReported == UiSpec => []CopyReportIsTrue
<1>1. UiInit => CopyInv
  BY CopyInvInit DEF UiInit
<1>2. CopyInv /\ [UiNext]_allVars => CopyInv'
  <2> SUFFICES ASSUME CopyInv, [UiNext]_allVars PROVE CopyInv'
    OBVIOUS
  <2>1. CASE PressCopy \/ CopyNext
    BY <2>1, CopyInvStep
  <2>2. CASE UNCHANGED copyVars
    BY <2>2 DEF copyVars, CopyInv, CopyTypes, HelpersKnown, SelectionKept, Current, HoldsKey
  <2> QED
    BY <2>1, <2>2, UiStepIsCopyStep
<1>3. CopyInv => CopyReportIsTrue
  BY DEF CopyInv, HelpersKnown, SelectionKept, Current, CopyReportIsTrue
<1> QED
  BY <1>1, <1>2, <1>3, PTL DEF UiSpec, UiSafety

------------------------------------------------------------------------------
(* The rows of the transfer panel                                          *)

\* Updates of transfers that are registered.
Updates == [of : {r \in Rows : r[1] \in 1..sent}, state : {"Waiting", "Settled"}]

NameTypes ==
  /\ sent \in Nat
  /\ offering \in {"no", "stat", "new", "send"}
  /\ told \in [Rows -> {"none", "offered", "Waiting", "Settled", "Early", "Late"}]
  /\ rows \in [Rows -> {"none", "Waiting", "Settled"}]
  /\ progressCh \in Seq(Updates) /\ progressMsg \in Seq(Updates)

\* Every transfer has its name, but the one that OfferFile has not returned yet.
NamesKnown ==
  /\ transferNames = IF offering = "send" THEN 1..(sent - 1) ELSE 1..sent
  /\ offering = "send" => sent > 0

NameInv ==
  /\ NameTypes /\ NamesKnown
  /\ \A r \in Rows : told[r] # "none" => r[1] \in 1..sent
  /\ RowsAreNamed

LEMMA NameInvInit == UiInit => NameInv
BY DEF UiInit, NameInv, NameTypes, NamesKnown, RowsAreNamed

\* Steps that leave transfers and updates alone.
LEMMA NameInvIdle ==
  ASSUME NameInv, UNCHANGED progressVars, UNCHANGED <<sent, transferNames>>,
         offering # "send", offering' \in {"no", "stat", "new"}
  PROVE  NameInv'
BY DEF NameInv, NameTypes, NamesKnown, RowsAreNamed, Updates, progressVars

LEMMA NameInvStutter ==
  ASSUME NameInv, UNCHANGED progressVars, UNCHANGED offerVars
  PROVE  NameInv'
BY DEF NameInv, NameTypes, NamesKnown, RowsAreNamed, Updates, progressVars, offerVars

LEMMA NameInvRegister ==
  ASSUME NameInv, RegisterTransfer
  PROVE  NameInv'
<1>1. /\ sent' = sent + 1 /\ offering # "send" /\ offering' = "send"
      /\ UNCHANGED <<transferNames, progressCh, progressMsg, rows>>
      /\ told' = [r \in Rows |-> IF r[1] = sent' /\ r[2] \in Room THEN "offered" ELSE told[r]]
  BY DEF RegisterTransfer, Registers, Offering
<1>2. sent' \in Nat /\ 1..sent' = 1..sent \cup {sent'} /\ 1..(sent' - 1) = 1..sent
  BY <1>1 DEF NameInv, NameTypes
<1>3. Updates \subseteq Updates'
  BY <1>2 DEF Updates
<1>4. progressCh' \in Seq(Updates)' /\ progressMsg' \in Seq(Updates)'
  BY <1>1, <1>3 DEF NameInv, NameTypes
<1>5. told' \in [Rows -> {"none", "offered", "Waiting", "Settled", "Early", "Late"}]
  BY <1>1 DEF NameInv, NameTypes
<1>6. \A r \in Rows : told'[r] # "none" => r[1] \in 1..sent'
  BY <1>1, <1>2 DEF NameInv, NameTypes
<1>7. NamesKnown'
  BY <1>1, <1>2 DEF NameInv, NamesKnown
<1>8. RowsAreNamed'
  BY <1>1 DEF NameInv, RowsAreNamed
<1> QED
  BY <1>1, <1>2, <1>4, <1>5, <1>6, <1>7, <1>8 DEF NameInv, NameTypes

LEMMA NameInvPush ==
  ASSUME NameInv, NEW r \in Rows, Push(r)
  PROVE  NameInv'
<1> DEFINE update == [of |-> r, state |-> StateOf(told'[r])]
<1>1. /\ \E state \in Later(told[r]) : told' = [told EXCEPT ![r] = state]
      /\ progressCh' = Append(progressCh, update) \/ UNCHANGED progressCh
      /\ UNCHANGED <<sent, offering, transferNames, progressMsg, rows>>
  BY DEF Push, offerVars
<1>2. /\ Later(told[r]) \subseteq {"Waiting", "Settled", "Early", "Late"}
      /\ Later(told[r]) # {} => told[r] # "none"
  BY DEF Later
<1>3. told' \in [Rows -> {"none", "offered", "Waiting", "Settled", "Early", "Late"}]
  BY <1>1, <1>2 DEF NameInv, NameTypes
<1>4. r[1] \in 1..sent
  BY <1>1, <1>2 DEF NameInv
<1>5. update \in Updates
  BY <1>4 DEF Updates, StateOf
<1>6. Updates' = Updates
  BY <1>1 DEF Updates
<1>7. progressCh' \in Seq(Updates)
  <2>1. Append(progressCh, update) \in Seq(Updates)
    BY <1>5, AppendProperties DEF NameInv, NameTypes
  <2> QED
    BY <1>1, <2>1 DEF NameInv, NameTypes
<1>8. \A q \in Rows : told'[q] # "none" => q[1] \in 1..sent
  BY <1>1, <1>4 DEF NameInv, NameTypes
<1> QED
  BY <1>1, <1>3, <1>6, <1>7, <1>8 DEF NameInv, NameTypes, NamesKnown, RowsAreNamed

LEMMA NameInvProgress ==
  ASSUME NameInv, WaiterTakes \/ OnProgress
  PROVE  NameInv'
<1>1. CASE WaiterTakes
  <2>1. /\ progressCh # <<>> /\ progressMsg' = <<Head(progressCh)>> /\ progressCh' = Tail(progressCh)
        /\ UNCHANGED <<sent, offering, transferNames, told, rows>>
    BY <1>1 DEF WaiterTakes, offerVars
  <2>2. Head(progressCh) \in Updates /\ Tail(progressCh) \in Seq(Updates)
    BY <2>1, HeadTailProperties DEF NameInv, NameTypes
  <2>3. Updates' = Updates /\ <<Head(progressCh)>> \in Seq(Updates)
    <3>1. Updates' = Updates
      BY <2>1 DEF Updates
    <3> DEFINE u == Head(progressCh)
    <3>2. u \in Updates
      BY <2>2
    <3> HIDE DEF u
    <3>3. <<u>> \in Seq(Updates)
      BY <3>2
    <3> QED
      BY <3>1, <3>3 DEF u
  <2> QED
    BY <2>1, <2>2, <2>3 DEF NameInv, NameTypes, NamesKnown, RowsAreNamed
<1>2. CASE OnProgress
  <2>1. /\ offering = "no" /\ progressMsg # <<>> /\ progressMsg' = <<>>
        /\ rows' = [rows EXCEPT ![progressMsg[1].of] = progressMsg[1].state]
        /\ UNCHANGED <<sent, offering, transferNames, told, progressCh>>
    BY <1>2 DEF OnProgress, Idle, RowOf, offerVars
  <2>2. progressMsg[1] \in Updates
    BY <2>1 DEF NameInv, NameTypes
  <2>3. /\ progressMsg[1].of \in Rows /\ progressMsg[1].of[1] \in transferNames
        /\ progressMsg[1].state \in {"Waiting", "Settled"}
    BY <2>1, <2>2 DEF Updates, NameInv, NamesKnown
  <2>4. rows' \in [Rows -> {"none", "Waiting", "Settled"}]
    BY <2>1, <2>3 DEF NameInv, NameTypes
  <2>5. RowsAreNamed'
    BY <2>1, <2>3 DEF NameInv, NameTypes, RowsAreNamed
  <2>6. Updates' = Updates /\ <<>> \in Seq(Updates)
    BY <2>1 DEF Updates
  <2> QED
    BY <2>1, <2>4, <2>5, <2>6 DEF NameInv, NameTypes, NamesKnown
<1> QED
  BY <1>1, <1>2

LEMMA NameInvEnd ==
  ASSUME NameInv, EndOffer
  PROVE  NameInv'
<1>1. /\ offering = "send" /\ offering' = "no" /\ transferNames' = transferNames \cup {sent}
      /\ UNCHANGED <<sent, told, progressCh, progressMsg, rows>>
  BY DEF EndOffer, Offering
<1>2. transferNames = 1..(sent - 1) /\ sent \in Nat /\ sent > 0
  BY <1>1 DEF NameInv, NameTypes, NamesKnown
<1>3. transferNames' = 1..sent
  BY <1>1, <1>2
<1>4. Updates' = Updates
  BY <1>1 DEF Updates
<1> QED
  BY <1>1, <1>2, <1>3, <1>4 DEF NameInv, NameTypes, NamesKnown, RowsAreNamed

LEMMA NameInvStep ==
  ASSUME NameInv, [UiNext]_allVars
  PROVE  NameInv'
<1>1. CASE KeyStep
  <2>1. CASE CopyKey
    BY <2>1, NameInvStutter DEF CopyKey
  <2>2. CASE Submit
    <3>1. /\ offering = "no" /\ UNCHANGED <<progressVars, sent, transferNames>>
          /\ offering' \in {"no", "stat"}
      BY <2>2 DEF Submit, CommandLine, Key, Idle, offerVars, BeginOffer
    <3> QED
      BY <3>1, NameInvIdle
  <2> QED
    BY <1>1, <2>1, <2>2, NameInvStutter
       DEF KeyStep, DismissKey, QuitKey, SlashKey, TypeKeys, EscInput, EscBrowser, EnterKey,
           SendKey, ArrowKey, BackKey, CommandLine, Browser, Key
<1>2. CASE MessageStep
  <2>1. PICK i \in DOMAIN cmds : OnLoaded(i) \/ OnLoadFailed(i) \/ OnSendFile(i)
    BY <1>2 DEF MessageStep
  <2>2. CASE OnSendFile(i)
    <3>1. /\ offering = "no" /\ UNCHANGED <<progressVars, sent, transferNames>>
          /\ offering' = "stat"
      BY <2>2 DEF OnSendFile, Handles, Idle, BeginOffer
    <3> QED
      BY <3>1, NameInvIdle
  <2> QED
    BY <2>1, <2>2, NameInvStutter DEF OnLoaded, OnLoadFailed, Handles
<1>3. CASE CreateArchive \/ OfferFails
  <2>1. /\ offering # "send" /\ UNCHANGED <<progressVars, sent, transferNames>>
        /\ offering' \in {"no", "new"}
    BY <1>3 DEF CreateArchive, OfferFails, Offering, progressVars
  <2> QED
    BY <2>1, NameInvIdle
<1>4. CASE RoomStep
  <2>1. CASE \E r \in Rows : Push(r)
    BY <2>1, NameInvPush
  <2>2. CASE \E p \in Peers : Register(p) \/ Unregister(p) \/ Announce(p)
    BY <2>2, NameInvStutter DEF Register, Unregister, Announce, RoomOnly
  <2> QED
    BY <1>4, <2>1, <2>2 DEF RoomStep
<1>5. CASE SplashEnds \/ EventTaken \/ OnPeerEvent
  BY <1>5, NameInvStutter DEF SplashEnds, EventTaken, OnPeerEvent, RoomOnly
<1>6. CASE UNCHANGED uiVars
  BY <1>6, NameInvStutter DEF uiVars
<1> QED
  BY <1>1, <1>2, <1>3, <1>4, <1>5, <1>6, NameInvRegister, NameInvProgress, NameInvEnd
     DEF UiNext, OfferStep, allVars

\* For any number of transfers and peers, and however their updates overtake the
\* return of OfferFile: what the transfer panel shows has its name (Update).
THEOREM RowsNamed == UiSpec => []RowsAreNamed
<1>1. NameInv => RowsAreNamed
  BY DEF NameInv
<1>2. NameInv /\ [UiNext]_allVars => NameInv'
  BY NameInvStep
<1> QED
  BY <1>1, <1>2, NameInvInit, PTL DEF UiSpec, UiSafety

------------------------------------------------------------------------------
(* What is sent from the browser                                           *)

Names == {""} \cup UNION {ToSet(Listing[d]) : d \in Dirs}

\* Commands as they should be: what is sent is an entry of its directory.
Commands ==
  {c \in [is : {"load", "send"}, path : [dir : Dirs, name : Names]] :
     c.is = "send" => Exists(c.path)}

PathInv ==
  /\ cmds \in Seq(Commands)
  /\ browserDir \in Dirs /\ browserIdx \in Nat \ {0}
  /\ files = <<>> \/ files = Listing[browserDir]

LEMMA RemoveKeeps ==
  ASSUME NEW S, NEW s \in Seq(S), NEW i \in DOMAIN s
  PROVE  RemoveAt(s, i) \in Seq(S)
<1>1. SubSeq(s, 1, i - 1) \in Seq(S) /\ SubSeq(s, i + 1, Len(s)) \in Seq(S)
  OBVIOUS
<1> QED
  BY <1>1, ConcatProperties DEF RemoveAt

LEMMA PathInvInit == UiInit => PathInv
BY HostUiAssumption DEF UiInit, PathInv

LEMMA PathInvStutter ==
  ASSUME PathInv, UNCHANGED <<cmds, browserDir, browserIdx, files>>
  PROVE  PathInv'
BY DEF PathInv, Commands

LEMMA PathInvOpen ==
  ASSUME PathInv, NEW d \in Dirs, OpenBrowser(d), UNCHANGED <<browserIdx, files>>
  PROVE  PathInv'
<1>1. [is |-> "load", path |-> Path(d, "")] \in Commands
  <2>1. Path(d, "") \in [dir : Dirs, name : Names]
    BY DEF Path, Names
  <2> QED
    BY <2>1 DEF Commands
<1>2. Append(cmds, [is |-> "load", path |-> Path(d, "")]) \in Seq(Commands)
  BY <1>1, AppendProperties DEF PathInv
<1> QED
  BY <1>2 DEF PathInv, OpenBrowser, Commands

LEMMA SelectedExists ==
  ASSUME PathInv, browserIdx <= Len(files)
  PROVE  Selected \in [dir : Dirs, name : Names] /\ Exists(Selected)
<1>1. files = Listing[browserDir] /\ files \in Seq(STRING) /\ browserIdx \in DOMAIN files
  BY HostUiAssumption DEF PathInv
<1>2. files[browserIdx] \in Names
  <2>1. files[browserIdx] \in ToSet(Listing[browserDir])
    BY <1>1 DEF ToSet
  <2> QED
    BY <2>1, Zenon DEF PathInv, Names
<1>3. Selected = [dir |-> browserDir, name |-> files[browserIdx]]
  BY DEF Selected, Path
<1>4. Exists(Selected)
  BY <1>1, <1>3 DEF Exists
<1> QED
  BY <1>2, <1>3, <1>4 DEF PathInv

LEMMA PathInvSend ==
  ASSUME PathInv, browserIdx <= Len(files), SendFile(Selected), UNCHANGED <<browserIdx, files>>
  PROVE  PathInv'
<1>1. [is |-> "send", path |-> Selected] \in Commands
  BY SelectedExists DEF Commands
<1>2. Append(cmds, [is |-> "send", path |-> Selected]) \in Seq(Commands)
  BY <1>1, AppendProperties DEF PathInv
<1> QED
  BY <1>2 DEF PathInv, SendFile, Commands

LEMMA PathInvStep ==
  ASSUME PathInv, [UiNext]_allVars
  PROVE  PathInv'
<1>1. CASE KeyStep
  <2>1. CASE DismissKey \/ QuitKey \/ CopyKey \/ SlashKey \/ TypeKeys \/ EscInput \/ EscBrowser
    BY <2>1, PathInvStutter DEF DismissKey, QuitKey, CopyKey, SlashKey, TypeKeys, EscInput,
       EscBrowser, CommandLine, Browser, NoCommand
  <2>2. CASE Submit
    <3>1. UNCHANGED <<browserIdx, files>>
      BY <2>2 DEF Submit, CommandLine
    <3>2. NoCommand \/ OpenBrowser(browserDir)
            \/ (IsDir(input[2]) /\ OpenBrowser(input[2].name))
      BY <2>2 DEF Submit
    <3>3. CASE NoCommand
      BY <3>1, <3>3, PathInvStutter DEF NoCommand
    <3>4. CASE OpenBrowser(browserDir)
      BY <3>1, <3>4, PathInvOpen DEF PathInv
    <3>5. CASE IsDir(input[2]) /\ OpenBrowser(input[2].name)
      BY <3>1, <3>5, PathInvOpen DEF IsDir
    <3> QED
      BY <3>2, <3>3, <3>4, <3>5
  <2>3. CASE EnterKey
    <3>1. UNCHANGED <<browserIdx, files>> /\ browserIdx <= Len(files)
      BY <2>3 DEF EnterKey, Browser
    <3>2. SendFile(Selected) \/ (Selected.name \in Dirs /\ OpenBrowser(Selected.name))
      BY <2>3 DEF EnterKey, IsDir
    <3> QED
      BY <3>1, <3>2, PathInvOpen, PathInvSend
  <2>4. CASE SendKey
    BY <2>4, PathInvSend DEF SendKey, Browser
  <2>5. CASE ArrowKey
    <3>1. UNCHANGED <<cmds, browserDir, files>> /\ browserIdx' \in Nat \ {0}
      BY <2>5 DEF ArrowKey, Browser, NoCommand, PathInv
    <3> QED
      BY <3>1 DEF PathInv, Commands
  <2>6. CASE BackKey
    <3>1. Parent[browserDir] \in Dirs
      BY HostUiAssumption DEF PathInv
    <3> QED
      BY <2>6, <3>1, PathInvOpen DEF BackKey, Browser
  <2> QED
    BY <1>1, <2>1, <2>2, <2>3, <2>4, <2>5, <2>6 DEF KeyStep
<1>2. CASE MessageStep
  <2>1. PICK i \in DOMAIN cmds : OnLoaded(i) \/ OnLoadFailed(i) \/ OnSendFile(i)
    BY <1>2 DEF MessageStep
  <2>2. cmds' \in Seq(Commands)
    <3>1. cmds' = RemoveAt(cmds, i)
      BY <2>1 DEF OnLoaded, OnLoadFailed, OnSendFile, Handles
    <3> QED
      BY <3>1, RemoveKeeps DEF PathInv
  <2>3. CASE OnLoaded(i)
    <3>1. browserDir' = cmds[i].path.dir /\ files' = Listing[browserDir'] /\ browserIdx' = 1
      BY <2>3 DEF OnLoaded
    <3>2. cmds[i] \in Commands
      BY DEF PathInv
    <3>3. browserDir' \in Dirs
      BY <3>1, <3>2 DEF Commands
    <3> QED
      BY <2>2, <3>1, <3>3 DEF PathInv, Commands
  <2> QED
    BY <2>1, <2>2, <2>3 DEF OnLoadFailed, OnSendFile, PathInv, Commands
<1>3. CASE OfferStep
  BY <1>3, PathInvStutter
     DEF OfferStep, CreateArchive, OfferFails, RegisterTransfer, Registers, EndOffer, Offering, screenVars
<1>4. CASE RoomStep
  BY <1>4, PathInvStutter DEF RoomStep, Push, Register, Unregister, Announce, RoomOnly, screenVars
<1>5. CASE SplashEnds \/ WaiterTakes \/ OnProgress \/ EventTaken \/ OnPeerEvent
  BY <1>5, PathInvStutter
     DEF SplashEnds, WaiterTakes, OnProgress, EventTaken, OnPeerEvent, RoomOnly, screenVars
<1>6. CASE UNCHANGED uiVars
  BY <1>6, PathInvStutter DEF uiVars, screenVars
<1> QED
  BY <1>1, <1>2, <1>3, <1>4, <1>5, <1>6 DEF UiNext, allVars

\* For any tree of directories: what is sent from the browser is an entry of the
\* directory it was listed in, in whatever order directories come in (Update).
THEOREM PathsAreListed == UiSpec => []PathsListed
<1>1. PathInv => PathsListed
  BY DEF PathInv, PathsListed, Commands
<1>2. PathInv /\ [UiNext]_allVars => PathInv'
  BY PathInvStep
<1> QED
  BY <1>1, <1>2, PathInvInit, PTL DEF UiSpec, UiSafety

------------------------------------------------------------------------------
(* The browser's window                                                    *)

\* For every height, list and offset the entry under the cursor is drawn, and
\* the window does not reach over the end of the list (renderBrowser).
THEOREM CursorIsShown ==
  ASSUME MaxFeedVisible \in Nat \ {0},
         NEW height \in Nat, NEW n \in Nat \ {0}, NEW scroll \in Nat,
         NEW idx \in 0..(n - 1)
  PROVE  /\ FirstShown(height, n, scroll, idx) \in 0..idx
         /\ idx < FirstShown(height, n, scroll, idx) + Fits(height, n)
         /\ FirstShown(height, n, scroll, idx) + Fits(height, n) <= n
<1>1. Fits(height, n) \in 1..n
  BY DEF Fits
<1>2. DEFINE v == Fits(height, n)
             f == Follow(scroll, idx, v)
<1>3. f \in 0..idx /\ idx < f + v
  BY <1>1 DEF Follow
<1>. HIDE DEF v, f
<1>4. v \in 1..n /\ FirstShown(height, n, scroll, idx) = IF f > n - v THEN n - v ELSE f
  BY <1>1, <1>3 DEF FirstShown, v, f
<1>. QED
  BY <1>3, <1>4 DEF v

\* The keys keep the cursor in the list, and an offset that is no more than the
\* cursor stays so (handleBrowserKey).
THEOREM KeysKeepCursor ==
  ASSUME MaxFeedVisible \in Nat \ {0},
         NEW n \in Nat \ {0}, NEW idx \in 0..(n - 1), NEW scroll \in 0..idx
  PROVE  /\ Down(n, idx) \in 0..(n - 1) /\ ScrollDown(n, scroll, idx) \in 0..Down(n, idx)
         /\ Up(idx) \in 0..(n - 1) /\ ScrollUp(scroll, idx) \in 0..Up(idx)
<1>1. Down(n, idx) \in 0..(n - 1) /\ Down(n, idx) >= idx
  BY DEF Down
<1>2. ScrollDown(n, scroll, idx) \in 0..Down(n, idx)
  BY <1>1 DEF ScrollDown
<1>3. Up(idx) \in 0..(n - 1)
  BY DEF Up
<1>4. ScrollUp(scroll, idx) \in 0..Up(idx)
  BY <1>3 DEF ScrollUp
<1>. QED
  BY <1>1, <1>2, <1>3, <1>4

==============================================================================
