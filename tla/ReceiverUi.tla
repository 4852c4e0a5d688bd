------------------------------ MODULE ReceiverUi ------------------------------
(***************************************************************************)
(* The receiver's readLoop goroutine and its user interface, and what is   *)
(* between them: Receiver.mu, the progress channel and the offer channel   *)
(* (src/internal/receiver/receiver.go, src/internal/tui/receiver/tui.go).  *)
(*                                                                         *)
(* The interface is a Bubble Tea program: an event loop that handles one   *)
(* message at a time, keys among them, and commands that run in goroutines *)
(* of their own and hand their message to the loop.  waitForProgress and   *)
(* waitForOffer are such commands: each receives one value of its channel. *)
(* There is always one waitForProgress, as its message starts the next;    *)
(* every message starts a waitForOffer, too.                               *)
(*                                                                         *)
(* Files are left to ReceiverFiles: here a write, or the rename and the    *)
(* extraction at the end, succeeds or fails, and what matters are the      *)
(* updates that tell of it.                                                *)
(***************************************************************************)
EXTENDS Naturals, Sequences, FiniteSets

CONSTANTS Offers,         \* transfers the host offers
          SizeOf,         \* the chunks of each of them
          ProgressCap,    \* capacity of progressCh (100 in the code)
          OfferCap,       \* capacity of offerCh (20 in the code)
          AnswerMayFail,  \* AcceptTransfer and RejectTransfer may return an error
          DiskMayFail,    \* a write, a rename or an extraction may fail
          LinkMayFail     \* the connection may break

ASSUME ReceiverUiAssumption ==
  /\ IsFiniteSet(Offers)
  /\ SizeOf \in [Offers -> Nat]
  /\ ProgressCap \in Nat \ {0} /\ OfferCap \in Nat \ {0}
  /\ AnswerMayFail \in BOOLEAN /\ DiskMayFail \in BOOLEAN /\ LinkMayFail \in BOOLEAN

VARIABLES
  mu,            \* who holds Receiver.mu while it waits: "none", "loop" or "ui"
  fileOffers,    \* r.fileOffers
  progressCh,    \* what is queued in the progress channel
  dropped,       \* the channel has been closed and r.progressCh is nil
  offerCh,       \* how many values are queued in offerCh
  loop,          \* where readLoop stands, with the update it is about to send
  offered,       \* offers received so far
  accepted,      \* transfers whose writer has been registered
  arrived,       \* chunks written of each
  result,        \* how each has ended, its writer forgotten, or "none"
  ui,            \* where the event loop stands
  offers,        \* m.offers
  selectedIdx,   \* m.selectedIdx, from 1 here
  transfers,     \* m.transfers: the last state of each transfer, or "none"
  waiter,        \* where the waitForProgress stands
  offerWaiters,  \* waitForOffer commands that wait for a value
  offerMsgs      \* those that hold a message for the event loop

loopVars == <<loop, offered, arrived>>
modelVars == <<offers, selectedIdx, transfers>>
cmdVars == <<waiter, offerWaiters, offerMsgs>>
chanVars == <<progressCh, dropped, offerCh>>
vars == <<mu, fileOffers, chanVars, loopVars, accepted, result, ui, modelVars, cmdVars>>

Update(o, s) == [of |-> o, state |-> s]

Init ==
  /\ mu = "none" /\ fileOffers = {}
  /\ progressCh = <<>> /\ dropped = FALSE /\ offerCh = 0
  /\ loop = [at |-> "read", send |-> <<>>]
  /\ offered = {} /\ accepted = {}
  /\ arrived = [o \in Offers |-> 0] /\ result = [o \in Offers |-> "none"]
  /\ ui = [at |-> "idle", next |-> "idle", of |-> <<>>]
  /\ offers = <<>> /\ selectedIdx = 1
  /\ transfers = [o \in Offers |-> "none"]
  /\ waiter = [at |-> "recv", has |-> <<>>]
  /\ offerWaiters = 1 /\ offerMsgs = 0

------------------------------------------------------------------------------
(* readLoop                                                                *)

\* handleFileOffer: the offer is kept, and announced if there is room.
ReceiveOffer(o) ==
  /\ loop.at = "read"
  /\ mu = "none"
  /\ o \notin offered
  /\ offered' = offered \cup {o}
  /\ fileOffers' = fileOffers \cup {o}
  /\ offerCh' = IF offerCh < OfferCap THEN offerCh + 1 ELSE offerCh
  /\ UNCHANGED <<mu, progressCh, dropped, loop, arrived, accepted, result, ui,
                 modelVars, cmdVars>>

\* How a transfer ends: as the last rename or extraction does.
Ends == {"Completed", "Failed"}
Outcomes == IF DiskMayFail THEN Ends ELSE {"Completed"}

\* A chunk of a transfer whose writer is registered; what comes for one that has
\* ended is ignored.
Arrives(o) ==
  /\ loop.at = "read"
  /\ mu = "none"
  /\ o \in accepted /\ result[o] = "none"
  /\ arrived[o] < SizeOf[o]
  /\ UNCHANGED <<mu, fileOffers, chanVars, offered, accepted, ui, modelVars, cmdVars>>

\* handleChunk up to its first sendProgress; the last chunk's is followed by that of
\* finishTransfer.
ReceiveChunk(o) ==
  /\ Arrives(o)
  /\ arrived' = [arrived EXCEPT ![o] = @ + 1]
  /\ \/ /\ arrived'[o] < SizeOf[o]
        /\ loop' = [at |-> "progress", send |-> <<Update(o, "InProgress")>>]
        /\ UNCHANGED result
     \/ /\ arrived'[o] = SizeOf[o]
        /\ \E s \in Outcomes :
             /\ loop' = [at |-> "progress", send |-> <<Update(o, "InProgress"), Update(o, s)>>]
             /\ result' = [result EXCEPT ![o] = s]

\* The write fails: the transfer is forgotten and there is no other update of it.
WriteFails(o) ==
  /\ DiskMayFail
  /\ Arrives(o)
  /\ loop' = [at |-> "progress", send |-> <<Update(o, "Failed")>>]
  /\ result' = [result EXCEPT ![o] = "Failed"]
  /\ UNCHANGED arrived

\* sendProgress takes r.mu; for readLoop the channel is never nil yet.
LockProgress ==
  /\ loop.at = "progress"
  /\ mu = "none"
  /\ mu' = "loop"
  /\ loop' = [loop EXCEPT !.at = "send"]
  /\ UNCHANGED <<fileOffers, chanVars, offered, arrived, accepted, result, ui,
                 modelVars, cmdVars>>

\* A sendProgress that returns without unlocking.
SendProgressLocked ==
  /\ loop.at = "send"
  /\ Len(progressCh) < ProgressCap
  /\ progressCh' = Append(progressCh, Head(loop.send))
  /\ loop' = [at |-> IF Len(loop.send) = 1 THEN "read" ELSE "progress",
              send |-> Tail(loop.send)]
  /\ UNCHANGED <<mu, fileOffers, dropped, offerCh, offered, arrived, accepted, result, ui,
                 modelVars, cmdVars>>

\* r.progressCh <- p, which waits for room with r.mu held.
SendProgress ==
  /\ loop.at = "send"
  /\ Len(progressCh) < ProgressCap
  /\ progressCh' = Append(progressCh, Head(loop.send))
  /\ mu' = "none"
  /\ loop' = [at |-> IF Len(loop.send) = 1 THEN "read" ELSE "progress",
              send |-> Tail(loop.send)]
  /\ UNCHANGED <<fileOffers, dropped, offerCh, offered, arrived, accepted, result, ui,
                 modelVars, cmdVars>>

\* Unmarshal fails: the channel is closed and r.progressCh set to nil.
LoopEnds ==
  /\ LinkMayFail
  /\ loop.at = "read"
  /\ mu = "none"
  /\ dropped' = TRUE
  /\ loop' = [loop EXCEPT !.at = "ended"]
  /\ UNCHANGED <<mu, fileOffers, progressCh, offerCh, offered, arrived, accepted,
                 result, ui,
                 modelVars, cmdVars>>

------------------------------------------------------------------------------
(* The commands                                                            *)

\* <-ch in waitForProgress; a closed channel gives what it still holds.
WaiterTakes ==
  /\ waiter.at = "recv"
  /\ progressCh # <<>>
  /\ waiter' = [at |-> "msg", has |-> <<Head(progressCh)>>]
  /\ progressCh' = Tail(progressCh)
  /\ UNCHANGED <<mu, fileOffers, dropped, offerCh, loopVars, accepted, result, ui,
                 modelVars,
                 offerWaiters, offerMsgs>>

\* The channel is closed and empty: no message, and nothing to wait for.
WaiterEnds ==
  /\ waiter.at = "recv"
  /\ progressCh = <<>> /\ dropped
  /\ waiter' = [waiter EXCEPT !.at = "ended"]
  /\ UNCHANGED <<mu, fileOffers, chanVars, loopVars, accepted, result, ui, modelVars,
                 offerWaiters, offerMsgs>>

\* <-ch in one of the waitForOffer
OfferWaiterTakes ==
  /\ offerWaiters > 0 /\ offerCh > 0
  /\ offerWaiters' = offerWaiters - 1
  /\ offerMsgs' = offerMsgs + 1
  /\ offerCh' = offerCh - 1
  /\ UNCHANGED <<mu, fileOffers, progressCh, dropped, loopVars, accepted, result, ui,
                 modelVars, waiter>>

------------------------------------------------------------------------------
(* The event loop                                                          *)

Go(at, next) == ui' = [at |-> at, next |-> next, of |-> <<>>]

\* case ProgressUpdate: the row of the transfer is replaced.
OnProgress ==
  /\ ui.at = "idle"
  /\ waiter.at = "msg"
  /\ transfers' = [transfers EXCEPT ![waiter.has[1].of] = waiter.has[1].state]
  /\ waiter' = [at |-> "off", has |-> <<>>]
  /\ Go("pending", "rearm")
  /\ UNCHANGED <<mu, fileOffers, chanVars, loopVars, accepted, result, offers, selectedIdx,
                 offerWaiters, offerMsgs>>

\* case OfferReceived
OnOffer ==
  /\ ui.at = "idle"
  /\ offerMsgs > 0
  /\ offerMsgs' = offerMsgs - 1
  /\ Go("pending", "wait")
  /\ UNCHANGED <<mu, fileOffers, chanVars, loopVars, accepted, result, modelVars,
                 waiter, offerWaiters>>

\* The orders in which a range over the map r.fileOffers may come.
Listings(S) == {f \in [1..Cardinality(S) -> S] : \A i, j \in DOMAIN f : f[i] = f[j] => i = j}

\* m.offers = m.receiver.PendingOffers()
PendingOffers ==
  /\ ui.at = "pending"
  /\ mu = "none"
  /\ offers' \in Listings(fileOffers)
  /\ Go(ui.next, "idle")
  /\ UNCHANGED <<mu, fileOffers, chanVars, loopVars, accepted, result, selectedIdx,
                 transfers, cmdVars>>

\* An interface that waits for offers only along with progress.
StopWaiting ==
  /\ ui.at = "wait"
  /\ Go("idle", "idle")
  /\ UNCHANGED <<mu, fileOffers, chanVars, loopVars, accepted, result, modelVars, cmdVars>>

\* return m, waitForOffer(m.receiver.OfferChan())
WaitForOffer ==
  /\ ui.at = "wait"
  /\ offerWaiters' = offerWaiters + 1
  /\ Go("idle", "idle")
  /\ UNCHANGED <<mu, fileOffers, chanVars, loopVars, accepted, result, modelVars,
                 waiter, offerMsgs>>

\* A ProgressUpdate that starts no new command.
RearmOffersOnly ==
  /\ ui.at = "rearm"
  /\ mu = "none"
  /\ offerWaiters' = offerWaiters + 1
  /\ Go("idle", "idle")
  /\ UNCHANGED <<mu, fileOffers, chanVars, loopVars, accepted, result, modelVars,
                 waiter, offerMsgs>>

\* waitForProgress(m.receiver.ProgressChan()), which is nil once the connection
\* is gone, and a waitForOffer.
Rearm ==
  /\ ui.at = "rearm"
  /\ mu = "none"
  /\ waiter' = [waiter EXCEPT !.at = IF dropped THEN "nil" ELSE "recv"]
  /\ offerWaiters' = offerWaiters + 1
  /\ Go("idle", "idle")
  /\ UNCHANGED <<mu, fileOffers, chanVars, loopVars, accepted, result, modelVars,
                 offerMsgs>>

------------------------------------------------------------------------------
(* Keys                                                                    *)

Selectable == offers # <<>> /\ selectedIdx <= Len(offers)

\* up and down
MoveKey ==
  /\ ui.at = "idle"
  /\ \/ selectedIdx > 1 /\ selectedIdx' = selectedIdx - 1
     \/ selectedIdx < Len(offers) /\ selectedIdx' = selectedIdx + 1
  /\ Go("pending", "idle")
  /\ UNCHANGED <<mu, fileOffers, chanVars, loopVars, accepted, result, offers,
                 transfers, cmdVars>>

\* Any other key, the mouse, or a new window size: the list is read again.
OtherMsg ==
  /\ ui.at = "idle"
  /\ Go("pending", "idle")
  /\ UNCHANGED <<mu, fileOffers, chanVars, loopVars, accepted, result, modelVars, cmdVars>>

\* AcceptTransfer or RejectTransfer of the selected offer is called.
AnswerKey ==
  /\ ui.at = "idle"
  /\ Selectable
  /\ \E answer \in {"accept", "reject"} :
       ui' = [at |-> answer, next |-> "idle", of |-> <<offers[selectedIdx]>>]
  /\ UNCHANGED <<mu, fileOffers, chanVars, loopVars, accepted, result, modelVars, cmdVars>>

\* The cursor after the selected offer was taken out of m.offers.
CursorAfterRemoval ==
  IF selectedIdx > Len(offers) - 1 /\ selectedIdx > 1 THEN selectedIdx - 1 ELSE selectedIdx

\* AcceptTransfer registers the writer and sends the reply.
AcceptOffer ==
  /\ ui.at = "accept"
  /\ mu = "none"
  /\ fileOffers' = fileOffers \ {ui.of[1]}
  /\ accepted' = accepted \cup {ui.of[1]}
  /\ selectedIdx' = CursorAfterRemoval
  /\ IF SizeOf[ui.of[1]] = 0
     THEN /\ ui' = [ui EXCEPT !.at = "finish"]
          /\ \E s \in Outcomes : result' = [result EXCEPT ![ui.of[1]] = s]
     ELSE Go("pending", "idle") /\ UNCHANGED result
  /\ UNCHANGED <<mu, chanVars, loopVars, offers, transfers, cmdVars>>

\* Either fails, having deleted the offer: m.err is set, the cursor stays.
AnswerError ==
  /\ AnswerMayFail
  /\ ui.at \in {"accept", "reject"}
  /\ mu = "none"
  /\ fileOffers' = fileOffers \ {ui.of[1]}
  /\ Go("pending", "idle")
  /\ UNCHANGED <<mu, chanVars, loopVars, accepted, result, modelVars, cmdVars>>

\* An empty file is finished by AcceptTransfer itself: sendProgress on the
\* goroutine of the event loop.
LockFinish ==
  /\ ui.at = "finish"
  /\ mu = "none"
  /\ IF dropped
     THEN Go("pending", "idle") /\ UNCHANGED mu
     ELSE ui' = [ui EXCEPT !.at = "send"] /\ mu' = "ui"
  /\ UNCHANGED <<fileOffers, chanVars, loopVars, accepted, result, modelVars, cmdVars>>

SendFinish ==
  /\ ui.at = "send"
  /\ Len(progressCh) < ProgressCap
  /\ progressCh' = Append(progressCh, Update(ui.of[1], result[ui.of[1]]))
  /\ mu' = "none"
  /\ Go("pending", "idle")
  /\ UNCHANGED <<fileOffers, dropped, offerCh, loopVars, accepted, result, modelVars,
                 cmdVars>>

\* RejectTransfer deletes the offer and sends the reply.
RejectOffer ==
  /\ ui.at = "reject"
  /\ mu = "none"
  /\ fileOffers' = fileOffers \ {ui.of[1]}
  /\ selectedIdx' = CursorAfterRemoval
  /\ Go("pending", "idle")
  /\ UNCHANGED <<mu, chanVars, loopVars, accepted, result, offers, transfers, cmdVars>>

------------------------------------------------------------------------------
LoopStep == LockProgress \/ SendProgress
CommandStep == WaiterTakes \/ WaiterEnds \/ OfferWaiterTakes
Answer == AcceptOffer \/ AnswerError \/ RejectOffer
MessageStep == PendingOffers \/ WaitForOffer \/ Rearm \/ Answer \/ LockFinish \/ SendFinish
UiStep == OnProgress \/ OnOffer \/ MessageStep

Next == \/ \E o \in Offers : ReceiveOffer(o) \/ ReceiveChunk(o) \/ WriteFails(o)
        \/ LoopStep \/ LoopEnds \/ CommandStep \/ UiStep \/ MoveKey \/ AnswerKey \/ OtherMsg

Safety == Init /\ [][Next]_vars

(* The goroutines run; the event loop goes on with the message it handles  *)
(* and draws the next from the commands and the keys at random, so no      *)
(* command waits for ever.  Nobody has to press a key, and the host need   *)
(* not send anything.                                                      *)
Fairness ==
  /\ SF_vars(LoopStep) /\ SF_vars(MessageStep)
  /\ SF_vars(OnProgress) /\ SF_vars(OnOffer)
  /\ WF_vars(WaiterTakes) /\ WF_vars(OfferWaiterTakes)

Spec == Safety /\ Fairness

------------------------------------------------------------------------------
(* Properties                                                              *)

Updates == [of : Offers, state : {"InProgress"} \cup Ends]
UiPC == {"idle", "pending", "rearm", "wait", "accept", "reject", "finish", "send"}

\* What the list of offers shows.
Rows == {offers[i] : i \in DOMAIN offers}

\* The values the variables range over; neither channel is over its capacity,
\* and what the list shows are different offers.
TypeOK ==
  /\ mu \in {"none", "loop", "ui"}
  /\ (mu = "loop") = (loop.at = "send") /\ (mu = "ui") = (ui.at = "send")
  /\ fileOffers \subseteq offered /\ offered \subseteq Offers /\ accepted \subseteq offered
  /\ progressCh \in Seq(Updates) /\ Len(progressCh) <= ProgressCap
  /\ dropped \in BOOLEAN /\ offerCh \in 0..OfferCap
  /\ loop \in [at : {"read", "progress", "send", "ended"}, send : Seq(Updates)]
  /\ arrived \in [Offers -> Nat] /\ result \in [Offers -> {"none"} \cup Ends]
  /\ ui \in [at : UiPC, next : {"idle", "rearm", "wait"}, of : Seq(Offers)]
  /\ offers \in Listings(Rows) /\ Rows \subseteq offered
  /\ selectedIdx \in Nat \ {0}
  /\ transfers \in [Offers -> {"none", "InProgress"} \cup Ends]
  /\ waiter \in [at : {"recv", "msg", "off", "nil", "ended"}, has : Seq(Updates)]
  /\ offerWaiters \in Nat /\ offerMsgs \in Nat

\* Between two messages the cursor is on a row of the list (or on the first of
\* an empty one), although the list is replaced behind it by the map's content.
\* An answer that fails takes the row away and leaves the cursor where it was.
CursorInRange ==
  ui.at = "idle" => (selectedIdx <= Len(offers) \/ (offers = <<>> /\ selectedIdx = 1))

\* An offer that is pending comes up in the list, or is answered, even when
\* offerCh was full and its announcement was dropped.
OffersReachUi ==
  \A o \in Offers :
    (o \in fileOffers) ~> (o \notin fileOffers \/ \E i \in DOMAIN offers : offers[i] = o)

\* An end that is shown is the one there was, completed only with every chunk, and
\* stays shown: no update overtakes another on its way from readLoop through progressCh
\* and the command that waits for it, and an empty file, whose update the event loop
\* sends itself, has no other.
EndIsTrue ==
  \A o \in Offers : transfers[o] \in Ends =>
    /\ transfers[o] = result[o]
    /\ transfers[o] = "Completed" => arrived[o] = SizeOf[o]
EndIsFinal ==
  [][\A o \in Offers : transfers[o] \in Ends => transfers'[o] = transfers[o]]_vars

\* "Progress and feed events reach the UIs over buffered channels"
\* (README.md:192-193): a transfer whose last chunk has arrived is shown as completed,
\* or as failed if a write or its end failed, and stays so, unless the connection ends
\* meanwhile, which closes progressCh.
ProgressReachesUi ==
  /\ \A o \in Offers : (result[o] # "none") ~> (transfers[o] = result[o] \/ loop.at = "ended")
  /\ EndIsFinal

\* The interface comes back to its event loop after every message.
UiComesBack == (ui.at # "idle") ~> (ui.at = "idle")

\* "up/down selects" (README.md:116): a message that is no key leaves the
\* selected offer selected, as long as it is listed.
SelectionStays ==
  [][/\ ui.at = "pending" /\ ui.next \in {"rearm", "wait"}
     /\ Selectable
     /\ offers[selectedIdx] \in fileOffers
     /\ offers' # offers
     => offers'[selectedIdx'] = offers[selectedIdx]]_vars

==============================================================================
