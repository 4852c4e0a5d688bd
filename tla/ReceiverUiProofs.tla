--------------------------- MODULE ReceiverUiProofs ---------------------------
(***************************************************************************)
(* Proofs about the receiver's interface and its readLoop, for any offers  *)
(* of any sizes and channels of any capacity, as a session of its own and  *)
(* in the whole program.                                                   *)
(***************************************************************************)
EXTENDS ReceiverApp, FiniteSetTheorems, SequenceTheorems, TLAPS

USE ReceiverUiAssumption

------------------------------------------------------------------------------
(* Types                                                                   *)

\* Who sends an update has one, who holds a message has its update, the offer that is
\* being answered is one the host has made, and what the event loop reports has ended.
HasWhatItNeeds ==
  /\ loop.at \in {"progress", "send"} => loop.send # <<>>
  /\ waiter.at = "msg" => waiter.has # <<>>
  /\ ui.at \in {"accept", "reject", "finish", "send"} => ui.of # <<>> /\ ui.of[1] \in offered
  /\ ui.at \in {"finish", "send"} => result[ui.of[1]] \in Ends

UiTypes == TypeOK /\ HasWhatItNeeds

\* A list of a set's members is a sequence as long as the set.
LEMMA ListingIs ==
  ASSUME NEW S, IsFiniteSet(S), NEW f \in Listings(S)
  PROVE  /\ Cardinality(S) \in Nat
         /\ f \in Seq(S) /\ DOMAIN f = 1..Cardinality(S) /\ Len(f) = Cardinality(S)
         /\ \A i, j \in DOMAIN f : f[i] = f[j] => i = j
<1>1. Cardinality(S) \in Nat
  BY FS_CardinalityType
<1>2. f \in [1..Cardinality(S) -> S] /\ \A i, j \in DOMAIN f : f[i] = f[j] => i = j
  BY DEF Listings
<1>3. f \in Seq(S)
  BY <1>1, <1>2
<1> QED
  BY <1>1, <1>2, <1>3

\* It lists what it shows.
LEMMA ListingOfRows ==
  ASSUME NEW S, IsFiniteSet(S), NEW f \in Listings(S)
  PROVE  LET R == {f[i] : i \in DOMAIN f}
         IN  f \in Listings(R) /\ R \subseteq S
<1> DEFINE n == Cardinality(S)
           R == {f[i] : i \in DOMAIN f}
<1>1. n \in Nat /\ f \in [1..n -> S] /\ \A i, j \in 1..n : f[i] = f[j] => i = j
  BY ListingIs DEF Listings
<1>2. R \subseteq S /\ f \in [1..n -> R]
  BY <1>1
<1> HIDE DEF n
<1>3. f \in Bijection(1..n, R)
  <2>1. \A r \in R : \E i \in 1..n : f[i] = r
    BY <1>1
  <2> HIDE DEF R
  <2>2. f \in Injection(1..n, R)
    BY <1>1, <1>2 DEF Injection, IsInjective
  <2>3. f \in Surjection(1..n, R)
    BY <1>1, <1>2, <2>1 DEF Surjection
  <2> QED
    BY <2>2, <2>3 DEF Bijection
<1>4. IsFiniteSet(1..n) /\ Cardinality(1..n) = n
  BY <1>1, FS_Interval
<1>5. Cardinality(R) = n
  BY <1>3, <1>4, FS_Bijection DEF ExistsBijection
<1>6. f \in Listings(R)
  BY <1>1, <1>2, <1>5 DEF Listings
<1> QED
  BY <1>2, <1>6

LEMMA UiTypesInit == Init => UiTypes
<1> SUFFICES ASSUME Init
             PROVE  UiTypes
  OBVIOUS
<1>1. /\ <<>> \in Seq(Updates) /\ <<>> \in Seq(Offers) /\ Len(<<>>) = 0
      /\ ProgressCap \in Nat \ {0} /\ OfferCap \in Nat \ {0}
  BY EmptySeq
<1>2. Rows = {} /\ offers \in Listings(Rows)
  <2>1. offers = <<>> /\ Rows = {}
    BY DEF Init, Rows
  <2>2. Cardinality({}) = 0
    BY FS_EmptySet
  <2>3. <<>> \in [1..0 -> {}]
    OBVIOUS
  <2> QED
    BY <2>1, <2>2, <2>3 DEF Listings
<1>3. /\ mu = "none" /\ loop = [at |-> "read", send |-> <<>>]
      /\ ui = [at |-> "idle", next |-> "idle", of |-> <<>>]
      /\ waiter = [at |-> "recv", has |-> <<>>]
  BY DEF Init
<1>4. /\ loop \in [at : {"read", "progress", "send", "ended"}, send : Seq(Updates)]
      /\ ui \in [at : UiPC, next : {"idle", "rearm", "wait"}, of : Seq(Offers)]
      /\ waiter \in [at : {"recv", "msg", "off", "nil", "ended"}, has : Seq(Updates)]
  BY <1>1, <1>3 DEF UiPC
<1>5. HasWhatItNeeds
  BY <1>3 DEF HasWhatItNeeds
<1>6. TypeOK
  <2>1. /\ mu \in {"none", "loop", "ui"}
        /\ (mu = "loop") = (loop.at = "send") /\ (mu = "ui") = (ui.at = "send")
    BY <1>3
  <2>2. /\ fileOffers = {} /\ offered = {} /\ accepted = {} /\ progressCh = <<>>
        /\ dropped = FALSE /\ offerCh = 0 /\ selectedIdx = 1
        /\ offerWaiters = 1 /\ offerMsgs = 0
        /\ arrived \in [Offers -> Nat]
        /\ transfers \in [Offers -> {"none", "InProgress"} \cup Ends]
        /\ result \in [Offers -> {"none"} \cup Ends]
    BY DEF Init
  <2>3. Len(progressCh) <= ProgressCap /\ offerCh \in 0..OfferCap
    BY <1>1, <2>2
  <2>4. progressCh \in Seq(Updates) /\ Rows \subseteq offered
    BY <1>1, <1>2, <2>2
  <2>5. fileOffers \subseteq offered /\ offered \subseteq Offers /\ accepted \subseteq offered
    BY <2>2, Zenon
  <2>6. dropped \in BOOLEAN
    BY <2>2, Zenon
  <2>7. selectedIdx \in Nat \ {0} /\ offerWaiters \in Nat /\ offerMsgs \in Nat
    <3>1. selectedIdx = 1 /\ offerWaiters = 1 /\ offerMsgs = 0
      BY <2>2
    <3> QED
      BY <3>1
  <2> QED
    BY <1>2, <1>4, <2>1, <2>2, <2>3, <2>4, <2>5, <2>6, <2>7 DEF TypeOK
<1> QED
  BY <1>5, <1>6 DEF UiTypes

\* The list stays as it is.
LEMMA RowsStay == ASSUME offers' = offers PROVE Rows' = Rows
  BY DEF Rows

\* The parts of the state, by their types.
LEMMA UiParts ==
  ASSUME UiTypes
  PROVE  /\ IsFiniteSet(fileOffers) /\ IsFiniteSet(Rows)
         /\ fileOffers \subseteq Offers /\ Rows \subseteq Offers
         /\ offers \in Seq(Rows) /\ DOMAIN offers = 1..Len(offers)
         /\ Len(offers) = Cardinality(Rows) /\ Len(offers) \in Nat
         /\ \A i \in 1..Len(offers) : offers[i] \in Rows
<1>1. fileOffers \subseteq Offers /\ Rows \subseteq Offers /\ offers \in Listings(Rows)
  BY DEF UiTypes, TypeOK
<1>2. IsFiniteSet(fileOffers) /\ IsFiniteSet(Rows)
  BY <1>1, FS_Subset
<1>3. /\ offers \in Seq(Rows) /\ DOMAIN offers = 1..Len(offers)
      /\ Len(offers) = Cardinality(Rows) /\ Len(offers) \in Nat
  BY <1>1, <1>2, ListingIs
<1> QED
  BY <1>1, <1>2, <1>3

LEMMA TypesOfLoop ==
  ASSUME UiTypes,
         \/ \E o \in Offers : ReceiveOffer(o) \/ ReceiveChunk(o) \/ WriteFails(o)
         \/ LoopStep \/ LoopEnds
  PROVE  UiTypes'
<1>1. /\ SizeOf \in [Offers -> Nat] /\ ProgressCap \in Nat \ {0} /\ OfferCap \in Nat \ {0}
      /\ <<>> \in Seq(Updates)
  BY EmptySeq
<1>2. offers' = offers /\ Rows' = Rows
  <2>1. offers' = offers
    BY DEF ReceiveOffer, ReceiveChunk, WriteFails, Arrives, LoopStep, LockProgress,
           SendProgress, LoopEnds, modelVars
  <2> QED
    BY <2>1, RowsStay
<1>3. ASSUME NEW o \in Offers, ReceiveOffer(o)
      PROVE  UiTypes'
  <2>0. offerCh \in 0..OfferCap
    BY DEF UiTypes, TypeOK
  <2>1. /\ fileOffers' = fileOffers \cup {o} /\ offered' = offered \cup {o}
        /\ offerCh' \in 0..OfferCap
        /\ UNCHANGED <<mu, progressCh, dropped, loop, arrived, accepted, result, ui, modelVars, cmdVars>>
    BY <1>1, <1>3, <2>0 DEF ReceiveOffer
  <2>2. TypeOK'
    BY <1>2, <2>1 DEF UiTypes, TypeOK, modelVars, cmdVars
  <2>3. HasWhatItNeeds'
    BY <1>2, <2>1 DEF UiTypes, HasWhatItNeeds, modelVars, cmdVars
  <2> QED
    BY <2>1, <2>2, <2>3 DEF UiTypes
<1>4. ASSUME NEW o \in Offers, ReceiveChunk(o) \/ WriteFails(o)
      PROVE  UiTypes'
  <2>1. Update(o, "InProgress") \in Updates /\ \A s \in Ends : Update(o, s) \in Updates
    BY DEF Update, Updates
  <2>2. \/ loop' = [at |-> "progress", send |-> <<Update(o, "InProgress")>>]
        \/ \E s \in Ends : loop' = [at |-> "progress", send |-> <<Update(o, s)>>]
        \/ \E s \in Ends :
             loop' = [at |-> "progress", send |-> <<Update(o, "InProgress"), Update(o, s)>>]
    <3>1. "Failed" \in Ends /\ \A s \in Outcomes : s \in Ends
      BY DEF Outcomes, Ends
    <3>2. CASE ReceiveChunk(o)
      BY <3>1, <3>2, Zenon DEF ReceiveChunk
    <3>3. CASE WriteFails(o)
      BY <3>1, <3>3, Zenon DEF WriteFails
    <3> QED
      BY <1>4, <3>2, <3>3
  <2>3. /\ loop' \in [at : {"read", "progress", "send", "ended"}, send : Seq(Updates)]
        /\ loop'.at = "progress" /\ loop'.send # <<>>
    <3>1. PICK s \in Ends :
            \/ loop' = [at |-> "progress", send |-> <<Update(o, "InProgress")>>]
            \/ loop' = [at |-> "progress", send |-> <<Update(o, s)>>]
            \/ loop' = [at |-> "progress", send |-> <<Update(o, "InProgress"), Update(o, s)>>]
      BY <2>2 DEF Ends
    <3> DEFINE u == Update(o, "InProgress")
               v == Update(o, s)
    <3>2. u \in Updates /\ v \in Updates
      BY <2>1
    <3> HIDE DEF Updates, u, v
    <3>3. \/ loop' = [at |-> "progress", send |-> <<u>>]
          \/ loop' = [at |-> "progress", send |-> <<v>>]
          \/ loop' = [at |-> "progress", send |-> <<u, v>>]
      BY <3>1 DEF u, v
    <3>4. /\ <<u>> \in Seq(Updates) /\ <<v>> \in Seq(Updates) /\ <<u, v>> \in Seq(Updates)
          /\ <<u>> # <<>> /\ <<v>> # <<>> /\ <<u, v>> # <<>>
      BY <3>2
    <3>5. PICK q \in {<<u>>, <<v>>, <<u, v>>} : loop' = [at |-> "progress", send |-> q]
      BY <3>3
    <3>6. q \in Seq(Updates) /\ q # <<>>
      BY <3>4, <3>5, Zenon
    <3> QED
      BY <3>5, <3>6
  <2>4. arrived' \in [Offers -> Nat]
    <3>1. arrived' = arrived \/ arrived' = [arrived EXCEPT ![o] = @ + 1]
      BY <1>4 DEF ReceiveChunk, WriteFails
    <3>2. arrived \in [Offers -> Nat]
      BY DEF UiTypes, TypeOK
    <3> QED
      BY <3>1, <3>2
  <2>5. loop.at = "read" /\ UNCHANGED <<mu, fileOffers, chanVars, offered, accepted, ui,
                                        modelVars, cmdVars>>
    BY <1>4 DEF ReceiveChunk, WriteFails, Arrives
  <2>6. result' = result \/ \E s \in Ends : result' = [result EXCEPT ![o] = s]
    BY <1>4 DEF ReceiveChunk, WriteFails, Outcomes, Ends
  <2>7. /\ result' \in [Offers -> {"none"} \cup Ends]
        /\ \A p \in Offers : result[p] \in Ends => result'[p] \in Ends
    <3>1. result \in [Offers -> {"none"} \cup Ends]
      BY DEF UiTypes, TypeOK
    <3> QED
      BY <2>6, <3>1
  <2>8. ui.at \in {"finish", "send"} => result'[ui.of[1]] \in Ends
    BY <2>7 DEF UiTypes, TypeOK, HasWhatItNeeds
  <2> QED
    BY <1>2, <2>3, <2>4, <2>5, <2>7, <2>8
       DEF UiTypes, TypeOK, HasWhatItNeeds, chanVars, modelVars, cmdVars
<1>5. ASSUME LockProgress
      PROVE  UiTypes'
  BY <1>2, <1>5 DEF UiTypes, TypeOK, HasWhatItNeeds, LockProgress, chanVars, modelVars, cmdVars
<1>6. ASSUME SendProgress
      PROVE  UiTypes'
  <2>1. /\ loop.send \in Seq(Updates) /\ loop.send # <<>> /\ progressCh \in Seq(Updates)
        /\ Len(progressCh) < ProgressCap /\ mu = "loop"
    BY <1>6 DEF UiTypes, TypeOK, HasWhatItNeeds, SendProgress
  <2>2. Head(loop.send) \in Updates /\ Tail(loop.send) \in Seq(Updates)
        /\ Len(Tail(loop.send)) = Len(loop.send) - 1
    BY <2>1, HeadTailProperties
  <2>3. progressCh' \in Seq(Updates) /\ Len(progressCh') <= ProgressCap
    BY <1>1, <1>6, <2>1, <2>2, AppendProperties DEF SendProgress
  <2>4. /\ loop' \in [at : {"read", "progress", "send", "ended"}, send : Seq(Updates)]
        /\ loop'.at \in {"read", "progress"}
        /\ loop'.at = "progress" => loop'.send # <<>>
    <3>1. loop'.send = Tail(loop.send)
          /\ loop'.at = IF Len(loop.send) = 1 THEN "read" ELSE "progress"
      BY <1>6 DEF SendProgress
    <3>2. Len(loop.send) # 1 => Tail(loop.send) # <<>>
      <4> DEFINE rest == Tail(loop.send)
                 n == Len(loop.send)
      <4>1. n \in Nat /\ Len(rest) = n - 1
        BY <2>1, <2>2
      <4> HIDE DEF rest, n
      <4>2. n # 1 => rest # <<>>
        BY <4>1, EmptySeq
      <4> QED
        BY <4>2 DEF rest, n
    <3>3. loop' \in [at : {"read", "progress", "send", "ended"}, send : Seq(Updates)]
      BY <1>6, <2>2 DEF SendProgress
    <3> QED
      BY <3>1, <3>2, <3>3
  <2> QED
    BY <1>2, <1>6, <2>1, <2>3, <2>4
       DEF UiTypes, TypeOK, HasWhatItNeeds, SendProgress, modelVars, cmdVars
<1>7. ASSUME LoopEnds
      PROVE  UiTypes'
  BY <1>2, <1>7 DEF UiTypes, TypeOK, HasWhatItNeeds, LoopEnds, modelVars, cmdVars
<1> QED
  BY <1>3, <1>4, <1>5, <1>6, <1>7 DEF LoopStep

LEMMA TypesOfCommands ==
  ASSUME UiTypes, CommandStep
  PROVE  UiTypes'
<1>1. Rows' = Rows
  <2>1. offers' = offers
    BY DEF CommandStep, WaiterTakes, WaiterEnds, OfferWaiterTakes, modelVars
  <2> QED
    BY <2>1, RowsStay
<1>2. ASSUME WaiterTakes
      PROVE  UiTypes'
  <2>1. /\ progressCh \in Seq(Updates) /\ progressCh # <<>> /\ Len(progressCh) <= ProgressCap
        /\ ProgressCap \in Nat
    BY <1>2 DEF UiTypes, TypeOK, WaiterTakes
  <2>2. Head(progressCh) \in Updates /\ Tail(progressCh) \in Seq(Updates)
        /\ Len(Tail(progressCh)) = Len(progressCh) - 1 /\ Len(progressCh) \in Nat
    BY <2>1, HeadTailProperties
  <2>3. progressCh' \in Seq(Updates) /\ Len(progressCh') <= ProgressCap
    BY <1>2, <2>1, <2>2 DEF WaiterTakes
  <2>4. /\ waiter' \in [at : {"recv", "msg", "off", "nil", "ended"}, has : Seq(Updates)]
        /\ waiter'.has # <<>>
    <3> HIDE DEF Updates
    <3> QED
      BY <1>2, <2>2 DEF WaiterTakes
  <2> QED
    BY <1>1, <1>2, <2>3, <2>4
       DEF UiTypes, TypeOK, HasWhatItNeeds, WaiterTakes, loopVars, modelVars
<1>3. ASSUME WaiterEnds
      PROVE  UiTypes'
  BY <1>1, <1>3
     DEF UiTypes, TypeOK, HasWhatItNeeds, WaiterEnds, chanVars, loopVars, modelVars
<1>4. ASSUME OfferWaiterTakes
      PROVE  UiTypes'
  BY <1>1, <1>4 DEF UiTypes, TypeOK, HasWhatItNeeds, OfferWaiterTakes, loopVars, modelVars
<1> QED
  BY <1>2, <1>3, <1>4 DEF CommandStep

LEMMA TypesOfMessages ==
  ASSUME UiTypes, OnProgress \/ OnOffer \/ PendingOffers \/ WaitForOffer \/ Rearm \/ OtherMsg
  PROVE  UiTypes'
<1>0. /\ ui \in [at : UiPC, next : {"idle", "rearm", "wait"}, of : Seq(Offers)]
      /\ <<>> \in Seq(Updates) /\ <<>> \in Seq(Offers)
  BY EmptySeq DEF UiTypes, TypeOK
<1>1. \A at \in {"idle", "pending", "rearm", "wait"}, next \in {"idle", "rearm", "wait"} :
        Go(at, next) => /\ ui'.at = at
                        /\ ui' \in [at : UiPC, next : {"idle", "rearm", "wait"}, of : Seq(Offers)]
  BY <1>0 DEF Go, UiPC
<1>2. ASSUME OnProgress
      PROVE  UiTypes'
  <2>1. offers' = offers /\ Rows' = Rows /\ ui.at = "idle"
    BY <1>2, RowsStay DEF OnProgress
  <2>2. waiter.has \in Seq(Updates) /\ waiter.has # <<>>
    BY <1>2 DEF OnProgress, UiTypes, TypeOK, HasWhatItNeeds
  <2>3. waiter.has[1] \in Updates
    BY <2>2, EmptySeq
  <2>4. transfers' \in [Offers -> {"none", "InProgress"} \cup Ends]
    BY <1>2, <2>3 DEF OnProgress, Updates, UiTypes, TypeOK
  <2>5. /\ waiter' \in [at : {"recv", "msg", "off", "nil", "ended"}, has : Seq(Updates)]
        /\ waiter'.at = "off"
    BY <1>0, <1>2 DEF OnProgress
  <2>6. /\ ui'.at = "pending"
        /\ ui' \in [at : UiPC, next : {"idle", "rearm", "wait"}, of : Seq(Offers)]
    BY <1>1, <1>2 DEF OnProgress
  <2> QED
    BY <1>2, <2>1, <2>4, <2>5, <2>6
       DEF UiTypes, TypeOK, HasWhatItNeeds, OnProgress, chanVars, loopVars
<1>3. ASSUME OnOffer
      PROVE  UiTypes'
  <2>1. offers' = offers /\ Rows' = Rows /\ ui.at = "idle"
    BY <1>3, RowsStay DEF OnOffer, modelVars
  <2>2. /\ ui'.at = "pending"
        /\ ui' \in [at : UiPC, next : {"idle", "rearm", "wait"}, of : Seq(Offers)]
    BY <1>1, <1>3 DEF OnOffer
  <2> QED
    BY <1>3, <2>1, <2>2
       DEF UiTypes, TypeOK, HasWhatItNeeds, OnOffer, chanVars, loopVars, modelVars
<1>4. ASSUME PendingOffers
      PROVE  UiTypes'
  <2>1. offers' \in Listings(Rows') /\ Rows' \subseteq fileOffers
    <3>1. IsFiniteSet(fileOffers) /\ offers' \in Listings(fileOffers)
      BY <1>4, UiParts DEF PendingOffers
    <3>2. Rows' = {offers'[i] : i \in DOMAIN offers'}
      BY DEF Rows
    <3> DEFINE f == offers'
    <3> HIDE DEF f
    <3>3. LET R == {f[i] : i \in DOMAIN f} IN f \in Listings(R) /\ R \subseteq fileOffers
      BY <3>1, ListingOfRows DEF f
    <3> QED
      BY <3>2, <3>3 DEF f
  <2>2. /\ ui'.at \in {"idle", "rearm", "wait"}
        /\ ui' \in [at : UiPC, next : {"idle", "rearm", "wait"}, of : Seq(Offers)]
    BY <1>0, <1>1, <1>4 DEF PendingOffers
  <2>3. ui.at = "pending"
    BY <1>4 DEF PendingOffers
  <2> QED
    BY <1>4, <2>1, <2>2, <2>3
       DEF UiTypes, TypeOK, HasWhatItNeeds, PendingOffers, chanVars, loopVars, cmdVars
<1>5. ASSUME WaitForOffer
      PROVE  UiTypes'
  <2>1. offers' = offers /\ Rows' = Rows /\ ui.at = "wait"
    BY <1>5, RowsStay DEF WaitForOffer, modelVars
  <2>2. /\ ui'.at = "idle"
        /\ ui' \in [at : UiPC, next : {"idle", "rearm", "wait"}, of : Seq(Offers)]
    BY <1>1, <1>5 DEF WaitForOffer
  <2> QED
    BY <1>5, <2>1, <2>2
       DEF UiTypes, TypeOK, HasWhatItNeeds, WaitForOffer, chanVars, loopVars, modelVars
<1>6. ASSUME Rearm
      PROVE  UiTypes'
  <2>1. offers' = offers /\ Rows' = Rows /\ ui.at = "rearm"
    BY <1>6, RowsStay DEF Rearm, modelVars
  <2>2. /\ ui'.at = "idle"
        /\ ui' \in [at : UiPC, next : {"idle", "rearm", "wait"}, of : Seq(Offers)]
    BY <1>1, <1>6 DEF Rearm
  <2>3. /\ waiter' \in [at : {"recv", "msg", "off", "nil", "ended"}, has : Seq(Updates)]
        /\ waiter'.at # "msg"
    BY <1>6 DEF Rearm, UiTypes, TypeOK
  <2>4. /\ UNCHANGED <<mu, fileOffers, accepted, result, selectedIdx, transfers, offerMsgs>>
        /\ UNCHANGED <<chanVars, loopVars>> /\ ui'.next = "idle" /\ ui'.of = <<>>
        /\ offerWaiters' = offerWaiters + 1
    BY <1>6 DEF Rearm, Go, modelVars
  <2> QED
    BY <2>1, <2>2, <2>3, <2>4
       DEF UiTypes, TypeOK, HasWhatItNeeds, chanVars, loopVars
<1>7. ASSUME OtherMsg
      PROVE  UiTypes'
  <2>1. offers' = offers /\ Rows' = Rows /\ ui.at = "idle"
    BY <1>7, RowsStay DEF OtherMsg, modelVars
  <2>2. /\ ui'.at = "pending"
        /\ ui' \in [at : UiPC, next : {"idle", "rearm", "wait"}, of : Seq(Offers)]
    BY <1>1, <1>7 DEF OtherMsg
  <2> QED
    BY <1>7, <2>1, <2>2
       DEF UiTypes, TypeOK, HasWhatItNeeds, OtherMsg, chanVars, loopVars, modelVars, cmdVars
<1> QED
  BY <1>2, <1>3, <1>4, <1>5, <1>6, <1>7

\* The cursor stays on a row, or the first.
LEMMA CursorMoves ==
  ASSUME UiTypes
  PROVE  CursorAfterRemoval \in Nat \ {0}
<1>1. selectedIdx \in Nat \ {0}
  BY DEF UiTypes, TypeOK
<1>2. Len(offers) \in Nat
  BY UiParts
<1> QED
  BY <1>1, <1>2 DEF CursorAfterRemoval

LEMMA TypesOfKeys ==
  ASSUME UiTypes,
         MoveKey \/ AnswerKey \/ AcceptOffer \/ AnswerError \/ LockFinish \/ SendFinish \/ RejectOffer
  PROVE  UiTypes'
<1>0. /\ ui \in [at : UiPC, next : {"idle", "rearm", "wait"}, of : Seq(Offers)]
      /\ <<>> \in Seq(Offers) /\ SizeOf \in [Offers -> Nat] /\ ProgressCap \in Nat \ {0}
  BY EmptySeq DEF UiTypes, TypeOK
<1>1. Go("pending", "idle") =>
        /\ ui'.at = "pending"
        /\ ui' \in [at : UiPC, next : {"idle", "rearm", "wait"}, of : Seq(Offers)]
  BY <1>0 DEF Go, UiPC
<1>2. offers' = offers /\ Rows' = Rows
  <2>1. offers' = offers
    BY DEF MoveKey, AnswerKey, AcceptOffer, AnswerError, LockFinish, SendFinish, RejectOffer,
           modelVars
  <2> QED
    BY <2>1, RowsStay
<1>3. ASSUME MoveKey
      PROVE  UiTypes'
  <2>1. selectedIdx' \in Nat \ {0} /\ ui.at = "idle"
    <3>1. selectedIdx \in Nat \ {0} /\ Len(offers) \in Nat
      BY UiParts DEF UiTypes, TypeOK
    <3>2. /\ ui.at = "idle"
          /\ \/ selectedIdx > 1 /\ selectedIdx' = selectedIdx - 1
             \/ selectedIdx < Len(offers) /\ selectedIdx' = selectedIdx + 1
      BY <1>3 DEF MoveKey
    <3> QED
      BY <3>1, <3>2
  <2>2. /\ UNCHANGED <<mu, fileOffers, chanVars, loopVars, accepted, result, offers, transfers>>
        /\ UNCHANGED cmdVars
        /\ ui'.at = "pending"
        /\ ui' \in [at : UiPC, next : {"idle", "rearm", "wait"}, of : Seq(Offers)]
    BY <1>1, <1>3 DEF MoveKey
  <2> QED
    BY <1>2, <2>1, <2>2 DEF UiTypes, TypeOK, HasWhatItNeeds, chanVars, loopVars, cmdVars
<1>4. ASSUME AnswerKey
      PROVE  UiTypes'
  <2>1. selectedIdx \in 1..Len(offers)
    BY <1>4, UiParts DEF AnswerKey, Selectable, UiTypes, TypeOK
  <2>2. offers[selectedIdx] \in offered /\ offers[selectedIdx] \in Offers
    BY <2>1, UiParts DEF UiTypes, TypeOK
  <2>3. PICK answer \in {"accept", "reject"} :
          ui' = [at |-> answer, next |-> "idle", of |-> <<offers[selectedIdx]>>]
    BY <1>4 DEF AnswerKey
  <2>4. /\ ui' \in [at : UiPC, next : {"idle", "rearm", "wait"}, of : Seq(Offers)]
        /\ ui'.at \in {"accept", "reject"} /\ ui'.of # <<>> /\ ui'.of[1] \in offered
    BY <2>2, <2>3 DEF UiPC
  <2>5. ui.at = "idle"
    BY <1>4 DEF AnswerKey
  <2> QED
    BY <1>2, <1>4, <2>4, <2>5
       DEF UiTypes, TypeOK, HasWhatItNeeds, AnswerKey, chanVars, loopVars, modelVars, cmdVars
<1>5. ASSUME AcceptOffer
      PROVE  UiTypes'
  <2>1. ui.of # <<>> /\ ui.of[1] \in offered /\ ui.at = "accept"
    BY <1>5 DEF AcceptOffer, UiTypes, HasWhatItNeeds
  <2>2. /\ ui' \in [at : UiPC, next : {"idle", "rearm", "wait"}, of : Seq(Offers)]
        /\ ui'.at = "pending" \/ (ui'.at = "finish" /\ ui'.of = ui.of)
    <3>1. \/ ui' = [ui EXCEPT !.at = "finish"]
          \/ Go("pending", "idle")
      BY <1>5, Zenon DEF AcceptOffer
    <3> QED
      BY <1>0, <1>1, <3>1 DEF UiPC
  <2>3. selectedIdx' \in Nat \ {0}
    BY <1>5, CursorMoves DEF AcceptOffer
  <2>4. /\ result' \in [Offers -> {"none"} \cup Ends]
        /\ ui'.at = "finish" => result'[ui.of[1]] \in Ends
    <3> DEFINE o == ui.of[1]
    <3>1. result \in [Offers -> {"none"} \cup Ends] /\ o \in Offers
      BY <2>1 DEF UiTypes, TypeOK
    <3>2. \/ ui'.at = "pending" /\ result' = result
          \/ \E s \in Ends : result' = [result EXCEPT ![o] = s]
      BY <1>5 DEF AcceptOffer, Go, Outcomes, Ends
    <3> HIDE DEF o
    <3>3. /\ result' \in [Offers -> {"none"} \cup Ends]
          /\ ui'.at = "finish" => result'[o] \in Ends
      BY <3>1, <3>2
    <3> QED
      BY <3>3 DEF o
  <2> QED
    BY <1>2, <1>5, <2>1, <2>2, <2>3, <2>4
       DEF UiTypes, TypeOK, HasWhatItNeeds, AcceptOffer, chanVars, loopVars, cmdVars
<1>6. ASSUME AnswerError
      PROVE  UiTypes'
  BY <1>1, <1>2, <1>6
     DEF UiTypes, TypeOK, HasWhatItNeeds, AnswerError, chanVars, loopVars, modelVars, cmdVars
<1>7. ASSUME LockFinish
      PROVE  UiTypes'
  <2>1. CASE dropped
    BY <1>1, <1>2, <1>7, <2>1
       DEF UiTypes, TypeOK, HasWhatItNeeds, LockFinish, chanVars, loopVars, modelVars, cmdVars
  <2>2. CASE ~dropped
    <3>1. /\ ui' \in [at : UiPC, next : {"idle", "rearm", "wait"}, of : Seq(Offers)]
          /\ ui'.at = "send" /\ ui'.of = ui.of /\ mu' = "ui" /\ ui.at = "finish"
      BY <1>0, <1>7, <2>2 DEF LockFinish, UiPC
    <3> QED
      BY <1>2, <1>7, <3>1
         DEF UiTypes, TypeOK, HasWhatItNeeds, LockFinish, chanVars, loopVars, modelVars, cmdVars
  <2> QED
    BY <2>1, <2>2
<1>8. ASSUME SendFinish
      PROVE  UiTypes'
  <2>1. /\ ui.of[1] \in Offers /\ progressCh \in Seq(Updates) /\ Len(progressCh) < ProgressCap
        /\ mu = "ui" /\ result[ui.of[1]] \in Ends
    BY <1>8 DEF SendFinish, UiTypes, TypeOK, HasWhatItNeeds
  <2>2. Update(ui.of[1], result[ui.of[1]]) \in Updates
    BY <2>1 DEF Update, Updates
  <2>3. progressCh' \in Seq(Updates) /\ Len(progressCh') <= ProgressCap
    BY <1>0, <1>8, <2>1, <2>2, AppendProperties DEF SendFinish
  <2> QED
    BY <1>1, <1>2, <1>8, <2>1, <2>3
       DEF UiTypes, TypeOK, HasWhatItNeeds, SendFinish, loopVars, modelVars, cmdVars
<1>9. ASSUME RejectOffer
      PROVE  UiTypes'
  <2>1. selectedIdx' \in Nat \ {0}
    BY <1>9, CursorMoves DEF RejectOffer
  <2> QED
    BY <1>1, <1>2, <1>9, <2>1
       DEF UiTypes, TypeOK, HasWhatItNeeds, RejectOffer, chanVars, loopVars, cmdVars
<1> QED
  BY <1>3, <1>4, <1>5, <1>6, <1>7, <1>8, <1>9

LEMMA UiTypesStep == UiTypes /\ [Next]_vars => UiTypes'
<1> SUFFICES ASSUME UiTypes, [Next]_vars
             PROVE  UiTypes'
  OBVIOUS
<1>1. ASSUME UNCHANGED vars
      PROVE  UiTypes'
  <2>1. Rows' = Rows
    BY <1>1, RowsStay DEF vars, modelVars
  <2> QED
    BY <1>1, <2>1, SMTT(30)
       DEF vars, chanVars, loopVars, modelVars, cmdVars, UiTypes, TypeOK, HasWhatItNeeds
<1> QED
  BY <1>1, TypesOfLoop, TypesOfCommands, TypesOfMessages, TypesOfKeys DEF Next, UiStep, MessageStep, Answer

\* The whole program runs a session of ReceiverUi, or leaves it alone: what is
\* always so in a session is always so in the program.
LEMMA AppRunsSession == AppSafety => Safety
<1>1. AppInit => Init
  BY DEF AppInit
<1>2. [AppNext]_appVars => [Next]_vars
  BY DEF AppNext, appVars, ConnectStep, ParseKey, TakeEntry, TakeEnd, Connects, ConnectFails,
         QueryEnds, Hear, OnConnected, QuitKey, Command, Handle
<1> QED
  BY <1>1, <1>2, PTL DEF AppSafety, Safety

\* Type correctness of the program, for any offers and capacities: no channel is
\* over its capacity, Receiver.mu is held by whoever waits in sendProgress, and the
\* list shows offers of the host, each of them once.
THEOREM TypeCorrect == AppSafety => []TypeOK
<1>1. UiTypes => TypeOK
  BY DEF UiTypes
<1> QED
  BY UiTypesInit, UiTypesStep, AppRunsSession, <1>1, PTL DEF Safety

------------------------------------------------------------------------------
(* The cursor                                                              *)

\* A cursor in a list of n rows: at most one row below the last, and on a row, or
\* the first of an empty list, unless answers may fail.
CursorFits(i, n) ==
  /\ i <= n + 1
  /\ ~AnswerMayFail => i <= n \/ (n = 0 /\ i = 1)

\* PendingOffers is about to replace the list, by at least as many rows as the
\* cursor needs.
ListOutdated ==
  /\ ui.at \in {"pending", "finish", "send"}
  /\ CursorFits(selectedIdx, Cardinality(fileOffers))

\* The list shows nothing that is not pending, and what is answered is the row at
\* the cursor.
ListUpToDate ==
  /\ ui.at \in {"idle", "rearm", "wait", "accept", "reject"}
  /\ Rows \subseteq fileOffers
  /\ CursorFits(selectedIdx, Len(offers))
  /\ ui.at \in {"accept", "reject"} =>
       selectedIdx \in 1..Len(offers) /\ ui.of[1] = offers[selectedIdx]

CursorInv == UiTypes /\ (ListOutdated \/ ListUpToDate)

\* More rows do no harm.
LEMMA FitsMore ==
  ASSUME NEW i \in Nat \ {0}, NEW n \in Nat, NEW m \in Nat, n <= m, CursorFits(i, n)
  PROVE  CursorFits(i, m)
BY DEF CursorFits

\* The list in numbers, before and after a step.
LEMMA ListCounts ==
  ASSUME UiTypes
  PROVE  /\ Len(offers) \in Nat /\ selectedIdx \in Nat \ {0}
         /\ IsFiniteSet(fileOffers) /\ Cardinality(fileOffers) \in Nat
         /\ Rows \subseteq fileOffers => Len(offers) <= Cardinality(fileOffers)
         /\ \A i \in 1..Len(offers) : offers[i] \in Rows
<1>1. /\ IsFiniteSet(fileOffers) /\ Len(offers) = Cardinality(Rows) /\ Len(offers) \in Nat
      /\ \A i \in 1..Len(offers) : offers[i] \in Rows
  BY UiParts
<1>2. Cardinality(fileOffers) \in Nat
  BY <1>1, FS_CardinalityType
<1>3. Rows \subseteq fileOffers => Cardinality(Rows) <= Cardinality(fileOffers)
  BY <1>1, FS_Subset
<1>4. selectedIdx \in Nat \ {0}
  BY DEF UiTypes, TypeOK
<1> QED
  BY <1>1, <1>2, <1>3, <1>4

\* While the event loop stands still offers only come in.
LEMMA CursorOfOthers ==
  ASSUME CursorInv, UiTypes', UNCHANGED <<ui, offers, selectedIdx>>,
         fileOffers \subseteq fileOffers'
  PROVE  ListOutdated' \/ ListUpToDate'
<1>1. UiTypes /\ Rows' = Rows
  BY RowsStay DEF CursorInv
<1>2. CASE ListOutdated
  <2>1. IsFiniteSet(fileOffers') /\ Cardinality(fileOffers') \in Nat
    <3>1. fileOffers' \subseteq Offers
      BY DEF UiTypes, TypeOK
    <3>2. IsFiniteSet(fileOffers')
      BY <3>1, FS_Subset
    <3> QED
      BY <3>2, FS_CardinalityType
  <2>2. Cardinality(fileOffers) \in Nat /\ Cardinality(fileOffers) <= Cardinality(fileOffers')
    BY <1>1, <2>1, ListCounts, FS_Subset
  <2>3. CursorFits(selectedIdx, Cardinality(fileOffers'))
    BY <1>1, <1>2, <2>1, <2>2, ListCounts, FitsMore DEF ListOutdated
  <2> QED
    BY <1>2, <2>3 DEF ListOutdated, CursorFits
<1>3. CASE ListUpToDate
  BY <1>1, <1>3 DEF ListUpToDate, CursorFits
<1> QED
  BY <1>2, <1>3 DEF CursorInv

\* A message or a key that only moves the cursor: the list is read again.
LEMMA CursorOfMessages ==
  ASSUME CursorInv, OnProgress \/ OnOffer \/ OtherMsg \/ MoveKey
  PROVE  ListOutdated' \/ ListUpToDate'
<1> DEFINE n == Len(offers)
           m == Cardinality(fileOffers)
<1>1. ui.at = "idle" /\ ui'.at = "pending" /\ fileOffers' = fileOffers /\ UiTypes
  BY DEF OnProgress, OnOffer, OtherMsg, MoveKey, Go, CursorInv
<1>2. Rows \subseteq fileOffers /\ CursorFits(selectedIdx, n)
  BY <1>1 DEF CursorInv, ListOutdated, ListUpToDate
<1>3. n \in Nat /\ m \in Nat /\ n <= m /\ selectedIdx \in Nat \ {0}
  BY <1>1, <1>2, ListCounts
<1>4. \/ selectedIdx' = selectedIdx
      \/ selectedIdx > 1 /\ selectedIdx' = selectedIdx - 1
      \/ selectedIdx < n /\ selectedIdx' = selectedIdx + 1
  BY DEF OnProgress, OnOffer, OtherMsg, MoveKey, modelVars
<1> HIDE DEF n, m
<1>5. selectedIdx' \in Nat \ {0} /\ CursorFits(selectedIdx', n)
  BY <1>2, <1>3, <1>4 DEF CursorFits
<1>6. CursorFits(selectedIdx', m)
  BY <1>3, <1>5, FitsMore
<1> QED
  BY <1>1, <1>6 DEF ListOutdated, CursorFits, m

\* The list is read again.
LEMMA CursorOfList ==
  ASSUME CursorInv, UiTypes', PendingOffers
  PROVE  ListOutdated' \/ ListUpToDate'
<1>1. /\ ui.at = "pending" /\ fileOffers' = fileOffers /\ selectedIdx' = selectedIdx /\ UiTypes
      /\ offers' \in Listings(fileOffers)
  BY DEF PendingOffers, CursorInv
<1>2. ui'.at \in {"idle", "rearm", "wait"}
  BY DEF PendingOffers, Go, CursorInv, UiTypes, TypeOK
<1>3. CursorFits(selectedIdx, Cardinality(fileOffers))
  BY <1>1 DEF CursorInv, ListOutdated, ListUpToDate
<1>4. IsFiniteSet(fileOffers)
  BY <1>1, ListCounts
<1>5. Len(offers') = Cardinality(fileOffers) /\ Rows' \subseteq fileOffers
  BY <1>1, <1>4, ListingIs, ListingOfRows DEF Rows
<1> QED
  BY <1>1, <1>2, <1>3, <1>5 DEF ListUpToDate, CursorFits

\* The end of a message.
LEMMA CursorOfCommands ==
  ASSUME CursorInv, WaitForOffer \/ Rearm
  PROVE  ListOutdated' \/ ListUpToDate'
<1>1. /\ ui.at \in {"wait", "rearm"} /\ ui'.at = "idle"
      /\ UNCHANGED <<fileOffers, offers, selectedIdx>>
  BY DEF WaitForOffer, Rearm, Go, modelVars
<1>2. Rows' = Rows
  BY <1>1, RowsStay
<1> QED
  BY <1>1, <1>2 DEF CursorInv, ListOutdated, ListUpToDate, CursorFits

\* An answer takes at most its own row away, and moves the cursor up when it was
\* the last one; an error leaves it there.
LEMMA CursorOfAnswers ==
  ASSUME CursorInv, AcceptOffer \/ AnswerError \/ RejectOffer
  PROVE  ListOutdated' \/ ListUpToDate'
<1> DEFINE n == Len(offers)
           m == Cardinality(fileOffers)
           k == Cardinality(fileOffers \ {ui.of[1]})
<1>1. /\ UiTypes /\ ui.at \in {"accept", "reject"} /\ fileOffers' = fileOffers \ {ui.of[1]}
      /\ ui \in [at : UiPC, next : {"idle", "rearm", "wait"}, of : Seq(Offers)]
  BY DEF AcceptOffer, AnswerError, RejectOffer, CursorInv, UiTypes, TypeOK
<1>2. /\ Rows \subseteq fileOffers /\ CursorFits(selectedIdx, n)
      /\ selectedIdx \in 1..n /\ ui.of[1] = offers[selectedIdx]
  BY <1>1 DEF CursorInv, ListOutdated, ListUpToDate
<1>3. ui'.at \in {"pending", "finish"}
  BY <1>1 DEF AcceptOffer, AnswerError, RejectOffer, Go
<1>4. n \in Nat /\ m \in Nat /\ n <= m /\ ui.of[1] \in fileOffers /\ IsFiniteSet(fileOffers)
  BY <1>1, <1>2, ListCounts
<1>5. k = m - 1
  <2> DEFINE x == ui.of[1]
  <2>1. x \in fileOffers
    BY <1>4
  <2> HIDE DEF x
  <2>2. Cardinality(fileOffers \ {x}) = Cardinality(fileOffers) - 1
    BY <1>4, <2>1, FS_RemoveElement
  <2> QED
    BY <2>2 DEF x
<1>6. \/ selectedIdx' = CursorAfterRemoval
      \/ selectedIdx' = selectedIdx /\ AnswerMayFail
  BY DEF AcceptOffer, AnswerError, RejectOffer, modelVars
<1>7. CursorAfterRemoval = IF selectedIdx > n - 1 /\ selectedIdx > 1
                           THEN selectedIdx - 1 ELSE selectedIdx
  BY DEF CursorAfterRemoval
<1> HIDE DEF n, m, k
<1>8. CursorFits(selectedIdx', k)
  BY <1>2, <1>4, <1>5, <1>6, <1>7 DEF CursorFits
<1> QED
  BY <1>1, <1>3, <1>8 DEF ListOutdated, CursorFits, k

\* A key that answers, and an empty file that is finished at once.
LEMMA CursorOfKeys ==
  ASSUME CursorInv, AnswerKey \/ LockFinish \/ SendFinish
  PROVE  ListOutdated' \/ ListUpToDate'
<1>1. UiTypes /\ UNCHANGED <<fileOffers, offers, selectedIdx>> /\ Rows' = Rows
  BY RowsStay DEF AnswerKey, LockFinish, SendFinish, modelVars, CursorInv
<1>2. ui \in [at : UiPC, next : {"idle", "rearm", "wait"}, of : Seq(Offers)]
  BY <1>1 DEF UiTypes, TypeOK
<1>3. CASE AnswerKey
  <2>1. ui.at = "idle" /\ selectedIdx <= Len(offers)
    BY <1>3 DEF AnswerKey, Selectable
  <2>2. /\ ui'.at \in {"accept", "reject"} /\ ui'.of[1] = offers[selectedIdx]
    BY <1>3 DEF AnswerKey
  <2>3. selectedIdx \in 1..Len(offers)
    BY <1>1, <2>1, ListCounts
  <2> QED
    BY <1>1, <2>1, <2>2, <2>3 DEF CursorInv, ListOutdated, ListUpToDate, CursorFits
<1>4. CASE LockFinish \/ SendFinish
  <2>1. ui.at \in {"finish", "send"} /\ ui'.at \in {"pending", "send"}
    BY <1>2, <1>4 DEF LockFinish, SendFinish, Go
  <2> QED
    BY <1>1, <2>1 DEF CursorInv, ListOutdated, ListUpToDate, CursorFits
<1> QED
  BY <1>3, <1>4

LEMMA CursorInit == Init => CursorInv
<1> SUFFICES ASSUME Init
             PROVE  CursorInv
  OBVIOUS
<1>1. UiTypes
  BY UiTypesInit
<1>2. ui.at = "idle" /\ offers = <<>> /\ selectedIdx = 1 /\ Rows = {} /\ Len(offers) = 0
  BY DEF Init, Rows
<1> QED
  BY <1>1, <1>2 DEF CursorInv, ListUpToDate, CursorFits

LEMMA CursorStep == CursorInv /\ [Next]_vars => CursorInv'
<1> SUFFICES ASSUME CursorInv, [Next]_vars
             PROVE  CursorInv'
  OBVIOUS
<1>1. UiTypes'
  BY UiTypesStep DEF CursorInv
<1>2. ASSUME \/ \E o \in Offers : ReceiveOffer(o) \/ ReceiveChunk(o) \/ WriteFails(o)
             \/ LoopStep \/ LoopEnds \/ CommandStep \/ UNCHANGED vars
      PROVE  ListOutdated' \/ ListUpToDate'
  <2>1. UNCHANGED <<ui, offers, selectedIdx>> /\ fileOffers \subseteq fileOffers'
    BY <1>2 DEF ReceiveOffer, ReceiveChunk, WriteFails, Arrives, LoopStep, LockProgress,
                SendProgress, LoopEnds, CommandStep, WaiterTakes, WaiterEnds, OfferWaiterTakes, modelVars, vars
  <2> QED
    BY <1>1, <2>1, CursorOfOthers
<1>3. ListOutdated' \/ ListUpToDate'
  BY <1>1, <1>2, CursorOfMessages, CursorOfList, CursorOfCommands, CursorOfAnswers, CursorOfKeys
     DEF Next, UiStep, MessageStep, Answer
<1> QED
  BY <1>1, <1>3 DEF CursorInv

\* Between two messages the cursor is never more than one row below the list,
\* whatever comes in or fails: Selectable is all the keys need to ask.
THEOREM CursorNearList == AppSafety => [](ui.at = "idle" => selectedIdx <= Len(offers) + 1)
<1>1. CursorInv => (ui.at = "idle" => selectedIdx <= Len(offers) + 1)
  BY DEF CursorInv, ListOutdated, ListUpToDate, CursorFits
<1> QED
  BY CursorInit, CursorStep, AppRunsSession, <1>1, PTL DEF Safety

\* It is on a row, or the first of an empty list, if no answer fails, although the
\* list is replaced behind it by what the map has then, in any order.
THEOREM CursorInList == AppSafety => [](~AnswerMayFail => CursorInRange)
<1>1. CursorInv => (~AnswerMayFail => CursorInRange)
  <2> SUFFICES ASSUME CursorInv, ~AnswerMayFail, ui.at = "idle"
               PROVE  selectedIdx <= Len(offers) \/ (offers = <<>> /\ selectedIdx = 1)
    BY DEF CursorInRange
  <2>1. CursorFits(selectedIdx, Len(offers))
    BY DEF CursorInv, ListOutdated, ListUpToDate
  <2>2. Len(offers) = 0 => offers = <<>>
    BY UiParts, EmptySeq DEF CursorInv
  <2> QED
    BY <2>1, <2>2 DEF CursorFits
<1> QED
  BY CursorInit, CursorStep, AppRunsSession, <1>1, PTL DEF Safety

------------------------------------------------------------------------------
(* Progress                                                                *)

\* The updates that are not shown yet, in the order in which they will be: in the
\* command's hands, in progressCh, in readLoop's.
ToShow == waiter.has \o progressCh \o loop.send

\* The offers that are shown to have ended.
Shown == {o \in Offers : transfers[o] \in Ends}

\* An end as it was, progress only of a file that has chunks.
Truthful(u, how) == IF u.state \in Ends THEN u.state = how[u.of] ELSE SizeOf[u.of] > 0

\* A queue of truthful updates in which the end of a transfer is the last of it,
\* and in which there is no progress of what is shown to have ended.
InTurn(q, how, shown) ==
  /\ \A o \in shown : how[o] \in Ends
  /\ \A i \in 1..Len(q) : Truthful(q[i], how)
  /\ \A i \in 1..Len(q) : q[i].of \in shown => q[i].state \in Ends
  /\ \A i, j \in 1..Len(q) :
       i < j /\ q[i].state \in Ends /\ q[j].of = q[i].of => q[j].state \in Ends

\* Who has nothing to hand on holds nothing; the command that waits for progress
\* is started again when none is waiting; and the event loop finishes only an empty
\* file.
EmptyHands ==
  /\ loop.at \in {"read", "ended"} => loop.send = <<>>
  /\ waiter.has = <<>> \/ (waiter.at = "msg" /\ Len(waiter.has) = 1)
  /\ "rearm" \in {ui.at, ui.next} => waiter.at = "off"
  /\ ui.at \in {"finish", "send"} => SizeOf[ui.of[1]] = 0

\* What has arrived of each, and what is shown of what has ended.
Counts ==
  \A o \in Offers :
    /\ arrived[o] <= SizeOf[o]
    /\ result[o] = "Completed" => arrived[o] = SizeOf[o]
    /\ o \in Shown => transfers[o] = result[o]

\* An offer is answered once, and what has ended was accepted.
Fresh ==
  /\ accepted \cap fileOffers = {}
  /\ \A o \in Offers : result[o] # "none" => o \in accepted

FreshInv == CursorInv /\ Fresh

ShownInv == UiTypes /\ EmptyHands /\ Counts /\ InTurn(ToShow, result, Shown)

LEMMA FreshAnswer ==
  ASSUME FreshInv, ui.at \in {"accept", "reject"}
  PROVE  ui.of[1] \in fileOffers /\ result[ui.of[1]] = "none"
<1>1. /\ UiTypes /\ Rows \subseteq fileOffers
      /\ selectedIdx \in 1..Len(offers) /\ ui.of[1] = offers[selectedIdx]
  BY DEF FreshInv, CursorInv, ListOutdated, ListUpToDate
<1>2. ui.of[1] \in fileOffers /\ fileOffers \subseteq Offers
  BY <1>1, UiParts
<1> QED
  BY <1>2 DEF FreshInv, Fresh

LEMMA FreshStep == FreshInv /\ [Next]_vars => FreshInv'
<1> SUFFICES ASSUME FreshInv, [Next]_vars
             PROVE  FreshInv'
  OBVIOUS
<1>1. CursorInv'
  BY CursorStep DEF FreshInv
<1>2. Fresh /\ accepted \subseteq offered /\ result \in [Offers -> {"none"} \cup Ends]
  BY DEF FreshInv, CursorInv, UiTypes, TypeOK
<1>3. ASSUME NEW o \in Offers, ReceiveOffer(o)
      PROVE  Fresh'
  <2>1. o \notin offered /\ fileOffers' = fileOffers \cup {o} /\ UNCHANGED <<accepted, result>>
    BY <1>3 DEF ReceiveOffer
  <2> QED
    BY <1>2, <2>1 DEF Fresh
<1>4. ASSUME NEW o \in Offers, ReceiveChunk(o) \/ WriteFails(o)
      PROVE  Fresh'
  <2>1. o \in accepted /\ UNCHANGED <<accepted, fileOffers>>
    BY <1>4 DEF ReceiveChunk, WriteFails, Arrives
  <2>2. result' = result \/ \E s \in Ends : result' = [result EXCEPT ![o] = s]
    BY <1>4 DEF ReceiveChunk, WriteFails, Outcomes, Ends
  <2> QED
    BY <1>2, <2>1, <2>2 DEF Fresh
<1>5. ASSUME AcceptOffer
      PROVE  Fresh'
  <2> DEFINE o == ui.of[1]
  <2>1. /\ fileOffers' = fileOffers \ {o} /\ accepted' = accepted \cup {o}
        /\ result' = result \/ \E s \in Outcomes : result' = [result EXCEPT ![o] = s]
    BY <1>5 DEF AcceptOffer
  <2> HIDE DEF o
  <2> QED
    BY <1>2, <2>1 DEF Fresh
<1>6. ASSUME AnswerError \/ RejectOffer
      PROVE  Fresh'
  BY <1>2, <1>6 DEF AnswerError, RejectOffer, Fresh
<1>7. ASSUME \/ LoopStep \/ LoopEnds \/ CommandStep \/ UNCHANGED vars
             \/ OnProgress \/ OnOffer \/ PendingOffers \/ WaitForOffer \/ Rearm \/ LockFinish
             \/ SendFinish \/ MoveKey \/ AnswerKey \/ OtherMsg
      PROVE  Fresh'
  <2>1. UNCHANGED <<accepted, fileOffers, result>>
    BY <1>7 DEF LoopStep, LockProgress, SendProgress, LoopEnds, CommandStep, WaiterTakes,
         WaiterEnds, OfferWaiterTakes, OnProgress, OnOffer, PendingOffers, WaitForOffer,
         Rearm, LockFinish, SendFinish, MoveKey, AnswerKey, OtherMsg, vars
  <2> QED
    BY <1>2, <2>1 DEF Fresh
<1> QED
  BY <1>1, <1>3, <1>4, <1>5, <1>6, <1>7
     DEF FreshInv, Next, UiStep, MessageStep, Answer

\* What has ended stays so.
LEMMA InTurnMore ==
  ASSUME NEW q \in Seq(Updates), NEW how, NEW more, NEW shown, shown \subseteq Offers,
         InTurn(q, how, shown), \A o \in Offers : how[o] \in Ends => more[o] = how[o]
  PROVE  InTurn(q, more, shown)
<1>1. ASSUME NEW i \in 1..Len(q)
      PROVE  Truthful(q[i], more)
  <2> DEFINE u == q[i]
  <2>1. u \in Updates
    OBVIOUS
  <2>2. u.of \in Offers
    BY <2>1 DEF Updates
  <2>3. Truthful(u, how)
    BY DEF InTurn
  <2> HIDE DEF u
  <2>4. Truthful(u, more)
    BY <2>2, <2>3 DEF Truthful
  <2> QED
    BY <2>4 DEF u
<1> QED
  BY <1>1 DEF InTurn

\* An update at the end: an end that is true, or progress of what has not ended.
LEMMA InTurnAppend ==
  ASSUME NEW q \in Seq(Updates), NEW u \in Updates, NEW how, NEW shown,
         InTurn(q, how, shown), Truthful(u, how),
         u.state \in Ends
           \/ (u.of \notin shown
               /\ \A i \in 1..Len(q) : q[i].of = u.of => q[i].state \notin Ends)
  PROVE  Append(q, u) \in Seq(Updates) /\ InTurn(Append(q, u), how, shown)
<1> DEFINE n == Len(q)
           r == Append(q, u)
<1>1. /\ n \in Nat /\ r \in Seq(Updates) /\ Len(r) = n + 1 /\ r[n + 1] = u
      /\ \A i \in 1..n : r[i] = q[i]
  BY AppendProperties
<1>2. \A i \in 1..Len(r) : (i \in 1..n /\ r[i] = q[i]) \/ (i = n + 1 /\ r[i] = u)
  <2> HIDE DEF n, r
  <2> QED
    BY <1>1
<1>3. /\ \A o \in shown : how[o] \in Ends
      /\ \A i \in 1..n : Truthful(q[i], how)
      /\ \A i \in 1..n : q[i].of \in shown => q[i].state \in Ends
      /\ \A i, j \in 1..n :
           i < j /\ q[i].state \in Ends /\ q[j].of = q[i].of => q[j].state \in Ends
  BY DEF InTurn
<1>4. \/ u.state \in Ends
      \/ u.of \notin shown /\ \A i \in 1..n : q[i].of = u.of => q[i].state \notin Ends
  OBVIOUS
<1>5. \A i \in 1..Len(r) : Truthful(r[i], how)
  <2> HIDE DEF n, r
  <2> QED
    BY <1>2, <1>3
<1>6. \A i \in 1..Len(r) : r[i].of \in shown => r[i].state \in Ends
  <2> HIDE DEF n, r
  <2> QED
    BY <1>2, <1>3, <1>4
<1>7. ASSUME NEW i \in 1..Len(r), NEW j \in 1..Len(r), i < j,
             r[i].state \in Ends, r[j].of = r[i].of
      PROVE  r[j].state \in Ends
  <2> HIDE DEF n, r
  <2>1. i \in 1..n /\ r[i] = q[i]
    BY <1>1, <1>2, <1>7
  <2>2. CASE j \in 1..n /\ r[j] = q[j]
    BY <1>3, <1>7, <2>1, <2>2
  <2>3. CASE j = n + 1 /\ r[j] = u
    BY <1>4, <1>7, <2>1, <2>3
  <2> QED
    BY <1>2, <2>2, <2>3
<1>8. InTurn(r, how, shown)
  BY <1>3, <1>5, <1>6, <1>7 DEF InTurn
<1> QED
  BY <1>1, <1>8

\* The end of an empty file, wherever it comes between the others.
LEMMA InTurnInsert ==
  ASSUME NEW a \in Seq(Updates), NEW b \in Seq(Updates), NEW u \in Updates,
         NEW how, NEW shown,
         InTurn(a \o b, how, shown),
         u.state \in Ends, u.state = how[u.of], SizeOf[u.of] = 0
  PROVE  InTurn(Append(a, u) \o b, how, shown)
<1> DEFINE n == Len(a)
           m == Len(b)
           q == a \o b
           p == Append(a, u)
           r == p \o b
<1>1. /\ n \in Nat /\ m \in Nat /\ p \in Seq(Updates) /\ Len(p) = n + 1 /\ p[n + 1] = u
      /\ \A i \in 1..n : p[i] = a[i]
  BY AppendProperties
<1>2. /\ q \in Seq(Updates) /\ Len(q) = n + m
      /\ \A i \in 1..n : q[i] = a[i]
      /\ \A i \in 1..m : q[n + i] = b[i]
  BY ConcatProperties
<1>3. /\ Len(r) = (n + 1) + m
      /\ \A i \in 1..(n + 1) : r[i] = p[i]
      /\ \A i \in 1..m : r[(n + 1) + i] = b[i]
  <2>1. Len(p) = n + 1
    BY <1>1
  <2>0. p \in Seq(Updates)
    BY <1>1
  <2> HIDE DEF n, m, p, q, r
  <2>2. /\ Len(p \o b) = Len(p) + Len(b)
        /\ \A i \in 1..Len(p) : (p \o b)[i] = p[i]
        /\ \A i \in 1..Len(b) : (p \o b)[Len(p) + i] = b[i]
    BY <2>0, ConcatProperties
  <2> QED
    BY <2>1, <2>2 DEF m, r
<1>4. InTurn(q, how, shown)
  OBVIOUS
<1> HIDE DEF n, m, p, q, r
\* Every place of the longer queue is that of u or has one in the shorter queue.
<1>5. ASSUME NEW i \in 1..Len(r)
      PROVE  \/ i = n + 1 /\ r[i] = u
             \/ i < n + 1 /\ i \in 1..Len(q) /\ r[i] = q[i]
             \/ i > n + 1 /\ i - 1 \in 1..Len(q) /\ r[i] = q[i - 1]
  <2>1. CASE i <= n
    BY <1>1, <1>2, <1>3, <2>1, SMTT(30)
  <2>2. CASE i = n + 1
    BY <1>1, <1>3, <2>2
  <2>3. CASE i > n + 1
    <3>1. i - (n + 1) \in 1..m
      BY <1>1, <1>3, <2>3
    <3>2. r[(n + 1) + (i - (n + 1))] = b[i - (n + 1)]
      BY <1>3, <3>1
    <3>3. q[n + (i - (n + 1))] = b[i - (n + 1)]
      BY <1>2, <3>1
    <3>4. /\ (n + 1) + (i - (n + 1)) = i /\ n + (i - (n + 1)) = i - 1
          /\ i - 1 \in 1..Len(q)
      BY <1>1, <1>2, <1>3, <2>3
    <3> QED
      BY <2>3, <3>2, <3>3, <3>4
  <2> QED
    BY <1>1, <1>3, <2>1, <2>2, <2>3
<1>6. /\ \A o \in shown : how[o] \in Ends
      /\ \A i \in 1..Len(q) : Truthful(q[i], how)
      /\ \A i \in 1..Len(q) : q[i].of \in shown => q[i].state \in Ends
      /\ \A i, j \in 1..Len(q) :
           i < j /\ q[i].state \in Ends /\ q[j].of = q[i].of => q[j].state \in Ends
  BY <1>4 DEF InTurn
<1>7. Truthful(u, how)
  BY DEF Truthful
<1>8. \A i \in 1..Len(r) : Truthful(r[i], how)
  BY <1>5, <1>6, <1>7
<1>9. \A i \in 1..Len(r) : r[i].of \in shown => r[i].state \in Ends
  BY <1>5, <1>6, SMTT(30)
<1>10. ASSUME NEW i \in 1..Len(r), NEW j \in 1..Len(r), i < j,
              r[i].state \in Ends, r[j].of = r[i].of
       PROVE  r[j].state \in Ends
  <2>1. CASE i = n + 1
    <3>1. SizeOf[r[j].of] = 0 /\ Truthful(r[j], how)
      BY <1>5, <1>8, <1>10, <2>1
    <3> QED
      BY <3>1 DEF Truthful
  <2>2. CASE j = n + 1
    <3>1. r[j] = u
      BY <1>5, <2>2
    <3> QED
      BY <3>1
  <2>3. CASE i # n + 1 /\ j # n + 1
    <3>0. ASSUME NEW x \in 1..Len(r), x # n + 1
          PROVE  \E k \in 1..Len(q) :
                   /\ r[x] = q[k]
                   /\ (k = x /\ x < n + 1) \/ (k = x - 1 /\ x > n + 1)
      <4>1. CASE x < n + 1 /\ x \in 1..Len(q) /\ r[x] = q[x]
        BY <4>1
      <4>2. CASE x > n + 1 /\ x - 1 \in 1..Len(q) /\ r[x] = q[x - 1]
        BY <4>2
      <4> QED
        BY <1>5, <3>0, <4>1, <4>2
    <3>1. PICK k \in 1..Len(q) :
            r[i] = q[k] /\ ((k = i /\ i < n + 1) \/ (k = i - 1 /\ i > n + 1))
      BY <2>3, <3>0
    <3>2. PICK l \in 1..Len(q) :
            r[j] = q[l] /\ ((l = j /\ j < n + 1) \/ (l = j - 1 /\ j > n + 1))
      BY <2>3, <3>0
    <3>3. k < l
      BY <1>1, <1>10, <3>1, <3>2
    <3> QED
      BY <1>6, <1>10, <3>1, <3>2, <3>3
  <2> QED
    BY <2>1, <2>2, <2>3
<1>11. InTurn(r, how, shown)
  BY <1>6, <1>8, <1>9, <1>10 DEF InTurn
<1> QED
  BY <1>11 DEF r, p

\* The first of them is shown.
LEMMA InTurnShow ==
  ASSUME NEW q \in Seq(Updates), NEW u \in Updates, NEW how, NEW shown, NEW next,
         InTurn(<<u>> \o q, how, shown),
         u.state \in Ends => next = shown \cup {u.of},
         u.state \notin Ends => next = shown \ {u.of}
  PROVE  InTurn(q, how, next) /\ shown \subseteq next
<1> DEFINE n == Len(q)
           r == <<u>> \o q
<1>1. n \in Nat /\ Len(r) = 1 + n /\ r[1] = u /\ \A i \in 1..n : r[1 + i] = q[i]
  <2>1. <<u>> \in Seq(Updates) /\ Len(<<u>>) = 1 /\ <<u>>[1] = u
    OBVIOUS
  <2>2. /\ Len(r) = Len(<<u>>) + n
        /\ \A i \in 1..Len(<<u>>) : r[i] = <<u>>[i]
        /\ \A i \in 1..n : r[Len(<<u>>) + i] = q[i]
    BY <2>1, ConcatProperties
  <2> QED
    BY <2>1, <2>2
<1>2. InTurn(r, how, shown)
  OBVIOUS
<1> HIDE DEF n, r
<1>3. /\ \A o \in shown : how[o] \in Ends
      /\ \A i \in 1..(1 + n) : Truthful(r[i], how)
      /\ \A i \in 1..(1 + n) : r[i].of \in shown => r[i].state \in Ends
      /\ \A i, j \in 1..(1 + n) :
           i < j /\ r[i].state \in Ends /\ r[j].of = r[i].of => r[j].state \in Ends
  BY <1>1, <1>2 DEF InTurn
<1>4. 1 \in 1..(1 + n) /\ \A i \in 1..n : 1 + i \in 1..(1 + n) /\ 1 < 1 + i
  BY <1>1
<1>5. Truthful(u, how) /\ (u.of \in shown => u.state \in Ends)
  BY <1>1, <1>3, <1>4
<1>6. \A i \in 1..n : Truthful(q[i], how)
  BY <1>1, <1>3, <1>4
<1>7. \A i \in 1..n : q[i].of \in shown => q[i].state \in Ends
  BY <1>1, <1>3, <1>4
<1>8. u.state \in Ends => \A i \in 1..n : q[i].of = u.of => q[i].state \in Ends
  BY <1>1, <1>3, <1>4
<1>9. ASSUME NEW i \in 1..n, NEW j \in 1..n, i < j,
             q[i].state \in Ends, q[j].of = q[i].of
      PROVE  q[j].state \in Ends
  <2>1. r[1 + i] = q[i] /\ r[1 + j] = q[j] /\ 1 + i < 1 + j
    BY <1>1, <1>9
  <2> QED
    BY <1>3, <1>4, <1>9, <2>1
<1>10. (\A o \in next : how[o] \in Ends) /\ shown \subseteq next
  BY <1>3, <1>5 DEF Truthful
<1>11. \A i \in 1..n : q[i].of \in next => q[i].state \in Ends
  BY <1>7, <1>8
<1>12. InTurn(q, how, next)
  BY <1>6, <1>9, <1>10, <1>11 DEF InTurn, n
<1> QED
  BY <1>10, <1>12

\* How the three parts of the queue may be put together.
Join(x, y) == x \o y

LEMMA QueueAssociative ==
  \A x, y, z \in Seq(Updates) : Join(Join(x, y), z) = Join(x, Join(y, z))
<1>1. \A x, y, z \in Seq(Updates) : (x \o y) \o z = x \o (y \o z)
  BY ConcatAssociative
<1> QED
  BY <1>1 DEF Join

LEMMA QueueEmpty == \A x \in Seq(Updates) : x \o <<>> = x /\ <<>> \o x = x
  BY ConcatEmptySeq

LEMMA QueueType == \A x, y \in Seq(Updates) : x \o y \in Seq(Updates)
  BY ConcatProperties

LEMMA QueueAppend ==
  \A x \in Seq(Updates), u \in Updates :
    Append(x, u) = x \o <<u>> /\ Append(x, u) \in Seq(Updates) /\ <<u>> \in Seq(Updates)
  BY AppendIsConcat, AppendProperties

LEMMA QueueHead ==
  \A x \in Seq(Updates) : x # <<>> =>
    /\ Head(x) \in Updates /\ Tail(x) \in Seq(Updates) /\ x = <<Head(x)>> \o Tail(x)
<1> SUFFICES ASSUME NEW x \in Seq(Updates), x # <<>>
             PROVE  Head(x) \in Updates /\ Tail(x) \in Seq(Updates) /\ x = <<Head(x)>> \o Tail(x)
  OBVIOUS
<1>1. Head(x) \in Updates /\ Tail(x) \in Seq(Updates)
  BY HeadTailProperties
<1>2. x = <<Head(x)>> \o Tail(x)
  OBVIOUS
<1> QED
  BY <1>1, <1>2

\* Two more at the end.
LEMMA QueueAppendTwo ==
  ASSUME NEW q \in Seq(Updates), NEW u \in Updates, NEW v \in Updates
  PROVE  Append(Append(q, u), v) = q \o <<u, v>>
<1>1. /\ Append(Append(q, u), v) = (q \o <<u>>) \o <<v>>
      /\ <<u>> \in Seq(Updates) /\ <<v>> \in Seq(Updates)
  <2>1. Append(q, u) = q \o <<u>> /\ Append(q, u) \in Seq(Updates)
    BY QueueAppend
  <2> QED
    BY <2>1, QueueAppend
<1>2. (q \o <<u>>) \o <<v>> = q \o (<<u>> \o <<v>>)
  <2> DEFINE x == <<u>>
             y == <<v>>
  <2>1. q \in Seq(Updates) /\ x \in Seq(Updates) /\ y \in Seq(Updates)
    BY <1>1
  <2> HIDE DEF x, y
  <2>2. Join(Join(q, x), y) = Join(q, Join(x, y))
    BY <2>1, QueueAssociative, SMT
  <2> QED
    BY <2>2 DEF Join, x, y
<1>3. <<u>> \o <<v>> = <<u, v>>
  <2> DEFINE w == <<u, v>>
  <2>1. w \in Seq(Updates) /\ w # <<>> /\ Head(w) = u /\ Len(w) = 2 /\ w[2] = v
    OBVIOUS
  <2>2. /\ w = <<Head(w)>> \o Tail(w) /\ Tail(w) \in Seq(Updates)
        /\ Len(Tail(w)) = Len(w) - 1 /\ \A i \in 1..Len(Tail(w)) : Tail(w)[i] = w[i + 1]
    <3> HIDE DEF w
    <3> QED
      BY <2>1, QueueHead, HeadTailProperties
  <2> HIDE DEF w
  <2> DEFINE t == Tail(w)
  <2>3. t \in Seq(Updates) /\ Len(t) = 1 /\ t[1] = v
    BY <2>1, <2>2
  <2> HIDE DEF t
  <2>4. t = <<v>>
    BY <2>3
  <2> QED
    BY <2>1, <2>2, <2>4 DEF t, w
<1> QED
  BY <1>1, <1>2, <1>3

\* One of two adjoining queues hands an update on to the other.
LEMMA QueueHandsOn ==
  \A x, y, z \in Seq(Updates) : z # <<>> =>
    (x \o Append(y, Head(z))) \o Tail(z) = (x \o y) \o z
<1> SUFFICES ASSUME NEW x \in Seq(Updates), NEW y \in Seq(Updates), NEW z \in Seq(Updates),
                    z # <<>>
             PROVE  (x \o Append(y, Head(z))) \o Tail(z) = (x \o y) \o z
  OBVIOUS
<1> DEFINE h == Head(z)
           t == Tail(z)
<1>1. h \in Updates /\ t \in Seq(Updates) /\ z = <<h>> \o t
  BY QueueHead
<1> HIDE DEF h, t
<1>2. Append(y, h) = y \o <<h>> /\ <<h>> \in Seq(Updates)
  BY <1>1, QueueAppend
<1>3. x \o (y \o <<h>>) = (x \o y) \o <<h>> /\ x \o y \in Seq(Updates)
  <2> DEFINE w == <<h>>
  <2> HIDE DEF w
  <2>1. w \in Seq(Updates)
    BY <1>2 DEF w
  <2>2. x \o (y \o w) = (x \o y) \o w
    <3>1. Join(Join(x, y), w) = Join(x, Join(y, w))
      BY <2>1, QueueAssociative, SMT
    <3> QED
      BY <3>1 DEF Join
  <2>3. x \o y \in Seq(Updates)
    BY QueueType, Zenon
  <2> QED
    BY <2>2, <2>3, Zenon DEF w
<1> DEFINE w == <<h>>
<1> HIDE DEF w
<1>4. ((x \o y) \o w) \o t = (x \o y) \o (w \o t)
  <2> DEFINE q == x \o y
  <2>1. q \in Seq(Updates) /\ w \in Seq(Updates) /\ t \in Seq(Updates)
    BY <1>1, <1>2, <1>3 DEF w
  <2> HIDE DEF q
  <2>2. (q \o w) \o t = q \o (w \o t)
    <3>1. Join(Join(q, w), t) = Join(q, Join(w, t))
      BY <2>1, QueueAssociative, SMT
    <3> QED
      BY <3>1 DEF Join
  <2> QED
    BY <2>2, Zenon DEF q
<1>5. (x \o Append(y, h)) \o t = (x \o y) \o z
  <2>1. x \o Append(y, h) = (x \o y) \o w /\ z = w \o t
    BY <1>1, <1>2, <1>3, Zenon DEF w
  <2> QED
    BY <1>4, <2>1, Zenon
<1> QED
  BY <1>5 DEF h, t

\* The parts of the queue by their types.
LEMMA QueueParts ==
  ASSUME UiTypes
  PROVE  /\ waiter.has \in Seq(Updates) /\ progressCh \in Seq(Updates)
         /\ loop.send \in Seq(Updates) /\ ToShow \in Seq(Updates)
<1>1. /\ waiter.has \in Seq(Updates) /\ progressCh \in Seq(Updates)
      /\ loop.send \in Seq(Updates)
  BY DEF UiTypes, TypeOK
<1> QED
  BY <1>1, QueueType, Zenon DEF ToShow

LEMMA ShownInit == Init => ShownInv
<1> SUFFICES ASSUME Init
             PROVE  ShownInv
  OBVIOUS
<1>1. UiTypes
  BY UiTypesInit
<1>2. /\ waiter = [at |-> "recv", has |-> <<>>] /\ progressCh = <<>>
      /\ loop = [at |-> "read", send |-> <<>>]
      /\ ui = [at |-> "idle", next |-> "idle", of |-> <<>>]
  BY DEF Init
<1>3. \A o \in Offers : /\ arrived[o] = 0 /\ SizeOf[o] \in Nat
                        /\ transfers[o] = "none" /\ result[o] = "none"
  BY DEF Init
<1>4. EmptyHands
  BY <1>2 DEF EmptyHands
<1>5. ToShow = <<>> /\ Shown = {} /\ Counts
  BY <1>2, <1>3 DEF ToShow, Shown, Ends, Counts
<1>6. InTurn(ToShow, result, Shown)
  <2>1. Len(ToShow) = 0
    BY <1>5
  <2> QED
    BY <1>5, <2>1 DEF InTurn
<1> QED
  BY <1>1, <1>4, <1>5, <1>6 DEF ShownInv

\* An end stays one; only an empty file ends without a chunk.
EndsStay ==
  \A o \in Offers :
    /\ result[o] # "none" => result'[o] = result[o]
    /\ result'[o] # result[o] => SizeOf[o] = 0

\* A step that neither brings nor shows an update: what has ended and has arrived
\* stays so, and the queue is what it was.
LEMMA ShownOfOthers ==
  ASSUME ShownInv, UiTypes', EmptyHands',
         arrived' = arrived, EndsStay, transfers' = transfers, ToShow' = ToShow
  PROVE  ShownInv'
<1>1. Shown' = Shown /\ Shown \subseteq Offers
  BY DEF Shown
<1>2. ToShow \in Seq(Updates) /\ InTurn(ToShow, result, Shown)
  BY QueueParts DEF ShownInv
<1>3. \A o \in Offers : result[o] \in Ends => result'[o] = result[o]
  BY DEF EndsStay, Ends
<1>4. InTurn(ToShow', result', Shown')
  <2> DEFINE more == result'
  <2>1. \A o \in Offers : result[o] \in Ends => more[o] = result[o]
    BY <1>3
  <2> HIDE DEF more
  <2>2. InTurn(ToShow, more, Shown)
    BY <1>1, <1>2, <2>1, InTurnMore
  <2> QED
    BY <1>1, <2>2 DEF more
<1>5. Counts'
  <2>1. \A o \in Offers : arrived[o] \in Nat /\ arrived[o] <= SizeOf[o] /\ SizeOf[o] \in Nat
    BY DEF ShownInv, Counts, UiTypes, TypeOK
  <2>2. \A o \in Shown : result[o] \in Ends
    BY <1>2 DEF InTurn
  <2> QED
    BY <1>1, <1>3, <2>1, <2>2 DEF ShownInv, Counts, EndsStay
<1> QED
  BY <1>4, <1>5 DEF ShownInv, InTurn, Truthful

\* The steps at which nobody's hands change.
LEMMA ShownOfStill ==
  ASSUME ShownInv, UiTypes',
         arrived' = arrived, EndsStay, transfers' = transfers,
         progressCh' = progressCh, loop'.send = loop.send, waiter'.has = waiter.has,
         loop'.at \in {"read", "ended"} => loop.at = "read" \/ loop' = loop,
         waiter' = waiter \/ waiter.at # "msg",
         "rearm" \in {ui'.at, ui'.next} => waiter'.at = "off",
         ui'.at \in {"finish", "send"} => SizeOf[ui'.of[1]] = 0
  PROVE  ShownInv'
<1>1. ToShow' = ToShow
  BY DEF ToShow
<1>2. EmptyHands'
  BY DEF ShownInv, EmptyHands
<1> QED
  BY <1>1, <1>2, ShownOfOthers

LEMMA ShownOfLoop ==
  ASSUME ShownInv, UiTypes',
         (\E o \in Offers : ReceiveOffer(o)) \/ LockProgress \/ LoopEnds \/ WaiterEnds
           \/ OfferWaiterTakes
  PROVE  ShownInv'
<1>1. /\ arrived' = arrived /\ result' = result /\ transfers' = transfers
      /\ progressCh' = progressCh /\ ui' = ui
  BY DEF ReceiveOffer, LockProgress, LoopEnds, WaiterEnds, OfferWaiterTakes,
         chanVars, loopVars, modelVars, cmdVars
<1>2. EndsStay
  BY <1>1 DEF EndsStay
<1>3. /\ loop.at \in {"read", "progress", "send", "ended"}
      /\ loop'.send = loop.send
      /\ loop'.at \in {"read", "ended"} => loop.at = "read" \/ loop' = loop
  BY SMTT(30) DEF ShownInv, UiTypes, TypeOK, ReceiveOffer, LockProgress, LoopEnds, WaiterEnds,
         OfferWaiterTakes, loopVars
<1>4. waiter'.has = waiter.has /\ (waiter' = waiter \/ waiter.at # "msg")
  BY DEF ShownInv, UiTypes, TypeOK, ReceiveOffer, LockProgress, LoopEnds, WaiterEnds,
         OfferWaiterTakes, cmdVars
<1>5. ui'.at \in {"finish", "send"} => SizeOf[ui'.of[1]] = 0
  BY <1>1 DEF ShownInv, EmptyHands
<1>6. "rearm" \in {ui'.at, ui'.next} => waiter'.at = "off"
  <2>1. "rearm" \in {ui.at, ui.next} => waiter.at = "off"
    BY DEF ShownInv, EmptyHands
  <2>2. waiter' = waiter \/ waiter.at = "recv"
    BY DEF ReceiveOffer, LockProgress, LoopEnds, WaiterEnds, OfferWaiterTakes, cmdVars
  <2> QED
    BY <1>1, <2>1, <2>2
<1> QED
  BY <1>1, <1>2, <1>3, <1>4, <1>5, <1>6, ShownOfStill

LEMMA ShownOfUi ==
  ASSUME ShownInv, FreshInv, UiTypes',
         OnOffer \/ PendingOffers \/ WaitForOffer \/ Rearm \/ MoveKey \/ AnswerKey \/ OtherMsg
           \/ AcceptOffer \/ AnswerError \/ LockFinish \/ RejectOffer
  PROVE  ShownInv'
<1>1. /\ arrived' = arrived /\ transfers' = transfers
      /\ progressCh' = progressCh /\ loop' = loop
  BY DEF OnOffer, PendingOffers, WaitForOffer, Rearm, MoveKey, AnswerKey, OtherMsg,
         AcceptOffer, AnswerError, LockFinish, RejectOffer,
         chanVars, loopVars, modelVars, cmdVars
<1>0. /\ "rearm" \in {ui.at, ui.next} => waiter.at = "off"
      /\ waiter \in [at : {"recv", "msg", "off", "nil", "ended"}, has : Seq(Updates)]
      /\ ui \in [at : UiPC, next : {"idle", "rearm", "wait"}, of : Seq(Offers)]
  BY DEF ShownInv, EmptyHands, UiTypes, TypeOK
<1>3. waiter'.has = waiter.has /\ (waiter' = waiter \/ waiter.at # "msg")
  <2>1. CASE Rearm
    <3>1. ui.at = "rearm" /\ waiter' = [waiter EXCEPT !.at = IF dropped THEN "nil" ELSE "recv"]
      BY <2>1 DEF Rearm
    <3> QED
      BY <1>0, <3>1
  <2>2. CASE ~Rearm
    BY <2>2 DEF OnOffer, PendingOffers, WaitForOffer, MoveKey, AnswerKey, OtherMsg,
         AcceptOffer, AnswerError, LockFinish, RejectOffer, cmdVars
  <2> QED
    BY <2>1, <2>2
<1>2. EndsStay
  <2>1. CASE AcceptOffer
    <3> DEFINE o == ui.of[1]
    <3>1. result \in [Offers -> {"none"} \cup Ends] /\ result[o] = "none"
      BY <2>1, FreshAnswer DEF AcceptOffer, ShownInv, UiTypes, TypeOK
    <3>2. \/ result' = result
          \/ SizeOf[o] = 0 /\ \E s \in Outcomes : result' = [result EXCEPT ![o] = s]
      BY <2>1 DEF AcceptOffer
    <3> HIDE DEF o
    <3> QED
      BY <3>1, <3>2 DEF EndsStay
  <2>2. CASE ~AcceptOffer
    BY <2>2 DEF OnOffer, PendingOffers, WaitForOffer, Rearm, MoveKey, AnswerKey, OtherMsg,
         AnswerError, LockFinish, RejectOffer, EndsStay
  <2> QED
    BY <2>1, <2>2
<1>4. ui'.at \in {"finish", "send"} => SizeOf[ui'.of[1]] = 0
  <2>1. CASE AcceptOffer
    <3>1. \/ SizeOf[ui.of[1]] = 0 /\ ui' = [ui EXCEPT !.at = "finish"]
          \/ ui'.at = "pending"
      BY <2>1 DEF AcceptOffer, Go
    <3> QED
      BY <1>0, <3>1
  <2>2. CASE LockFinish
    <3>1. ui.at = "finish" /\ (ui'.at = "pending" \/ ui'.of = ui.of)
      BY <1>0, <2>2 DEF LockFinish, Go
    <3> QED
      BY <3>1 DEF ShownInv, EmptyHands
  <2>3. CASE OnOffer \/ PendingOffers \/ WaitForOffer \/ Rearm \/ MoveKey \/ OtherMsg
               \/ AnswerError \/ RejectOffer
    BY <1>0, <2>3 DEF OnOffer, PendingOffers, WaitForOffer, Rearm, MoveKey, OtherMsg,
         AnswerError, RejectOffer, Go
  <2>4. CASE AnswerKey
    BY <2>4 DEF AnswerKey
  <2> QED
    BY <2>1, <2>2, <2>3, <2>4
<1>5. "rearm" \in {ui'.at, ui'.next} => waiter'.at = "off"
  <2>1. CASE Rearm
    BY <2>1 DEF Rearm, Go
  <2>2. CASE ~Rearm
    <3>1. /\ waiter' = waiter
          /\ \/ ui'.at \notin {"rearm"} /\ ui'.next \in {"idle", "wait", ui.next}
             \/ ui'.at = ui.next /\ ui'.next = "idle"
      BY <1>0, <2>2 DEF OnOffer, PendingOffers, WaitForOffer, MoveKey, AnswerKey, OtherMsg,
           AcceptOffer, AnswerError, LockFinish, RejectOffer, Go, cmdVars
    <3> QED
      BY <1>0, <3>1
  <2> QED
    BY <2>1, <2>2
<1> QED
  BY <1>1, <1>2, <1>3, <1>4, <1>5, ShownOfStill

\* An update goes from hand to hand.
LEMMA ShownOfHands ==
  ASSUME ShownInv, UiTypes', SendProgress \/ WaiterTakes
  PROVE  ShownInv'
<1>0. /\ waiter.has \in Seq(Updates) /\ progressCh \in Seq(Updates)
      /\ loop.send \in Seq(Updates)
      /\ UiTypes /\ EmptyHands
  BY QueueParts DEF ShownInv
<1>1. /\ arrived' = arrived /\ result' = result /\ transfers' = transfers /\ ui' = ui
  BY DEF SendProgress, WaiterTakes, loopVars, modelVars
<1>2. EndsStay
  BY <1>1 DEF EndsStay
<1>3. CASE SendProgress
  <2>1. /\ loop.send # <<>> /\ waiter' = waiter
        /\ progressCh' = Append(progressCh, Head(loop.send)) /\ loop'.send = Tail(loop.send)
    BY <1>0, <1>3 DEF SendProgress, UiTypes, HasWhatItNeeds, cmdVars
  <2>2. ToShow' = ToShow
    <3>1. ToShow' = (waiter.has \o Append(progressCh, Head(loop.send))) \o Tail(loop.send)
      BY <2>1 DEF ToShow
    <3> QED
      BY <1>0, <2>1, <3>1, QueueHandsOn, Zenon DEF ToShow
  <2>3. loop'.at \in {"read", "ended"} => loop'.send = <<>>
    <3>1. loop'.at = IF Len(loop.send) = 1 THEN "read" ELSE "progress"
      BY <1>3 DEF SendProgress
    <3>2. Len(loop.send) = 1 => Tail(loop.send) = <<>>
      <4> DEFINE rest == Tail(loop.send)
                 n == Len(loop.send)
      <4>1. n \in Nat /\ Len(rest) = n - 1 /\ rest \in Seq(Updates)
        BY <1>0, <2>1, HeadTailProperties
      <4> HIDE DEF rest, n
      <4>2. n = 1 => rest = <<>>
        BY <4>1, EmptySeq
      <4> QED
        BY <4>2 DEF rest, n
    <3> QED
      BY <2>1, <3>1, <3>2
  <2>4. EmptyHands'
    BY <1>0, <1>1, <2>1, <2>3 DEF EmptyHands
  <2> QED
    BY <1>1, <1>2, <2>2, <2>4, ShownOfOthers
<1>4. CASE WaiterTakes
  <2>1. /\ waiter.at = "recv" /\ waiter.has = <<>> /\ progressCh # <<>> /\ loop' = loop
        /\ waiter' = [at |-> "msg", has |-> <<Head(progressCh)>>]
        /\ progressCh' = Tail(progressCh)
    BY <1>0, <1>4 DEF WaiterTakes, EmptyHands, loopVars
  <2>2. ToShow' = ToShow
    <3>1. waiter.has \o progressCh = progressCh
      BY <1>0, <2>1, QueueEmpty, Zenon
    <3>2. waiter'.has \o progressCh' = progressCh
      BY <1>0, <2>1, QueueHead
    <3> QED
      BY <2>1, <3>1, <3>2 DEF ToShow
  <2>3. waiter'.at = "msg" /\ Len(waiter'.has) = 1
    BY <2>1
  <2>4. EmptyHands'
    BY <1>0, <1>1, <2>1, <2>3 DEF EmptyHands
  <2> QED
    BY <1>1, <1>2, <2>2, <2>4, ShownOfOthers
<1> QED
  BY <1>3, <1>4

\* The message of an update: what was shown to have ended is shown so afterwards.
LEMMA ShownOfProgress ==
  ASSUME ShownInv, UiTypes', OnProgress
  PROVE  ShownInv' /\ \A o \in Shown : transfers'[o] = transfers[o]
<1> DEFINE u == waiter.has[1]
           rest == progressCh \o loop.send
<1>0. /\ waiter.has \in Seq(Updates) /\ progressCh \in Seq(Updates)
      /\ loop.send \in Seq(Updates)
      /\ UiTypes /\ EmptyHands /\ waiter.at = "msg"
  BY QueueParts DEF ShownInv, OnProgress
<1>1. /\ arrived' = arrived /\ result' = result /\ progressCh' = progressCh
      /\ loop' = loop /\ waiter' = [at |-> "off", has |-> <<>>]
      /\ ui' = [at |-> "pending", next |-> "rearm", of |-> <<>>]
      /\ transfers' = [transfers EXCEPT ![u.of] = u.state]
  BY DEF OnProgress, Go, chanVars, loopVars
<1>2. waiter.has = <<u>> /\ u \in Updates /\ <<u>> \in Seq(Updates)
  <2>1. Len(waiter.has) = 1
    BY <1>0 DEF UiTypes, HasWhatItNeeds, EmptyHands
  <2> QED
    BY <1>0, <2>1
<1> HIDE DEF u
<1>3. ToShow = <<u>> \o rest /\ rest \in Seq(Updates)
  <2>1. rest \in Seq(Updates)
    BY <1>0, QueueType, Zenon
  <2>2. (<<u>> \o progressCh) \o loop.send = <<u>> \o (progressCh \o loop.send)
    <3> DEFINE w == <<u>>
               q == progressCh
               r == loop.send
    <3>1. w \in Seq(Updates) /\ q \in Seq(Updates) /\ r \in Seq(Updates)
      BY <1>0, <1>2
    <3> HIDE DEF w, q, r
    <3>2. (w \o q) \o r = w \o (q \o r)
      <4>1. Join(Join(w, q), r) = Join(w, Join(q, r))
        BY <3>1, QueueAssociative, SMT
      <4> QED
        BY <4>1 DEF Join
    <3> QED
      BY <3>2, Zenon DEF w, q, r
  <2>3. ToShow = (<<u>> \o progressCh) \o loop.send
    BY <1>2 DEF ToShow
  <2> QED
    BY <2>1, <2>2, <2>3
<1>4. ToShow' = rest
  <2>1. <<>> \o progressCh = progressCh
    BY <1>0, QueueEmpty, Zenon
  <2> QED
    BY <1>1, <2>1 DEF ToShow
<1>5. u.state \in Ends => Shown' = Shown \cup {u.of}
  BY <1>0, <1>1, <1>2 DEF Shown, UiTypes, TypeOK, Updates
<1>6. u.state \notin Ends => Shown' = Shown \ {u.of}
  BY <1>0, <1>1, <1>2 DEF Shown, UiTypes, TypeOK, Updates
<1>7. InTurn(<<u>> \o rest, result, Shown)
  BY <1>3 DEF ShownInv
<1>8. Truthful(u, result) /\ (u.of \in Shown => u.state \in Ends)
  <2>1. <<u>> \in Seq(Updates) /\ Len(<<u>>) = 1 /\ <<u>>[1] = u
    BY <1>2
  <2> DEFINE q == <<u>> \o rest
  <2> HIDE DEF rest
  <2>2. Len(rest) \in Nat /\ Len(q) = 1 + Len(rest) /\ q[1] = u
    BY <1>3, <2>1, ConcatProperties
  <2>3. InTurn(q, result, Shown)
    BY <1>7
  <2> HIDE DEF q
  <2> QED
    BY <2>2, <2>3 DEF InTurn
<1> HIDE DEF rest
<1>9. InTurn(rest, result, Shown') /\ Shown \subseteq Shown'
  BY <1>2, <1>3, <1>5, <1>6, <1>7, InTurnShow
<1>10. EmptyHands'
  <2>1. loop'.at \in {"read", "ended"} => loop'.send = <<>>
    BY <1>0, <1>1 DEF EmptyHands
  <2> QED
    BY <1>1, <2>1 DEF EmptyHands
<1>11. InTurn(ToShow', result', Shown')
  BY <1>1, <1>4, <1>9
<1>12. \A o \in Offers : o \in Shown' => transfers'[o] = result[o]
  <2> SUFFICES ASSUME NEW o \in Shown'
               PROVE  transfers'[o] = result[o]
    OBVIOUS
  <2>1. transfers \in [Offers -> {"none", "InProgress"} \cup Ends] /\ u.of \in Offers
        /\ o \in Offers
    BY <1>0, <1>2 DEF UiTypes, TypeOK, Updates, Shown
  <2>2. CASE o = u.of
    <3>1. transfers'[o] = u.state
      BY <1>1, <2>1, <2>2
    <3>2. u.state \in Ends
      BY <3>1 DEF Shown
    <3> QED
      BY <1>8, <2>2, <3>1, <3>2 DEF Truthful
  <2>3. CASE o # u.of
    <3>1. transfers'[o] = transfers[o]
      BY <1>1, <2>1, <2>3
    <3>2. o \in Shown
      BY <2>1, <3>1 DEF Shown
    <3> QED
      BY <2>1, <3>1, <3>2 DEF ShownInv, Counts
  <2> QED
    BY <2>2, <2>3
<1>13. Counts'
  BY <1>1, <1>12 DEF ShownInv, Counts
<1>14. \A o \in Shown : transfers'[o] = transfers[o]
  <2>1. \A o \in Shown : o \in Offers /\ transfers[o] = result[o]
    BY DEF ShownInv, Counts, Shown
  <2> QED
    BY <1>9, <1>12, <2>1
<1> QED
  BY <1>10, <1>11, <1>13, <1>14 DEF ShownInv, InTurn, Truthful

\* The event loop reports an empty file, between the updates of readLoop.
LEMMA ShownOfFinish ==
  ASSUME ShownInv, UiTypes', SendFinish
  PROVE  ShownInv'
<1> DEFINE u == Update(ui.of[1], result[ui.of[1]])
           q == waiter.has \o progressCh
<1>0. /\ waiter.has \in Seq(Updates) /\ progressCh \in Seq(Updates)
      /\ loop.send \in Seq(Updates)
      /\ UiTypes /\ EmptyHands /\ ui.at = "send"
  BY QueueParts DEF ShownInv, SendFinish
<1>1. /\ arrived' = arrived /\ result' = result /\ transfers' = transfers
      /\ loop' = loop /\ waiter' = waiter
      /\ progressCh' = Append(progressCh, u)
      /\ ui' = [at |-> "pending", next |-> "idle", of |-> <<>>]
  BY DEF SendFinish, Go, loopVars, modelVars, cmdVars
<1>2. Shown' = Shown
  BY <1>1 DEF Shown
<1>3. u \in Updates /\ u.state \in Ends /\ u.state = result[u.of] /\ SizeOf[u.of] = 0
  BY <1>0 DEF Update, Updates, UiTypes, TypeOK, HasWhatItNeeds, EmptyHands
<1> HIDE DEF u
<1>4. q \in Seq(Updates) /\ waiter.has \o Append(progressCh, u) = Append(q, u)
  <2>1. q \in Seq(Updates)
    BY <1>0, QueueType, Zenon
  <2>2. Append(q, u) = q \o <<u>> /\ Append(progressCh, u) = progressCh \o <<u>>
        /\ <<u>> \in Seq(Updates)
    BY <1>0, <1>3, <2>1, QueueAppend
  <2>3. waiter.has \o (progressCh \o <<u>>) = q \o <<u>>
    <3> DEFINE x == waiter.has
               y == <<u>>
    <3>1. x \in Seq(Updates) /\ progressCh \in Seq(Updates) /\ y \in Seq(Updates)
      BY <1>0, <2>2
    <3> HIDE DEF x, y
    <3>2. Join(Join(x, progressCh), y) = Join(x, Join(progressCh, y))
      BY <3>1, QueueAssociative, SMT
    <3> QED
      BY <3>2 DEF Join, x, y
  <2> QED
    BY <2>1, <2>2, <2>3
<1>5. InTurn(q \o loop.send, result, Shown)
  BY DEF ShownInv, ToShow
<1>6. ToShow' = Append(q, u) \o loop.send
  BY <1>1, <1>4 DEF ToShow
<1> HIDE DEF q
<1>7. InTurn(Append(q, u) \o loop.send, result, Shown)
  BY <1>0, <1>3, <1>4, <1>5, InTurnInsert
<1>8. InTurn(ToShow', result', Shown')
  BY <1>1, <1>2, <1>6, <1>7
<1>9. EmptyHands'
  BY <1>0, <1>1 DEF EmptyHands
<1>10. Counts'
  BY <1>1, <1>2 DEF ShownInv, Counts
<1> QED
  BY <1>8, <1>9, <1>10 DEF ShownInv, InTurn, Truthful

\* Progress of a chunk, of a transfer that has not ended: no end of it is in the queue.
LEMMA QueueOfOpen ==
  ASSUME ShownInv, NEW o \in Offers, result[o] = "none", loop.send = <<>>
  PROVE  LET q == waiter.has \o progressCh
         IN  /\ q \in Seq(Updates) /\ InTurn(q, result, Shown)
             /\ o \notin Shown
             /\ \A i \in 1..Len(q) : q[i].of = o => q[i].state \notin Ends
<1> DEFINE q == waiter.has \o progressCh
<1>1. q \in Seq(Updates)
  BY QueueParts, QueueType, Zenon DEF ShownInv
<1>2. q \o <<>> = q
  BY <1>1, QueueEmpty, Zenon
<1>3. InTurn(q, result, Shown)
  BY <1>2 DEF ShownInv, ToShow
<1>4. result[o] \notin Ends
  BY DEF Ends
<1> HIDE DEF q
<1>5. o \notin Shown /\ \A i \in 1..Len(q) : q[i].of = o => q[i].state \notin Ends
  BY <1>3, <1>4 DEF InTurn, Truthful
<1> QED
  BY <1>1, <1>3, <1>5 DEF q

\* A chunk that is written, the last one or not.
LEMMA ShownOfChunk ==
  ASSUME ShownInv, UiTypes', NEW o \in Offers, ReceiveChunk(o) \/ WriteFails(o)
  PROVE  ShownInv'
<1> DEFINE q == waiter.has \o progressCh
           u == Update(o, "InProgress")
           how == result'
<1>0. /\ UiTypes /\ EmptyHands /\ Counts /\ loop.at = "read" /\ loop.send = <<>>
      /\ result[o] = "none" /\ arrived[o] < SizeOf[o] /\ SizeOf[o] \in Nat
      /\ UNCHANGED <<transfers, waiter, progressCh, ui>>
  BY DEF ShownInv, ReceiveChunk, WriteFails, Arrives, EmptyHands, chanVars, modelVars, cmdVars
<1>1. /\ q \in Seq(Updates) /\ InTurn(q, result, Shown)
      /\ o \notin Shown /\ \A i \in 1..Len(q) : q[i].of = o => q[i].state \notin Ends
  BY <1>0, QueueOfOpen
<1>2. /\ u \in Updates /\ u.of = o /\ u.state = "InProgress" /\ u.state \notin Ends
      /\ \A s \in Ends : /\ Update(o, s) \in Updates
                         /\ Update(o, s).of = o /\ Update(o, s).state = s
  BY DEF Update, Updates, Ends
\* The three ways, with what readLoop is going to send.
<1>3. \/ /\ result' = result /\ loop' = [at |-> "progress", send |-> <<u>>]
         /\ arrived' = [arrived EXCEPT ![o] = @ + 1] /\ arrived[o] + 1 < SizeOf[o]
      \/ \E s \in Ends :
           /\ result' = [result EXCEPT ![o] = s]
           /\ loop' = [at |-> "progress", send |-> <<u, Update(o, s)>>]
           /\ arrived' = [arrived EXCEPT ![o] = @ + 1] /\ arrived[o] + 1 = SizeOf[o]
      \/ /\ result' = [result EXCEPT ![o] = "Failed"]
         /\ loop' = [at |-> "progress", send |-> <<Update(o, "Failed")>>]
         /\ arrived' = arrived
  <2>1. arrived \in [Offers -> Nat]
    BY <1>0 DEF UiTypes, TypeOK
  <2>2. \A s \in Outcomes : s \in Ends
    BY DEF Outcomes, Ends
  <2>3. CASE ReceiveChunk(o)
    <3>1. arrived' = [arrived EXCEPT ![o] = @ + 1] /\ arrived'[o] = arrived[o] + 1
      BY <2>1, <2>3 DEF ReceiveChunk
    <3>2. CASE arrived'[o] < SizeOf[o] /\ UNCHANGED result
               /\ loop' = [at |-> "progress", send |-> <<u>>]
      BY <3>1, <3>2
    <3>3. CASE arrived'[o] = SizeOf[o] /\ \E s \in Outcomes :
                 /\ loop' = [at |-> "progress", send |-> <<u, Update(o, s)>>]
                 /\ result' = [result EXCEPT ![o] = s]
      BY <2>2, <3>1, <3>3, Zenon
    <3> QED
      BY <2>3, <3>2, <3>3, Zenon DEF ReceiveChunk
  <2>4. CASE WriteFails(o)
    BY <2>4 DEF WriteFails
  <2> QED
    BY <2>3, <2>4
<1>4. /\ result \in [Offers -> {"none"} \cup Ends] /\ arrived \in [Offers -> Nat]
      /\ "Failed" \in Ends /\ "none" \notin Ends
  BY <1>0 DEF UiTypes, TypeOK, Ends
<1>5. /\ Shown' = Shown /\ Shown \subseteq Offers
      /\ \A p \in Offers : result[p] \in Ends => how[p] = result[p]
  BY <1>0, <1>3, <1>4 DEF Shown
<1>6. Counts'
  <2>1. \A p \in Offers : p # o => result'[p] = result[p] /\ arrived'[p] = arrived[p]
    BY <1>3, <1>4
  <2>2. arrived'[o] <= SizeOf[o] /\ (result'[o] = "Completed" => arrived'[o] = SizeOf[o])
    BY <1>0, <1>3, <1>4
  <2> QED
    BY <1>0, <1>1, <1>5, <2>1, <2>2 DEF Counts
<1>7. ToShow' = q \o loop'.send
  BY <1>0 DEF ToShow
<1> HIDE DEF q, u, how
<1>8. InTurn(q, how, Shown)
  BY <1>1, <1>5, InTurnMore
<1>9. Append(q, u) \in Seq(Updates) /\ InTurn(Append(q, u), how, Shown)
  <2>1. Truthful(u, how)
    <3>1. SizeOf[o] > 0
      BY <1>0, <1>4
    <3> QED
      BY <1>2, <3>1 DEF Truthful
  <2> QED
    BY <1>1, <1>2, <1>8, <2>1, InTurnAppend
<1>10. InTurn(q \o loop'.send, how, Shown)
  <2>1. CASE loop'.send = <<u>>
    <3>1. Append(q, u) = q \o <<u>>
      BY <1>1, <1>2, QueueAppend
    <3> QED
      BY <1>9, <2>1, <3>1
  <2>2. ASSUME NEW s \in Ends, how = [result EXCEPT ![o] = s], loop'.send = <<u, Update(o, s)>>
        PROVE  InTurn(q \o loop'.send, how, Shown)
    <3> DEFINE v == Update(o, s)
    <3>1. v \in Updates /\ v.state \in Ends /\ Truthful(v, how)
      BY <1>2, <1>4, <2>2 DEF Truthful
    <3> HIDE DEF v
    <3>2. InTurn(Append(Append(q, u), v), how, Shown)
      BY <1>9, <3>1, InTurnAppend
    <3>3. Append(Append(q, u), v) = q \o <<u, v>>
      BY <1>1, <1>2, <3>1, QueueAppendTwo
    <3> QED
      BY <2>2, <3>2, <3>3 DEF v
  <2>3. CASE how = [result EXCEPT ![o] = "Failed"] /\ loop'.send = <<Update(o, "Failed")>>
    <3> DEFINE v == Update(o, "Failed")
    <3>1. v \in Updates /\ v.state \in Ends /\ Truthful(v, how)
      BY <1>2, <1>4, <2>3 DEF Truthful
    <3> HIDE DEF v
    <3>2. InTurn(Append(q, v), how, Shown) /\ Append(q, v) = q \o <<v>>
      BY <1>1, <1>8, <3>1, InTurnAppend, QueueAppend
    <3> QED
      BY <2>3, <3>2 DEF v
  <2> QED
    BY <1>3, <2>1, <2>2, <2>3 DEF how
<1>11. InTurn(ToShow', result', Shown')
  BY <1>5, <1>7, <1>10 DEF how
<1>12. EmptyHands'
  BY <1>0, <1>3 DEF EmptyHands
<1> QED
  BY <1>6, <1>11, <1>12 DEF ShownInv, InTurn, Truthful

LEMMA ShownStep ==
  ShownInv /\ FreshInv /\ [Next]_vars
    => ShownInv' /\ \A o \in Shown : transfers'[o] = transfers[o]
<1> SUFFICES ASSUME ShownInv, FreshInv, [Next]_vars
             PROVE  ShownInv' /\ \A o \in Shown : transfers'[o] = transfers[o]
  OBVIOUS
<1>1. UiTypes'
  BY UiTypesStep DEF ShownInv
<1>2. CASE OnProgress
  BY <1>1, <1>2, ShownOfProgress
<1>3. CASE ~OnProgress
  <2>1. transfers' = transfers
    BY <1>3 DEF Next, vars, LoopStep, CommandStep, UiStep, MessageStep, Answer, ReceiveOffer, ReceiveChunk,
         WriteFails, Arrives,
         LockProgress, SendProgress, LoopEnds, WaiterTakes, WaiterEnds, OfferWaiterTakes,
         OnOffer, PendingOffers, WaitForOffer, Rearm, MoveKey, AnswerKey, OtherMsg,
         AcceptOffer, AnswerError, LockFinish, SendFinish, RejectOffer, modelVars
  <2>3. ASSUME UNCHANGED vars
        PROVE  ShownInv'
    <3>1. /\ UNCHANGED <<arrived, result, transfers, ui, waiter, loop>> /\ ToShow' = ToShow
      BY <2>3 DEF vars, chanVars, loopVars, modelVars, cmdVars, ToShow
    <3>2. EmptyHands'
      BY <3>1 DEF ShownInv, EmptyHands
    <3>3. EndsStay
      BY <3>1 DEF EndsStay
    <3> QED
      BY <1>1, <3>1, <3>2, <3>3, ShownOfOthers
  <2>4. ShownInv'
    BY <1>1, <1>3, <2>3, ShownOfLoop, ShownOfUi, ShownOfHands, ShownOfFinish, ShownOfChunk
       DEF Next, LoopStep, CommandStep, UiStep, MessageStep, Answer
  <2> QED
    BY <2>1, <2>4
<1> QED
  BY <1>2, <1>3

\* An end that the panel shows is the one there was, completed only with every chunk,
\* and goes on being shown: for any offers and capacities, whatever fails, and wherever
\* the event loop's own report of an empty file comes between those of readLoop.
THEOREM EndShown == AppSafety => []EndIsTrue /\ EndIsFinal
<1>1. Init => ShownInv /\ FreshInv
  <2>1. Init => Fresh
    BY DEF Init, Fresh
  <2> QED
    BY <2>1, ShownInit, CursorInit DEF FreshInv
<1>2. ShownInv /\ FreshInv /\ [Next]_vars => (ShownInv /\ FreshInv)'
  BY ShownStep, FreshStep
<1>3. ShownInv => EndIsTrue
  BY DEF ShownInv, Counts, Shown, EndIsTrue
<1>4. ShownInv /\ FreshInv /\ [Next]_vars
        => [\A o \in Offers : transfers[o] \in Ends => transfers'[o] = transfers[o]]_vars
  BY ShownStep DEF Shown
<1> QED
  BY AppRunsSession, <1>1, <1>2, <1>3, <1>4, PTL DEF Safety, EndIsFinal

==============================================================================
