-------------------------- MODULE FileTransferProofs --------------------------
(***************************************************************************)
(* Proofs about one file, for files, channels and offers of any size.      *)
(* First ChunkStream, the host's part: SendToPeer and ReadChunks keep      *)
(* every chunk in order and say the truth about their progress.  Then      *)
(* FileTransfer, both sides: the host's part is ChunkStream, so all that   *)
(* was proved holds of the whole; a real name is only ever given to the    *)
(* whole of the offered size; and every step is one FileDelivery allows.   *)
(***************************************************************************)
EXTENDS FileTransfer, SequenceTheorems, TLAPS

------------------------------------------------------------------------------
(* The host's part                                                         *)

\* A sequence of at most one element that is not empty.
LEMMA OneElement ==
  ASSUME NEW S, NEW s \in Seq(S), s # <<>>, Len(s) <= 1
  PROVE  Len(s) = 1
<1>1. Len(s) \in Nat \ {0}
  BY EmptySeq
<1> QED
  BY <1>1

USE ChunkStreamAssumption

\* Where the two goroutines may stand at the same time, and what each has in
\* hand: the part of the invariant that is about control only.
Control ==
  /\ sender = "start" <=> reader = "off"
  /\ reader \in {"off", "open", "read", "put"} => errCh = <<>>
  /\ sender = "write" <=> held # <<>>
  /\ sender = "start" <=> peerState = "Accepted"
  /\ sender = "done" <=> peerState \in {"Completed", "Failed"}

Inv == TypeOK /\ Control

\* Type correctness: whatever fails, every variable keeps its type, chunkCh
\* never exceeds its capacity, and at most one error is queued.
LEMMA InvInit == Init => Inv
<1> SUFFICES ASSUME Init
             PROVE  Inv
  OBVIOUS
<1>1. TypeOK
  <2>1. reader \in ReaderPC /\ sender \in SenderPC
    BY DEF Init, ReaderPC, SenderPC
  <2>2. nextRead \in 0..NumChunks /\ peerOffset \in 0..NumChunks
    BY DEF Init
  <2>3. /\ chunkCh \in Seq(0..NumChunks) /\ Len(chunkCh) <= ChunkChCap
        /\ held \in Seq(0..NumChunks) /\ Len(held) <= 1
        /\ buffered \in Seq(0..NumChunks)
        /\ wire \in Seq(0..NumChunks)
    BY DEF Init
  <2>4. errCh \in Seq({"error"}) /\ Len(errCh) <= 1
    BY DEF Init
  <2> QED
    BY <2>1, <2>2, <2>3, <2>4 DEF Init, TypeOK
<1>2. Control
  BY DEF Init, Control
<1> QED
  BY <1>1, <1>2 DEF Inv

\* The first n of a group of pending frames leave: what they were is kept.
LEMMA PushType ==
  ASSUME NEW pending \in Seq(0..NumChunks), NEW n \in 0..Len(pending),
         wire \in Seq(0..NumChunks), Push(pending, n)
  PROVE  /\ wire' \in Seq(0..NumChunks)
         /\ buffered' \in Seq(0..NumChunks)
         /\ Len(wire') = Len(wire) + n
         /\ Len(buffered') = Len(pending) - n
         /\ \A i \in 1..Len(wire') :
              wire'[i] = IF i <= Len(wire) THEN wire[i] ELSE pending[i - Len(wire)]
         /\ \A i \in 1..Len(buffered') : buffered'[i] = pending[n + i]
<1> DEFINE first == SubSeq(pending, 1, n)
           rest  == SubSeq(pending, n + 1, Len(pending))
<1>1. /\ first \in Seq(0..NumChunks)
      /\ Len(first) = n
      /\ \A i \in 1..n : first[i] = pending[i]
  OBVIOUS
<1>2. /\ rest \in Seq(0..NumChunks)
      /\ Len(rest) = Len(pending) - n
      /\ \A i \in 1..(Len(pending) - n) : rest[i] = pending[n + i]
  OBVIOUS
<1>3. wire' = wire \o first /\ buffered' = rest
  BY DEF Push
<1> HIDE DEF first, rest
<1>4. /\ wire' \in Seq(0..NumChunks) /\ Len(wire') = Len(wire) + n
      /\ \A i \in 1..Len(wire') :
           wire'[i] = IF i <= Len(wire) THEN wire[i] ELSE first[i - Len(wire)]
  <2> DEFINE all == wire \o first
  <2>1. /\ all \in Seq(0..NumChunks) /\ Len(all) = Len(wire) + Len(first)
        /\ \A i \in 1..(Len(wire) + Len(first)) :
             all[i] = IF i <= Len(wire) THEN wire[i] ELSE first[i - Len(wire)]
    BY <1>1, ConcatProperties
  <2>2. wire' = all
    BY <1>3
  <2> HIDE DEF all
  <2> QED
    BY <1>1, <2>1, <2>2
<1>5. \A i \in 1..Len(wire') :
        wire'[i] = IF i <= Len(wire) THEN wire[i] ELSE pending[i - Len(wire)]
  <2>0. Len(wire) \in Nat /\ n \in Nat
    OBVIOUS
  <2> DEFINE len == Len(wire)
             w == wire'
  <2>1. /\ len \in Nat /\ Len(w) = len + n
        /\ \A i \in 1..Len(w) : w[i] = IF i <= len THEN wire[i] ELSE first[i - len]
    BY <1>4, <2>0
  <2> HIDE DEF len, w
  <2>2. ASSUME NEW i \in 1..Len(w)
        PROVE  w[i] = IF i <= len THEN wire[i] ELSE pending[i - len]
    <3>1. CASE i <= len
      BY <2>1, <3>1
    <3>2. CASE ~(i <= len)
      <4> DEFINE k == i - len
      <4>1. k \in 1..n
        BY <2>0, <2>1, <3>2
      <4>2. w[i] = first[k]
        BY <2>1, <3>2
      <4> HIDE DEF k
      <4>3. first[k] = pending[k]
        BY <1>1, <4>1
      <4>4. w[i] = pending[k]
        BY <4>2, <4>3
      <4> QED
        BY <3>2, <4>4 DEF k
    <3> QED
      BY <3>1, <3>2
  <2> QED
    BY <2>2 DEF len, w
<1> QED
  BY <1>2, <1>3, <1>4, <1>5

LEMMA InvStep == Inv /\ [Next]_vars => Inv'
<1> SUFFICES ASSUME Inv, [Next]_vars
             PROVE  Inv'
  OBVIOUS
<1> USE DEF Inv, TypeOK, Control, ReaderPC, SenderPC
<1>1. CASE ReaderStep
  <2>1. CASE OpenFile  BY <2>1 DEF OpenFile, chanVars, outVars, peerVars
  <2>2. CASE ReadFails BY <2>2 DEF ReadFails, outVars, peerVars
  <2>3. CASE ReadChunk BY <2>3 DEF ReadChunk, chanVars, outVars, peerVars
  <2>4. CASE PutChunk  BY <2>4 DEF PutChunk, outVars, peerVars
  <2>5. CASE ReadEOF   BY <2>5 DEF ReadEOF, chanVars, outVars, peerVars
  <2>6. CASE CloseErr  BY <2>6 DEF CloseErr, outVars, peerVars
  <2>7. CASE CloseChunk BY <2>7 DEF CloseChunk, outVars, peerVars
  <2> QED BY <1>1, <2>1, <2>2, <2>3, <2>4, <2>5, <2>6, <2>7 DEF ReaderStep
<1>2. CASE SenderStep
  <2>1. CASE StartSend    BY <2>1 DEF StartSend, chanVars, outVars
  <2>2. CASE SelectChunk  BY <2>2 DEF SelectChunk, readerVars, outVars, peerVars
  <2>3. CASE SelectClosed BY <2>3 DEF SelectClosed, readerVars, chanVars, outVars, peerVars
  <2>4. CASE SelectErr    BY <2>4 DEF SelectErr, AfterErr, readerVars, outVars, peerVars
  <2>5. CASE WriteChunk \/ WriteFails
    <3>1. PICK n \in 0..(Len(buffered) + 1) : Push(buffered \o held, n)
      BY <2>5 DEF WriteChunk, WriteFails
    <3>2. /\ buffered \o held \in Seq(0..NumChunks)
          /\ Len(buffered \o held) = Len(buffered) + 1
          /\ Head(held) \in 0..NumChunks
      BY <2>5 DEF WriteChunk, WriteFails
    <3>3. wire' \in Seq(0..NumChunks) /\ buffered' \in Seq(0..NumChunks)
      BY <3>1, <3>2, PushType
    <3>4. UNCHANGED <<reader, nextRead, chunkCh, chunkClosed, errCh, errClosed>>
      BY <2>5 DEF WriteChunk, WriteFails, readerVars, chanVars
    <3>5. /\ held' = <<>>
          /\ sender' \in {"select", "fail"}
          /\ peerState' = peerState
          /\ peerOffset' \in 0..NumChunks
      BY <2>5, <3>2 DEF WriteChunk, WriteFails, OffsetAfter, peerVars
    <3>6. sender = "write"
      BY <2>5 DEF WriteChunk, WriteFails
    <3> QED BY <3>3, <3>4, <3>5, <3>6, SMTT(30)
  <2>6. CASE Flush \/ FlushFails
    <3>1. PICK n \in 0..Len(buffered) : Push(buffered, n)
      BY <2>6 DEF Flush, FlushFails
    <3>2. wire' \in Seq(0..NumChunks) /\ buffered' \in Seq(0..NumChunks)
      BY <3>1, PushType
    <3> QED BY <2>6, <3>2 DEF Flush, FlushFails, readerVars, chanVars, peerVars
  <2>7. CASE Complete BY <2>7 DEF Complete, readerVars, chanVars, outVars
  <2>8. CASE Fail     BY <2>8 DEF Fail, readerVars, chanVars, outVars
  <2> QED BY <1>2, <2>1, <2>2, <2>3, <2>4, <2>5, <2>6, <2>7, <2>8 DEF SenderStep
<1>3. CASE UNCHANGED vars
  BY <1>3 DEF vars
<1> QED
  BY <1>1, <1>2, <1>3 DEF Next

\* Every reachable state of the two goroutines is well typed.
THEOREM TypeCorrect == Safety => []TypeOK
<1>1. Inv => TypeOK
  BY DEF Inv
<1> QED
  BY InvInit, InvStep, <1>1, PTL DEF Safety

------------------------------------------------------------------------------
(* File order                                                              *)

\* SendToPeer still takes chunks: it has not met an error.
Live == peerState # "Failed" /\ sender # "fail"

OrderInv == Inv /\ ChunksInOrder

\* What a channel operation does to a run of consecutive chunk numbers.
LEMMA ConsecutiveAppend ==
  ASSUME NEW s \in Seq(0..NumChunks), NEW from \in Nat, Consecutive(s, from),
         NEW x \in 0..NumChunks, x = from + Len(s) + 1
  PROVE  Consecutive(Append(s, x), from)
<1> SUFFICES ASSUME NEW i \in 1..Len(Append(s, x))
             PROVE  Append(s, x)[i] = from + i
  BY DEF Consecutive
<1>1. CASE i = Len(s) + 1
  BY <1>1
<1>2. CASE i \in 1..Len(s)
  BY <1>2 DEF Consecutive
<1> QED
  BY <1>1, <1>2

LEMMA ConsecutiveTake ==
  ASSUME NEW s \in Seq(0..NumChunks), NEW from \in Nat, Consecutive(s, from), s # <<>>
  PROVE  Consecutive(<<Head(s)>>, from) /\ Consecutive(Tail(s), from + 1)
<1>1. Len(s) \in Nat /\ 1 \in 1..Len(s) /\ Head(s) = s[1]
  OBVIOUS
<1>2. Consecutive(<<Head(s)>>, from)
  BY <1>1 DEF Consecutive
<1>3. ASSUME NEW i \in 1..Len(Tail(s))
      PROVE  Tail(s)[i] = (from + 1) + i
  <2>1. Len(Tail(s)) = Len(s) - 1 /\ Tail(s)[i] = s[i + 1]
    BY <1>1
  <2>2. i + 1 \in 1..Len(s) /\ i \in Nat
    BY <1>1, <2>1
  <2>3. s[i + 1] = from + (i + 1)
    BY <2>2 DEF Consecutive
  <2> QED
    BY <2>1, <2>2, <2>3
<1> QED
  BY <1>2, <1>3 DEF Consecutive

LEMMA ConsecutiveConcat ==
  ASSUME NEW s \in Seq(0..NumChunks), NEW r \in Seq(0..NumChunks), NEW from \in Nat,
         Consecutive(s, from), Consecutive(r, from + Len(s))
  PROVE  Consecutive(s \o r, from)
<1> SUFFICES ASSUME NEW i \in 1..Len(s \o r)
             PROVE  (s \o r)[i] = from + i
  BY DEF Consecutive
<1>1. CASE i <= Len(s)
  <2>1. i \in 1..Len(s) /\ (s \o r)[i] = s[i]
    BY <1>1
  <2> QED
    BY <2>1 DEF Consecutive
<1>2. CASE i > Len(s)
  <2>1. i - Len(s) \in 1..Len(r) /\ (s \o r)[i] = r[i - Len(s)]
    BY <1>2
  <2>2. r[i - Len(s)] = (from + Len(s)) + (i - Len(s))
    BY <2>1 DEF Consecutive
  <2> QED
    BY <2>1, <2>2
<1> QED
  BY <1>1, <1>2

\* Frames that leave the buffered writer, whole or not at all, leave in order.
LEMMA PushOrder ==
  ASSUME NEW pending \in Seq(0..NumChunks), NEW n \in 0..Len(pending),
         wire \in Seq(0..NumChunks), Push(pending, n),
         Consecutive(wire, 0), Consecutive(pending, Len(wire))
  PROVE  /\ Consecutive(wire', 0)
         /\ Consecutive(buffered', Len(wire'))
         /\ Written' = Len(wire) + Len(pending)
<1>1. /\ wire' \in Seq(0..NumChunks)
      /\ buffered' \in Seq(0..NumChunks)
      /\ Len(wire') = Len(wire) + n
      /\ Len(buffered') = Len(pending) - n
      /\ \A i \in 1..Len(wire') :
           wire'[i] = IF i <= Len(wire) THEN wire[i] ELSE pending[i - Len(wire)]
      /\ \A i \in 1..Len(buffered') : buffered'[i] = pending[n + i]
  BY PushType
<1>2. Consecutive(wire', 0)
  <2> DEFINE len == Len(wire)
             w == wire'
  <2>1. len \in Nat /\ Len(pending) \in Nat
    OBVIOUS
  <2>2. /\ Len(w) = len + n
        /\ \A i \in 1..Len(w) : w[i] = IF i <= len THEN wire[i] ELSE pending[i - len]
    BY <1>1
  <2>3. \A i \in 1..len : wire[i] = 0 + i
    BY DEF Consecutive
  <2>4. \A k \in 1..Len(pending) : pending[k] = len + k
    BY DEF Consecutive
  <2> HIDE DEF len, w
  <2>5. ASSUME NEW i \in 1..Len(w)
        PROVE  w[i] = 0 + i
    <3>1. CASE i <= len
      <4>1. i \in 1..len /\ w[i] = wire[i]
        BY <2>1, <2>2, <3>1
      <4> QED
        BY <2>3, <4>1
    <3>2. CASE ~(i <= len)
      <4> DEFINE k == i - len
      <4>1. k \in 1..Len(pending) /\ len + k = 0 + i
        BY <2>1, <2>2, <3>2
      <4>2. w[i] = pending[k]
        BY <2>2, <3>2
      <4> HIDE DEF k
      <4>3. pending[k] = len + k
        BY <2>4, <4>1
      <4> QED
        BY <4>1, <4>2, <4>3
    <3> QED
      BY <3>1, <3>2
  <2> QED
    BY <2>5 DEF Consecutive, len, w
<1>3. Consecutive(buffered', Len(wire'))
  <2> DEFINE len == Len(wire)
             b == buffered'
  <2>1. len \in Nat /\ Len(pending) \in Nat /\ Len(b) = Len(pending) - n /\ n \in Nat
    BY <1>1
  <2>2. \A i \in 1..Len(b) : b[i] = pending[n + i]
    BY <1>1, Zenon
  <2>3. \A k \in 1..Len(pending) : pending[k] = len + k
    BY DEF Consecutive
  <2> HIDE DEF len, b
  <2>4. ASSUME NEW i \in 1..Len(b)
        PROVE  b[i] = (len + n) + i
    <3> DEFINE k == n + i
    <3>1. k \in 1..Len(pending) /\ len + k = (len + n) + i
      BY <2>1
    <3>2. b[i] = pending[k]
      BY <2>2
    <3> HIDE DEF k
    <3>3. pending[k] = len + k
      BY <2>3, <3>1
    <3> QED
      BY <3>1, <3>2, <3>3
  <2>5. Len(wire') = len + n
    BY <1>1 DEF len
  <2> QED
    BY <2>4, <2>5 DEF Consecutive, b
<1>4. Written' = Len(wire) + Len(pending)
  <2>1. Len(wire) \in Nat /\ Len(pending) \in Nat /\ n \in Nat
    OBVIOUS
  <2> QED
    BY <1>1, <2>1 DEF Written
<1> QED
  BY <1>2, <1>3, <1>4

\* Writing the held chunk adds one frame, flushing adds none.
LEMMA WriteGrows ==
  ASSUME OrderInv, WriteChunk \/ WriteFails
  PROVE  /\ Consecutive(wire', 0)
         /\ Consecutive(buffered', Len(wire'))
         /\ Written' = Written + 1
         /\ wire' \in Seq(0..NumChunks) /\ buffered' \in Seq(0..NumChunks)
         /\ Len(wire) <= Len(wire')
<1>1. PICK n \in 0..(Len(buffered) + 1) : Push(buffered \o held, n)
  <2>1. CASE WriteChunk
    BY <2>1 DEF WriteChunk
  <2>2. CASE WriteFails
    BY <2>2 DEF WriteFails
  <2> QED
    BY <2>1, <2>2
<1>2. /\ held \in Seq(0..NumChunks) /\ buffered \in Seq(0..NumChunks)
      /\ wire \in Seq(0..NumChunks)
      /\ held # <<>> /\ Len(held) <= 1
  <2>1. /\ held \in Seq(0..NumChunks) /\ buffered \in Seq(0..NumChunks)
        /\ wire \in Seq(0..NumChunks) /\ Len(held) <= 1
    BY DEF OrderInv, Inv, TypeOK
  <2>2. sender = "write"
    BY DEF WriteChunk, WriteFails
  <2> QED
    BY <2>1, <2>2 DEF OrderInv, Inv, Control
<1>3. Len(held) = 1 /\ Len(wire) \in Nat /\ Len(buffered) \in Nat
  BY <1>2, OneElement
<1>4. /\ Consecutive(wire, 0)
      /\ Consecutive(buffered, Len(wire))
      /\ Consecutive(held, Len(wire) + Len(buffered))
  BY DEF OrderInv, ChunksInOrder, Written
<1>5. Consecutive(buffered \o held, Len(wire))
  BY <1>2, <1>3, <1>4, ConsecutiveConcat
<1>6. /\ buffered \o held \in Seq(0..NumChunks)
      /\ Len(buffered \o held) = Len(buffered) + 1
  <2>1. /\ buffered \o held \in Seq(0..NumChunks)
        /\ Len(buffered \o held) = Len(buffered) + Len(held)
    BY <1>2, ConcatProperties
  <2> QED
    BY <1>3, <2>1
<1>7. n \in 0..Len(buffered \o held)
  BY <1>6
<1>8. /\ Consecutive(wire', 0)
      /\ Consecutive(buffered', Len(wire'))
      /\ Written' = Len(wire) + Len(buffered \o held)
  BY <1>1, <1>2, <1>4, <1>5, <1>6, <1>7, PushOrder
<1>9. /\ wire' \in Seq(0..NumChunks) /\ buffered' \in Seq(0..NumChunks)
      /\ Len(wire') = Len(wire) + n
  BY <1>1, <1>2, <1>6, <1>7, PushType
<1> QED
  BY <1>3, <1>6, <1>7, <1>8, <1>9 DEF Written

LEMMA FlushKeeps ==
  ASSUME OrderInv, Flush \/ FlushFails
  PROVE  /\ Consecutive(wire', 0)
         /\ Consecutive(buffered', Len(wire'))
         /\ Written' = Written
         /\ wire' \in Seq(0..NumChunks) /\ buffered' \in Seq(0..NumChunks)
         /\ Len(wire) <= Len(wire')
         /\ Flush => Len(buffered') = 0
<1>1. buffered \in Seq(0..NumChunks) /\ wire \in Seq(0..NumChunks)
  BY DEF OrderInv, Inv, TypeOK
<1>2. PICK n \in 0..Len(buffered) : Push(buffered, n) /\ (Flush => n = Len(buffered))
  BY <1>1 DEF Flush, FlushFails
<1>3. Consecutive(wire, 0) /\ Consecutive(buffered, Len(wire))
  BY DEF OrderInv, ChunksInOrder
<1>4. /\ Consecutive(wire', 0)
      /\ Consecutive(buffered', Len(wire'))
      /\ Written' = Len(wire) + Len(buffered)
  BY <1>1, <1>2, <1>3, PushOrder
<1>5. /\ wire' \in Seq(0..NumChunks) /\ buffered' \in Seq(0..NumChunks)
      /\ Len(wire') = Len(wire) + n
      /\ Len(buffered') = Len(buffered) - n
  BY <1>1, <1>2, PushType
<1> QED
  BY <1>1, <1>2, <1>4, <1>5 DEF Written

LEMMA OrderInit == Init => OrderInv
  BY InvInit DEF Init, OrderInv, ChunksInOrder, Consecutive, Written, InFlight

LEMMA OrderStep == OrderInv /\ [Next]_vars => OrderInv'
<1> SUFFICES ASSUME OrderInv, [Next]_vars
             PROVE  ChunksInOrder'
  BY InvStep DEF OrderInv
<1> USE DEF OrderInv, Inv, TypeOK, ReaderPC, SenderPC
<1>1. CASE ReaderStep
  <2>1. UNCHANGED <<sender, held, buffered, wire, peerState, peerOffset>>
    BY <1>1 DEF ReaderStep, OpenFile, ReadFails, ReadChunk, PutChunk, ReadEOF,
                CloseErr, CloseChunk, outVars, peerVars
  <2>2. Written' = Written
    BY <2>1 DEF Written
  <2>3. /\ Consecutive(wire, 0)'
        /\ Consecutive(buffered, Len(wire))'
        /\ Consecutive(held, Written)'
    BY <2>1, <2>2 DEF ChunksInOrder, Consecutive
  <2>4. Live' => Live
    BY <2>1 DEF Live
  <2>5. Live => Consecutive(chunkCh, Written + Len(held))'
                /\ (Written + InFlight = nextRead)'
    <3> SUFFICES ASSUME Live
                 PROVE  Consecutive(chunkCh, Written + Len(held))'
                        /\ (Written + InFlight = nextRead)'
      OBVIOUS
    <3>1. /\ Consecutive(chunkCh, Written + Len(held))
          /\ Written + InFlight = nextRead
          /\ Written \in Nat /\ Len(held) \in Nat
      BY DEF Live, ChunksInOrder, Written
    <3>2. CASE PutChunk
      <4>1. chunkCh' = Append(chunkCh, nextRead) /\ reader = "put" /\ reader' = "read"
            /\ nextRead' = nextRead
        BY <3>2 DEF PutChunk
      <4>2. nextRead = Written + Len(held) + Len(chunkCh) + 1
        BY <3>1, <4>1 DEF InFlight
      <4>3. Consecutive(chunkCh', Written + Len(held))
        BY <3>1, <4>1, <4>2, ConsecutiveAppend
      <4> QED
        BY <2>1, <2>2, <4>1, <4>2, <4>3, <3>1, SMTT(30) DEF InFlight, Consecutive
    <3>3. CASE ReadChunk
      <4>1. /\ chunkCh' = chunkCh /\ nextRead' = nextRead + 1
            /\ reader = "read" /\ reader' = "put"
        BY <3>3 DEF ReadChunk, chanVars
      <4>2. InFlight' = InFlight + 1 /\ InFlight \in Nat
        BY <2>1, <4>1 DEF InFlight
      <4> QED
        BY <2>1, <2>2, <3>1, <4>1, <4>2
    <3>4. CASE ~PutChunk /\ ~ReadChunk
      <4>1. UNCHANGED <<chunkCh, nextRead>> /\ reader # "put" /\ reader' # "put"
        BY <1>1, <3>4 DEF ReaderStep, OpenFile, ReadFails, ReadEOF, CloseErr,
                          CloseChunk, chanVars
      <4> QED
        BY <2>1, <2>2, <3>1, <4>1 DEF InFlight, Consecutive
    <3> QED BY <3>2, <3>3, <3>4
  <2> QED
    BY <2>3, <2>4, <2>5 DEF ChunksInOrder, Live
<1>2. CASE SelectChunk
  <2>1. /\ chunkCh # <<>> /\ held = <<>>
        /\ held' = <<Head(chunkCh)>> /\ chunkCh' = Tail(chunkCh)
        /\ sender = "select" /\ sender' = "write"
        /\ UNCHANGED <<reader, nextRead, buffered, wire, peerState>>
    BY <1>2 DEF SelectChunk, readerVars, outVars, peerVars, Control
  <2>2. Live /\ Written \in Nat /\ Written' = Written
    BY <2>1 DEF Live, Control, Written
  <2>3. Consecutive(chunkCh, Written) /\ Written + InFlight = nextRead
    <3>1. Len(held) = 0 /\ Written + Len(held) = Written
      BY <2>1, <2>2
    <3> QED
      BY <2>2, <3>1 DEF ChunksInOrder, Live
  <2>4. Consecutive(held', Written) /\ Consecutive(chunkCh', Written + 1)
    BY <2>1, <2>2, <2>3, ConsecutiveTake
  <2>5. InFlight' = InFlight
    BY <2>1 DEF InFlight
  <2> QED
    BY <2>1, <2>2, <2>3, <2>4, <2>5 DEF ChunksInOrder, Consecutive
<1>3. CASE WriteChunk \/ WriteFails
  <2>2. sender = "write" /\ Len(held) = 1 /\ held' = <<>> /\ Live
    <3>1. sender = "write" /\ held' = <<>>
      BY <1>3 DEF WriteChunk, WriteFails
    <3>2. held # <<>> /\ held \in Seq(0..NumChunks) /\ Len(held) <= 1
      BY <3>1 DEF Control
    <3>3. Live
      BY <3>1 DEF Control, Live
    <3> QED
      BY <3>1, <3>2, <3>3, OneElement
  <2>4. /\ Consecutive(wire', 0)
        /\ Consecutive(buffered', Len(wire'))
        /\ Written' = Written + 1
    BY <1>3, WriteGrows
  <2>5. Consecutive(held', Written')
    BY <2>2 DEF Consecutive
  <2>6. UNCHANGED <<reader, nextRead, chunkCh, peerState>>
    BY <1>3 DEF WriteChunk, WriteFails, readerVars, chanVars, peerVars
  <2>7. Consecutive(chunkCh', Written' + Len(held')) /\ Written' + InFlight' = nextRead'
    <3>1. Written \in Nat /\ Len(held') = 0
      BY <2>2 DEF Written
    <3>2. Written' + Len(held') = Written + Len(held)
      BY <2>2, <2>4, <3>1
    <3>3. Consecutive(chunkCh, Written + Len(held)) /\ Written + InFlight = nextRead
      BY <2>2 DEF ChunksInOrder, Live
    <3>4. InFlight = InFlight' + 1 /\ InFlight' \in Nat
      BY <2>2, <2>6, <3>1 DEF InFlight
    <3>5. Consecutive(chunkCh', Written' + Len(held'))
      BY <2>6, <3>2, <3>3
    <3>6. Written' + InFlight' = Written + InFlight
      BY <2>4, <3>1, <3>4
    <3> QED
      BY <2>6, <3>3, <3>5, <3>6
  <2> QED
    BY <2>4, <2>5, <2>7 DEF ChunksInOrder
<1>4. CASE Flush \/ FlushFails
  <2>2. sender = "flush" /\ held = <<>> /\ Live
    BY <1>4 DEF Flush, FlushFails, Control, Live
  <2>3. /\ Consecutive(wire', 0)
        /\ Consecutive(buffered', Len(wire'))
        /\ Written' = Written
    BY <1>4, FlushKeeps
  <2>4. UNCHANGED <<reader, nextRead, chunkCh, held, peerState>>
    BY <1>4 DEF Flush, FlushFails, readerVars, chanVars, peerVars
  <2> QED
    BY <2>2, <2>3, <2>4 DEF ChunksInOrder, Live, Consecutive, InFlight
<1>5. CASE StartSend \/ SelectClosed \/ SelectErr \/ Complete \/ Fail \/ UNCHANGED vars
  <2>1. /\ UNCHANGED <<nextRead, chunkCh, held, buffered, wire>>
        /\ reader' = reader \/ (reader = "off" /\ reader' = "open")
        /\ Live' => Live
    BY <1>5 DEF StartSend, SelectClosed, SelectErr, Complete, Fail, vars, Control, Live,
                chanVars, outVars, peerVars, readerVars
  <2>2. Written' = Written /\ InFlight' = InFlight
    BY <2>1 DEF Written, InFlight
  <2> QED
    BY <2>1, <2>2 DEF ChunksInOrder, Live, Consecutive
<1> QED
  BY <1>1, <1>2, <1>3, <1>4, <1>5 DEF Next, SenderStep

\* No chunk is lost, repeated or reordered between the file and the
\* connection, for every file, channel capacity and pattern of writes.
THEOREM InOrder == Safety => []ChunksInOrder
<1>1. OrderInv => ChunksInOrder
  BY DEF OrderInv
<1> QED
  BY OrderInit, OrderStep, <1>1, PTL DEF Safety

------------------------------------------------------------------------------
(* The offset                                                              *)

OffsetInv == /\ OrderInv
             /\ peerOffset <= Written
             /\ Live => peerOffset = Written

LEMMA OffsetInit == Init => OffsetInv
  BY OrderInit DEF Init, OffsetInv, Written, Live

LEMMA OffsetStep == OffsetInv /\ [Next]_vars => OffsetInv'
<1> SUFFICES ASSUME OffsetInv, [Next]_vars
             PROVE  (peerOffset <= Written)' /\ (Live => peerOffset = Written)'
  BY OrderStep DEF OffsetInv
<1>1. /\ peerOffset \in Nat /\ Written \in Nat
      /\ Len(buffered) \in Nat /\ Len(wire) \in Nat
  BY DEF OffsetInv, OrderInv, Inv, TypeOK, Written
<1>2. CASE WriteChunk \/ WriteFails
  <2>1. sender = "write" /\ Live /\ Len(held) = 1
    <3>1. sender = "write"
      BY <1>2 DEF WriteChunk, WriteFails
    <3>2. held # <<>> /\ held \in Seq(0..NumChunks) /\ Len(held) <= 1
      BY <3>1 DEF OffsetInv, OrderInv, Inv, TypeOK, Control
    <3>3. Live
      BY <3>1 DEF OffsetInv, OrderInv, Inv, Control, Live
    <3> QED
      BY <3>1, <3>2, <3>3, OneElement
  <2>2. Written' = Written + 1
    BY <1>2, <2>1, WriteGrows DEF OffsetInv
  <2>3. CASE WriteFails
    <3>1. peerOffset' = peerOffset /\ ~Live'
      BY <2>3 DEF WriteFails, peerVars, Live
    <3> QED
      BY <1>1, <2>2, <3>1 DEF OffsetInv
  <2>4. CASE WriteChunk
    <3>1. Consecutive(held, Written) /\ held \in Seq(0..NumChunks) /\ held # <<>>
      BY <2>1 DEF OffsetInv, OrderInv, ChunksInOrder, Inv, TypeOK, Control
    <3>2. Head(held) = held[1] /\ 1 \in 1..Len(held)
      BY <2>1, <3>1
    <3>3. held[1] = Written + 1
      BY <3>1, <3>2 DEF Consecutive
    <3> QED
      BY <1>1, <2>2, <2>4, <3>2, <3>3 DEF WriteChunk, OffsetAfter
  <2> QED
    BY <1>2, <2>3, <2>4
<1>3. CASE Flush \/ FlushFails
  <2>1. Written' = Written
    BY <1>3, FlushKeeps DEF OffsetInv
  <2>2. peerOffset' = peerOffset /\ (Live' => Live)
    BY <1>3 DEF Flush, FlushFails, peerVars, Live, OffsetInv, OrderInv, Inv, Control
  <2> QED
    BY <2>1, <2>2 DEF OffsetInv
<1>4. CASE ~(WriteChunk \/ WriteFails \/ Flush \/ FlushFails)
  <2>1. UNCHANGED <<peerOffset, wire, buffered>> /\ (Live' => Live)
    BY <1>4 DEF Next, ReaderStep, SenderStep, OpenFile, ReadFails, ReadChunk, PutChunk,
                ReadEOF, CloseErr, CloseChunk, StartSend, SelectChunk, SelectClosed,
                SelectErr, Complete, Fail, vars, readerVars, chanVars, outVars, peerVars,
                Live, OffsetInv, OrderInv, Inv, Control
  <2> QED
    BY <2>1 DEF Written, OffsetInv
<1> QED
  BY <1>2, <1>3, <1>4

\* The number the host shows for a peer never runs ahead of what was written,
\* and is all of it once the transfer is complete.
THEOREM OffsetTruthful == Safety => []OffsetIsWritten
<1>1. OffsetInv => OffsetIsWritten
  <2> SUFFICES ASSUME OffsetInv
               PROVE  OffsetIsWritten
    OBVIOUS
  <2>1. peerState = "Completed" => Live
    BY DEF OffsetInv, OrderInv, Inv, Control, Live
  <2> QED
    BY <2>1 DEF OffsetInv, OffsetIsWritten
<1> QED
  BY OffsetInit, OffsetStep, <1>1, PTL DEF Safety

------------------------------------------------------------------------------
(* Completion                                                              *)

SentInv ==
  /\ OrderInv
  /\ chunkClosed => reader = "done"
  /\ sender \in {"flush", "complete"} \/ peerState = "Completed" =>
       chunkCh = <<>> /\ reader = "done"
  /\ sender = "complete" \/ peerState = "Completed" => Len(buffered) = 0

LEMMA SentInit == Init => SentInv
  BY OrderInit DEF Init, SentInv

LEMMA SentStep ==
  ASSUME SentInv, [Next]_vars
  PROVE  SentInv'
<1> DEFINE Rest == /\ chunkClosed => reader = "done"
                   /\ sender \in {"flush", "complete"} \/ peerState = "Completed" =>
                        chunkCh = <<>> /\ reader = "done"
                   /\ sender = "complete" \/ peerState = "Completed" => Len(buffered) = 0
<1> SUFFICES Rest'
  BY OrderStep DEF SentInv
<1>1. Rest /\ Control
  BY DEF SentInv, OrderInv, Inv
<1>2. CASE ReaderStep
  <2>1. UNCHANGED <<sender, peerState, buffered>>
    BY <1>2 DEF ReaderStep, OpenFile, ReadFails, ReadChunk, PutChunk, ReadEOF,
                CloseErr, CloseChunk, outVars, peerVars
  <2>2. reader # "done"
    BY <1>2 DEF ReaderStep, OpenFile, ReadFails, ReadChunk, PutChunk, ReadEOF,
                CloseErr, CloseChunk
  <2>3. chunkClosed' => reader' = "done"
    BY <1>1, <1>2, <2>2 DEF ReaderStep, OpenFile, ReadFails, ReadChunk, PutChunk, ReadEOF,
                CloseErr, CloseChunk, chanVars
  <2> QED
    BY <1>1, <2>1, <2>2, <2>3
<1>3. CASE Flush \/ FlushFails
  <2>1. Flush => Len(buffered') = 0
    BY <1>3, FlushKeeps DEF SentInv
  <2> QED
    BY <1>1, <1>3, <2>1 DEF Flush, FlushFails, readerVars, chanVars, peerVars, Control
<1>4. CASE WriteChunk \/ WriteFails
  BY <1>1, <1>4 DEF WriteChunk, WriteFails, readerVars, chanVars, peerVars, Control
<1>5. CASE StartSend
  BY <1>1, <1>5 DEF StartSend, chanVars, outVars, Control
<1>6. CASE SelectChunk
  BY <1>1, <1>6 DEF SelectChunk, readerVars, outVars, peerVars, Control
<1>7. CASE SelectClosed \/ SelectErr
  BY <1>1, <1>7 DEF SelectClosed, SelectErr, AfterErr, readerVars, chanVars, outVars,
                    peerVars, Control
<1>8. CASE Complete \/ Fail \/ UNCHANGED vars
  BY <1>1, <1>8 DEF Complete, Fail, vars, readerVars, chanVars, outVars, Control
<1> QED
  BY <1>2, <1>3, <1>4, <1>5, <1>6, <1>7, <1>8 DEF Next, SenderStep

\* At the end of the stream every chunk that was read is on the connection.
LEMMA SentAtEnd ==
  ASSUME SentInv, sender = "complete" \/ peerState = "Completed"
  PROVE  Len(wire) = nextRead /\ buffered = <<>>
<1>1. /\ buffered \in Seq(0..NumChunks) /\ wire \in Seq(0..NumChunks)
      /\ held = <<>> /\ chunkCh = <<>> /\ reader = "done" /\ Live
      /\ nextRead \in Nat /\ Len(buffered) = 0
  BY DEF SentInv, OrderInv, Inv, TypeOK, Control, Live
<1>2. buffered = <<>>
  BY <1>1, EmptySeq
<1>3. Written + InFlight = nextRead
  BY <1>1 DEF SentInv, OrderInv, ChunksInOrder, Live
<1>4. InFlight = 0
  BY <1>1 DEF InFlight
<1>5. Len(wire) \in Nat
  BY <1>1
<1> QED
  BY <1>1, <1>2, <1>3, <1>4, <1>5 DEF Written

\* A transfer recorded as COMPLETED has sent every chunk that was read.
THEOREM CompletedSent == Safety => []CompletedIsSent
<1>1. SentInv => CompletedIsSent
  BY SentAtEnd DEF CompletedIsSent
<1>2. SentInv /\ [Next]_vars => SentInv'
  BY SentStep
<1> QED
  BY SentInit, <1>1, <1>2, PTL DEF Safety

\* SendToPeer leaves no goroutine behind when it succeeds: to get there it has
\* seen chunkCh closed, which is the last thing its reader does.
THEOREM NoReaderIsParked == Safety => []ReaderLeaksOnlyOnFailure
<1>1. SentInv => ReaderLeaksOnlyOnFailure
  BY DEF SentInv, OrderInv, Inv, Control, ReaderLeaksOnlyOnFailure
<1>2. SentInv /\ [Next]_vars => SentInv'
  BY SentStep
<1> QED
  BY SentInit, <1>1, <1>2, PTL DEF Safety

\* The reader stops at the end of the file, unless reading fails.
WholeInv ==
  SentInv /\ (reader \in {"closeErr", "closeChunk", "done"} => nextRead = NumChunks)

\* A transfer recorded as COMPLETED has been written whole, if the file can be
\* read to its end.
THEOREM CompletedWhole ==
  ASSUME ReadsMayFail = FALSE
  PROVE  Safety => []CompletedIsWhole
<1>1. Init => WholeInv
  BY SentInit DEF Init, WholeInv
<1>2. WholeInv => CompletedIsWhole
  BY SentAtEnd DEF CompletedIsWhole, WholeInv, SentInv
<1>3. WholeInv /\ [Next]_vars => WholeInv'
  <2> SUFFICES ASSUME WholeInv, [Next]_vars
               PROVE  reader' \in {"closeErr", "closeChunk", "done"} => nextRead' = NumChunks
    BY SentStep DEF WholeInv
  <2>1. CASE ReaderStep
    BY <2>1 DEF WholeInv, ReaderStep, OpenFile, ReadFails, ReadChunk, PutChunk, ReadEOF,
                CloseErr, CloseChunk
  <2>2. CASE StartSend
    BY <2>2 DEF StartSend
  <2>3. CASE SelectChunk \/ SelectClosed \/ SelectErr \/ WriteChunk \/ WriteFails
             \/ Flush \/ FlushFails \/ Complete \/ Fail \/ UNCHANGED vars
    BY <2>3 DEF WholeInv, SelectChunk, SelectClosed, SelectErr, WriteChunk, WriteFails, Flush,
                FlushFails, Complete, Fail, vars, readerVars
  <2> QED
    BY <2>1, <2>2, <2>3 DEF Next, SenderStep
<1> QED
  BY <1>1, <1>2, <1>3, PTL DEF Safety

------------------------------------------------------------------------------
(* Ending                                                                  *)

\* The steps a goroutine still has before it from where it stands, apart from
\* those made for each chunk; "put" counts the three that are to be made for the
\* chunk in the reader's hands.
ReaderLeft == [off |-> 4, open |-> 4, read |-> 3, put |-> 6,
               closeErr |-> 2, closeChunk |-> 1, done |-> 0]
SenderLeft == [start |-> 4, select |-> 3, write |-> 3, flush |-> 2,
               complete |-> 1, fail |-> 1, done |-> 0]

\* The most steps the call can still take.  A chunk is read, queued, taken and
\* written: four steps while it is in the file, two in chunkCh, one in hand.
ChunkSteps == 4 * (NumChunks - nextRead) + 2 * Len(chunkCh) + Len(held)
StepsLeft  == ChunkSteps + ReaderLeft[reader] + SenderLeft[sender]

\* Every place of the two goroutines has its number of steps.
LEMMA StepsCounted ==
  ASSUME Inv
  PROVE  /\ ChunkSteps \in Nat
         /\ ReaderLeft[reader] \in 0..6 /\ SenderLeft[sender] \in 0..4
         /\ StepsLeft \in Nat
<1>1. /\ nextRead \in 0..NumChunks /\ Len(chunkCh) \in Nat /\ Len(held) \in Nat
      /\ reader \in ReaderPC /\ sender \in SenderPC
  BY DEF Inv, TypeOK
<1>2. ChunkSteps \in Nat
  BY <1>1 DEF ChunkSteps
<1>3. ReaderLeft[reader] \in 0..6
  BY <1>1 DEF ReaderLeft, ReaderPC
<1>4. SenderLeft[sender] \in 0..4
  BY <1>1 DEF SenderLeft, SenderPC
<1> QED
  BY <1>2, <1>3, <1>4 DEF StepsLeft

\* A step of the reader uses one up at least.
LEMMA ReaderUsesUp ==
  ASSUME Inv, ReaderStep
  PROVE  StepsLeft' < StepsLeft
<1>1. /\ nextRead \in 0..NumChunks /\ Len(chunkCh) \in Nat /\ Len(held) \in Nat
      /\ SenderLeft[sender] \in Nat /\ chunkCh \in Seq(0..NumChunks)
  BY StepsCounted DEF Inv, TypeOK
<1>2. held' = held /\ SenderLeft[sender]' = SenderLeft[sender]
  BY DEF ReaderStep, OpenFile, ReadFails, ReadChunk, PutChunk, ReadEOF, CloseErr, CloseChunk,
         SenderLeft
<1>3. CASE ReadChunk
  <2>1. /\ nextRead < NumChunks /\ nextRead' = nextRead + 1 /\ chunkCh' = chunkCh
        /\ ReaderLeft[reader] = 3 /\ ReaderLeft[reader]' = 6
    BY <1>3 DEF ReadChunk, ReaderLeft, chanVars
  <2> QED
    BY <1>1, <1>2, <2>1 DEF StepsLeft, ChunkSteps
<1>4. CASE PutChunk
  <2>1. /\ nextRead' = nextRead /\ chunkCh' = Append(chunkCh, nextRead)
        /\ ReaderLeft[reader] = 6 /\ ReaderLeft[reader]' = 3
    BY <1>4 DEF PutChunk, ReaderLeft
  <2>2. Len(chunkCh') = Len(chunkCh) + 1
    BY <1>1, <2>1
  <2> QED
    BY <1>1, <1>2, <2>1, <2>2 DEF StepsLeft, ChunkSteps
<1>5. CASE OpenFile \/ ReadFails \/ ReadEOF \/ CloseErr \/ CloseChunk
  <2>1. nextRead' = nextRead /\ chunkCh' = chunkCh
    BY <1>5 DEF OpenFile, ReadFails, ReadEOF, CloseErr, CloseChunk, chanVars
  <2>2. /\ ReaderLeft[reader] \in Nat /\ ReaderLeft[reader]' \in Nat
        /\ ReaderLeft[reader]' < ReaderLeft[reader]
    BY <1>5 DEF OpenFile, ReadFails, ReadEOF, CloseErr, CloseChunk, ReaderLeft
  <2> QED
    BY <1>1, <1>2, <2>1, <2>2 DEF StepsLeft, ChunkSteps
<1> QED
  BY <1>3, <1>4, <1>5 DEF ReaderStep

\* So does a step of SendToPeer, the nil of a closed errCh excepted: it changes
\* nothing.
LEMMA SenderUsesUp ==
  ASSUME Inv, SenderStep
  PROVE  StepsLeft' < StepsLeft \/ UNCHANGED vars
<1>1. /\ nextRead \in 0..NumChunks /\ Len(chunkCh) \in Nat /\ Len(held) \in Nat
      /\ ReaderLeft[reader] \in Nat /\ chunkCh \in Seq(0..NumChunks)
      /\ Len(held) <= 1
  BY StepsCounted, SMTT(30) DEF Inv, TypeOK
<1>2. nextRead' = nextRead
  BY DEF SenderStep, StartSend, SelectChunk, SelectClosed, SelectErr, WriteChunk, WriteFails,
         Flush, FlushFails, Complete, Fail, readerVars
<1>3. CASE StartSend
  <2>1. /\ chunkCh' = chunkCh /\ held' = held /\ ReaderLeft[reader]' = 4
        /\ SenderLeft[sender] = 4 /\ SenderLeft[sender]' = 3
    BY <1>3 DEF StartSend, chanVars, ReaderLeft, SenderLeft
  <2>2. ReaderLeft[reader] = 4
    BY <1>3 DEF StartSend, Inv, Control, ReaderLeft
  <2> QED
    BY <1>1, <1>2, <2>1, <2>2 DEF StepsLeft, ChunkSteps
<1>4. CASE SelectChunk
  <2>1. /\ chunkCh # <<>> /\ chunkCh' = Tail(chunkCh) /\ held' = <<Head(chunkCh)>>
        /\ ReaderLeft[reader]' = ReaderLeft[reader]
        /\ SenderLeft[sender] = 3 /\ SenderLeft[sender]' = 3
    BY <1>4 DEF SelectChunk, readerVars, ReaderLeft, SenderLeft
  <2>2. Len(chunkCh') = Len(chunkCh) - 1 /\ Len(held') = 1
    BY <1>1, <2>1
  <2> QED
    BY <1>1, <1>2, <2>1, <2>2 DEF StepsLeft, ChunkSteps
<1>5. CASE WriteChunk \/ WriteFails
  <2>1. /\ chunkCh' = chunkCh /\ held' = <<>> /\ ReaderLeft[reader]' = ReaderLeft[reader]
        /\ SenderLeft[sender] = 3 /\ SenderLeft[sender]' \in {1, 3}
    BY <1>5 DEF WriteChunk, WriteFails, readerVars, chanVars, ReaderLeft, SenderLeft
  <2>2. Len(held) = 1
    <3>1. held # <<>> /\ held \in Seq(0..NumChunks)
      BY <1>5 DEF WriteChunk, WriteFails, Inv, Control, TypeOK
    <3> QED
      BY <1>1, <3>1, OneElement
  <2>3. Len(held') = 0
    BY <2>1
  <2> QED
    BY <1>1, <1>2, <2>1, <2>2, <2>3 DEF StepsLeft, ChunkSteps
<1>6. CASE SelectErr /\ errCh = <<>>
  BY <1>6 DEF SelectErr, AfterErr, vars, readerVars, outVars, peerVars
<1>7. CASE \/ SelectClosed \/ Flush \/ FlushFails \/ Complete \/ Fail
           \/ SelectErr /\ errCh # <<>>
  <2>1. chunkCh' = chunkCh /\ held' = held /\ ReaderLeft[reader]' = ReaderLeft[reader]
    BY <1>7 DEF SelectClosed, Flush, FlushFails, Complete, Fail, SelectErr, readerVars,
                chanVars, ReaderLeft
  <2>2. /\ SenderLeft[sender] \in Nat /\ SenderLeft[sender]' \in Nat
        /\ SenderLeft[sender]' < SenderLeft[sender]
    BY <1>7 DEF SelectClosed, Flush, FlushFails, Complete, Fail, SelectErr, AfterErr,
                SenderLeft
  <2> QED
    BY <1>1, <1>2, <2>1, <2>2 DEF StepsLeft, ChunkSteps
<1> QED
  BY <1>3, <1>4, <1>5, <1>6, <1>7 DEF SenderStep

\* Whatever the interleaving and whatever fails, SendToPeer and its reader make
\* at most four steps for each chunk and eight besides: every step that changes
\* anything uses one of them up, so the two cannot run on for ever.
THEOREM StepsRunOut ==
  Safety => [](StepsLeft \in 0..(4 * NumChunks + 8)) /\ [][StepsLeft' < StepsLeft]_vars
<1> DEFINE Bounded == Inv /\ StepsLeft \in 0..(4 * NumChunks + 8)
<1>1. Init => Bounded
  <2> SUFFICES ASSUME Init
               PROVE  StepsLeft \in 0..(4 * NumChunks + 8)
    BY InvInit
  <2>1. /\ nextRead = 0 /\ Len(chunkCh) = 0 /\ Len(held) = 0
        /\ ReaderLeft[reader] = 4 /\ SenderLeft[sender] = 4
    BY DEF Init, ReaderLeft, SenderLeft
  <2> QED
    BY <2>1 DEF StepsLeft, ChunkSteps
<1>2. Inv /\ [Next]_vars => [StepsLeft' < StepsLeft]_vars
  BY ReaderUsesUp, SenderUsesUp DEF Next
<1>3. Inv /\ [Next]_vars => Inv'
  BY InvStep
<1>4. Inv => StepsLeft \in Nat
  BY StepsCounted
<1>5. Bounded /\ [Next]_vars /\ Inv' /\ (StepsLeft \in Nat)' => Bounded'
  <2> SUFFICES ASSUME Bounded, [Next]_vars, (StepsLeft \in Nat)'
               PROVE  StepsLeft' \in 0..(4 * NumChunks + 8)
    OBVIOUS
  <2>1. CASE UNCHANGED vars
    <3>1. StepsLeft' = StepsLeft
      BY <2>1 DEF vars, StepsLeft, ChunkSteps, ReaderLeft, SenderLeft
    <3> QED
      BY <3>1
  <2>2. CASE StepsLeft' < StepsLeft
    BY <2>2
  <2> QED
    BY <1>2, <2>1, <2>2
<1> QED
  BY <1>1, <1>2, <1>3, <1>4, <1>5, PTL DEF Safety

\* Neither goroutine waits for the other in vain: while SendToPeer finds nothing
\* in its select, its reader is still on its way to a chunk or to the close of
\* chunkCh, and a reader before a full chunkCh has a sender that comes back to
\* it, unless the call has failed.
NeverBothWait ==
  /\ sender = "select" /\ chunkCh = <<>> /\ ~chunkClosed =>
       reader \in {"open", "read", "put", "closeErr", "closeChunk"}
  /\ reader = "put" /\ Len(chunkCh) = ChunkChCap =>
       sender \in {"select", "write", "fail"} \/ peerState = "Failed"

\* For files and channels of every size the two goroutines never wait for each
\* other.  With StepsRunOut, what SendToPeer needs to get to its end is that the
\* scheduler runs both and that select does not draw a closed errCh for ever.
THEOREM NoDeadlock == Safety => []NeverBothWait
<1> DEFINE Closes == SentInv /\ (reader = "done" => chunkClosed)
<1>1. Init => Closes
  BY SentInit DEF Init
<1>2. Closes /\ [Next]_vars => Closes'
  <2> SUFFICES ASSUME Closes, [Next]_vars
               PROVE  (reader = "done" => chunkClosed)'
    BY SentStep
  <2>1. CASE ReaderStep
    BY <2>1 DEF ReaderStep, OpenFile, ReadFails, ReadChunk, PutChunk, ReadEOF, CloseErr,
                CloseChunk
  <2>2. CASE StartSend
    BY <2>2 DEF StartSend
  <2>3. CASE SenderStep /\ ~StartSend
    BY <2>3 DEF SenderStep, SelectChunk, SelectClosed, SelectErr, WriteChunk, WriteFails,
                Flush, FlushFails, Complete, Fail, readerVars, chanVars
  <2>4. CASE UNCHANGED vars
    BY <2>4 DEF vars
  <2> QED
    BY <2>1, <2>2, <2>3, <2>4 DEF Next
<1>3. Closes => NeverBothWait
  <2> SUFFICES ASSUME Closes
               PROVE  NeverBothWait
    OBVIOUS
  <2>1. reader \in ReaderPC /\ sender \in SenderPC /\ Control
    BY DEF SentInv, OrderInv, Inv, TypeOK
  <2>2. sender = "done" => peerState = "Completed" \/ peerState = "Failed"
    BY <2>1 DEF Control
  <2>3. reader = "put" => sender # "start" /\ sender \notin {"flush", "complete"}
                          /\ peerState # "Completed"
    BY <2>1 DEF Control, SentInv
  <2> QED
    BY <2>1, <2>2, <2>3 DEF NeverBothWait, Control, ReaderPC, SenderPC
<1> QED
  BY <1>1, <1>2, <1>3, PTL DEF Safety

------------------------------------------------------------------------------
(* Refinement                                                              *)

LEMMA RefineInit == Init => Delivery!Init
  BY DEF Init, Outcome, Delivery!Init

\* Chunks leave one way, and never more than the file has.
LEMMA WireBounded ==
  ASSUME OrderInv, OrderInv', WriteChunk \/ WriteFails \/ Flush \/ FlushFails
  PROVE  Len(wire) \in Nat /\ Len(wire') \in Len(wire)..NumChunks
<1>1. /\ Len(wire) \in Nat /\ Len(wire') \in Nat /\ Len(wire) <= Len(wire')
      /\ Len(buffered') \in Nat /\ Len(buffered) \in Nat
      /\ Written' = Written \/ (Written' = Written + 1 /\ sender = "write")
  <2>1. wire \in Seq(0..NumChunks) /\ buffered \in Seq(0..NumChunks)
    BY DEF OrderInv, Inv, TypeOK
  <2>2. CASE WriteChunk \/ WriteFails
    BY <2>1, <2>2, WriteGrows DEF WriteChunk, WriteFails
  <2>3. CASE Flush \/ FlushFails
    BY <2>1, <2>3, FlushKeeps
  <2> QED
    BY <2>2, <2>3
<1>2. /\ Written + InFlight = nextRead /\ nextRead \in 0..NumChunks
      /\ Len(held) \in Nat /\ Len(chunkCh) \in Nat
      /\ sender = "write" => held # <<>> /\ held \in Seq(0..NumChunks) /\ Len(held) <= 1
  <2>0. sender \in {"write", "flush"} /\ peerState # "Failed"
    BY DEF OrderInv, Inv, Control, WriteChunk, WriteFails, Flush, FlushFails
  <2>1. /\ Written + InFlight = nextRead /\ nextRead \in 0..NumChunks
        /\ Len(held) \in Nat /\ Len(chunkCh) \in Nat
    <3>1. Written + InFlight = nextRead
      BY <2>0 DEF OrderInv, ChunksInOrder
    <3>2. /\ held \in Seq(0..NumChunks) /\ chunkCh \in Seq(0..NumChunks)
          /\ nextRead \in 0..NumChunks
      BY DEF OrderInv, Inv, TypeOK
    <3> QED
      BY <3>1, <3>2, LenProperties
  <2>2. sender = "write" => held # <<>> /\ held \in Seq(0..NumChunks) /\ Len(held) <= 1
    <3>1. held \in Seq(0..NumChunks) /\ Len(held) <= 1
      BY DEF OrderInv, Inv, TypeOK
    <3>2. sender = "write" => held # <<>>
      BY DEF OrderInv, Inv, Control
    <3> QED
      BY <3>1, <3>2
  <2> QED
    BY <2>1, <2>2
<1>3. sender = "write" => Len(held) = 1
  BY <1>2, OneElement
<1>4. Written' <= nextRead
  BY <1>1, <1>2, <1>3 DEF InFlight, Written
<1> QED
  BY <1>1, <1>2, <1>4 DEF Written

LEMMA RefineStep ==
  ASSUME SentInv, SentInv', [Next]_vars
  PROVE  [Delivery!Next]_(Delivery!vars)
<1> USE DEF Delivery!Next, Delivery!vars, Outcome
<1>1. Control
  BY DEF SentInv, OrderInv, Inv
<1>2. CASE WriteChunk \/ WriteFails \/ Flush \/ FlushFails
  <2>1. Len(wire) \in Nat /\ Len(wire') \in Len(wire)..NumChunks
    BY <1>2, WireBounded DEF SentInv
  <2>2. peerState = "InProgress" /\ peerState' = peerState
    BY <1>1, <1>2 DEF WriteChunk, WriteFails, Flush, FlushFails, peerVars, Control,
                      SentInv, OrderInv, Inv, TypeOK
  <2>3. Len(wire') = Len(wire) \/ Len(wire') \in (Len(wire) + 1)..NumChunks
    BY <2>1
  <2> QED
    BY <2>2, <2>3 DEF Delivery!Deliver
<1>3. CASE StartSend
  BY <1>1, <1>3 DEF StartSend, outVars, Control, Delivery!Start
<1>4. CASE Complete
  <2>1. Len(wire) = nextRead /\ nextRead \in 0..NumChunks
    BY <1>4, SentAtEnd DEF Complete, SentInv, OrderInv, Inv, TypeOK
  <2>2. /\ peerState = "InProgress" /\ peerState' = "Completed"
        /\ UNCHANGED <<wire, nextRead>>
    BY <1>1, <1>4 DEF Complete, outVars, readerVars, Control, SentInv, OrderInv, Inv, TypeOK
  <2>3. CASE nextRead = NumChunks
    BY <2>1, <2>2, <2>3 DEF Delivery!Complete
  <2>4. CASE nextRead < NumChunks
    BY <2>1, <2>2, <2>4 DEF Delivery!Fail
  <2> QED
    BY <2>1, <2>3, <2>4
<1>5. CASE Fail
  BY <1>1, <1>5 DEF Fail, outVars, Control, Delivery!Fail, SentInv, OrderInv, Inv, TypeOK
<1>6. CASE ReaderStep \/ SelectChunk \/ SelectClosed \/ SelectErr \/ UNCHANGED vars
  <2>1. /\ UNCHANGED <<wire, peerState>>
        /\ peerState = "Completed" => nextRead' = nextRead
    BY <1>6 DEF SentInv, readerVars, ReaderStep, OpenFile, ReadFails, ReadChunk, PutChunk, ReadEOF,
                CloseErr, CloseChunk, SelectChunk, SelectClosed, SelectErr, vars,
                outVars, peerVars
  <2> QED
    BY <2>1
<1> QED
  BY <1>2, <1>3, <1>4, <1>5, <1>6 DEF Next, SenderStep

\* SendToPeer, its reader, its channels and its buffered writer do what
\* ChunkDelivery promises, a call that could not read its file counted as failed.
THEOREM Implements == Safety => Delivery!Safety
<1>1. SentInv /\ [Next]_vars => SentInv'
  BY SentStep
<1>2. SentInv /\ SentInv' /\ [Next]_vars => [Delivery!Next]_(Delivery!vars)
  BY RefineStep
<1> QED
  BY SentInit, RefineInit, <1>1, <1>2, PTL DEF Safety, Delivery!Safety

------------------------------------------------------------------------------
(* Both sides                                                              *)

USE FileTransferAssumption

\* A step of the system is a step of the host's part, or leaves it alone.
LEMMA HostStep == [SystemNext]_systemVars => [Next]_vars
  BY DEF SystemNext, systemVars, vars

\* The connection only grows, and its chunks are 1, 2, 3 and so on.
LEMMA WireGrows ==
  ASSUME OrderInv, [Next]_vars
  PROVE  Len(wire) \in Nat /\ Len(wire') \in Nat /\ Len(wire) <= Len(wire')
<1>1. wire \in Seq(0..NumChunks) /\ wire' \in Seq(0..NumChunks)
  BY OrderStep DEF OrderInv, Inv, TypeOK
<1>2. CASE WriteChunk \/ WriteFails
  BY <1>1, <1>2, WriteGrows
<1>3. CASE Flush \/ FlushFails
  BY <1>1, <1>3, FlushKeeps
<1>4. CASE ~(WriteChunk \/ WriteFails \/ Flush \/ FlushFails)
  <2>1. wire' = wire
    BY <1>4 DEF Next, ReaderStep, OpenFile, ReadFails, ReadChunk, PutChunk, ReadEOF, CloseErr,
                CloseChunk, SenderStep, StartSend, SelectChunk, SelectClosed, SelectErr,
                Complete, Fail, vars, outVars
  <2> QED
    BY <1>1, <2>1
<1> QED
  BY <1>2, <1>3, <1>4

\* What readLoop takes next is the chunk of that number, and there is one.
LEMMA TakenInOrder ==
  ASSUME OrderInv, taken \in 0..Len(wire), taken < Len(wire)
  PROVE  Taking = taken + 1 /\ taken + 1 \in 1..NumChunks
<1>1. wire \in Seq(0..NumChunks) /\ Consecutive(wire, 0) /\ Len(wire) \in Nat
  BY DEF OrderInv, Inv, TypeOK, ChunksInOrder
<1>2. taken + 1 \in 1..Len(wire) /\ taken \in Nat
  BY <1>1
<1>3. wire[taken + 1] = 0 + (taken + 1) /\ wire[taken + 1] \in 0..NumChunks
  BY <1>1, <1>2 DEF Consecutive
<1> QED
  BY <1>2, <1>3 DEF Taking

------------------------------------------------------------------------------
(* Files under their real names                                            *)

\* While the writer is registered the file holds all that was taken, and none
\* of it reaches the offered size; a renamed file holds a run of chunks that does.
StoredInv ==
  /\ registered => ~renamed /\ stored = 1..taken /\ shown \in {"nothing", "InProgress"}
  /\ \A c \in stored : ChunkEnd(c) <= fileSize
  /\ renamed => \E n \in 1..NumChunks : stored = 1..n /\ ChunkEnd(n) >= fileSize
  /\ renamed <=> shown = "Completed"
  /\ ~registered => shown \in {"Completed", "Failed"}

TransferInv == OrderInv /\ ReceiverTypeOK /\ StoredInv

LEMMA TransferInit == SystemInit => TransferInv
<1> SUFFICES ASSUME SystemInit
             PROVE  TransferInv
  OBVIOUS
<1>1. OrderInv /\ wire = <<>>
  BY OrderInit DEF SystemInit, Init
<1>2. /\ taken = 0 /\ Len(wire) = 0 /\ stored = {} /\ registered = TRUE /\ renamed = FALSE
      /\ shown = "nothing" /\ link = "up" /\ fileSize \in Sizes /\ readSize \in ReadSizes
  BY <1>1 DEF SystemInit
<1>3. stored = 1..taken
  BY <1>2
<1>4. ReceiverTypeOK
  <2>1. taken \in 0..Len(wire)
    BY <1>2
  <2>2. registered \in BOOLEAN /\ renamed \in BOOLEAN /\ stored \in SUBSET (1..NumChunks)
    BY <1>2
  <2> QED
    BY <1>2, <2>1, <2>2 DEF ReceiverTypeOK
<1>5. StoredInv
  BY <1>2, <1>3 DEF StoredInv
<1> QED
  BY <1>1, <1>4, <1>5 DEF TransferInv

\* A step of readLoop, whose chunk is the next one of the file.
LEMMA ReceiverKeeps ==
  ASSUME TransferInv, ReceiverStep, UNCHANGED vars
  PROVE  ReceiverTypeOK' /\ StoredInv'
<1>1. OrderInv /\ ReceiverTypeOK /\ StoredInv /\ wire' = wire
  BY DEF TransferInv, vars
<1>2. taken < Len(wire) /\ taken' = taken + 1
  BY DEF ReceiverStep, StoreChunk, RefuseChunk, IgnoreChunk, TakeChunk
<1>3. PICK n \in 1..NumChunks : n = taken + 1 /\ Taking = n
  BY <1>1, <1>2, TakenInOrder DEF ReceiverTypeOK
<1>4. taken' \in 0..Len(wire') /\ taken \in Nat
  BY <1>1, <1>2 DEF ReceiverTypeOK, OrderInv, Inv, TypeOK
<1>5. fileSize' = fileSize /\ readSize' = readSize
  BY DEF ReceiverStep, StoreChunk, RefuseChunk, IgnoreChunk
<1>6. CASE StoreChunk
  <2>1. /\ registered /\ InRange(n) /\ stored' = stored \cup {n}
        /\ stored = 1..taken /\ ~renamed
    BY <1>1, <1>3, <1>6 DEF StoreChunk, StoredInv
  <2>2. stored' = 1..n /\ stored' \in SUBSET (1..NumChunks)
    BY <1>3, <1>4, <2>1
  <2>3. \A c \in stored' : ChunkEnd(c)' <= fileSize'
    BY <1>1, <1>5, <2>1 DEF StoredInv, InRange, ChunkEnd
  <2>4. CASE ~EndReached(n)
    <3>1. shown' = "InProgress" /\ UNCHANGED <<registered, renamed, link>>
      BY <1>3, <1>6, <2>4 DEF StoreChunk
    <3>2. ReceiverTypeOK'
      BY <1>1, <1>4, <1>5, <2>2, <3>1 DEF ReceiverTypeOK, ReadSizes
    <3>3. ~renamed' /\ registered' = TRUE /\ stored' = 1..taken'
      BY <1>1, <1>2, <1>3, <2>1, <2>2, <3>1 DEF ReceiverTypeOK
    <3> QED
      BY <2>3, <3>1, <3>2, <3>3 DEF StoredInv
  <2>5. CASE EndReached(n)
    <3>1. FinishTransfer /\ link' = link
      BY <1>3, <1>6, <2>5 DEF StoreChunk
    <3>2. ChunkEnd(n)' >= fileSize'
      BY <1>5, <2>5 DEF EndReached, ChunkEnd
    <3>3. /\ ~registered' /\ shown' \in {"Completed", "Failed"}
          /\ renamed' \in BOOLEAN /\ (renamed' <=> shown' = "Completed")
      <4>1. CASE renamed' = TRUE /\ shown' = "Completed"
        BY <3>1, <4>1 DEF FinishTransfer
      <4>2. CASE shown' = "Failed" /\ renamed' = renamed
        <5>1. renamed' = FALSE
          BY <1>1, <2>1, <4>2 DEF ReceiverTypeOK
        <5> QED
          BY <3>1, <4>2, <5>1 DEF FinishTransfer
      <4> QED
        BY <3>1, <4>1, <4>2 DEF FinishTransfer
    <3>4. \E k \in 1..NumChunks : stored' = 1..k /\ ChunkEnd(k)' >= fileSize'
      BY <2>2, <3>2
    <3>5. StoredInv'
      BY <2>3, <3>3, <3>4 DEF StoredInv
    <3> QED
      BY <1>1, <1>4, <1>5, <2>2, <3>1, <3>3, <3>5 DEF ReceiverTypeOK, ReadSizes, FinishTransfer
  <2> QED
    BY <2>4, <2>5
<1>7. CASE RefuseChunk
  <2>1. registered /\ registered' = FALSE /\ shown' = "Failed"
        /\ UNCHANGED <<link, stored, renamed>>
    BY <1>7 DEF RefuseChunk
  <2>2. ~renamed'
    BY <1>1, <2>1 DEF StoredInv
  <2>3. \A c \in stored' : ChunkEnd(c)' <= fileSize'
    BY <1>1, <1>5, <2>1 DEF StoredInv, ChunkEnd
  <2>4. ReceiverTypeOK'
    BY <1>1, <1>4, <1>5, <2>1 DEF ReceiverTypeOK, ReadSizes
  <2> QED
    BY <2>1, <2>2, <2>3, <2>4 DEF StoredInv
<1>8. CASE IgnoreChunk
  <2>1. ~registered /\ UNCHANGED <<link, registered, stored, renamed, shown>>
    BY <1>8 DEF IgnoreChunk, fileVars
  <2> QED
    BY <1>1, <1>4, <1>5, <2>1 DEF ReceiverTypeOK, StoredInv, ReadSizes, ChunkEnd
<1> QED
  BY <1>6, <1>7, <1>8 DEF ReceiverStep

LEMMA TransferStep == TransferInv /\ [SystemNext]_systemVars => TransferInv'
<1> SUFFICES ASSUME TransferInv, [SystemNext]_systemVars
             PROVE  TransferInv'
  OBVIOUS
<1>1. OrderInv'
  BY HostStep, OrderStep DEF TransferInv
<1>2. CASE ReceiverStep /\ UNCHANGED vars
  BY <1>1, <1>2, ReceiverKeeps DEF TransferInv
<1>3. CASE LinkDown /\ UNCHANGED vars
  BY <1>1, <1>3 DEF TransferInv, LinkDown, vars, fileVars, ReceiverTypeOK, StoredInv, ReadSizes,
                    ChunkEnd
<1>4. CASE [Next]_vars /\ UNCHANGED receiverVars
  <2>1. Len(wire) \in Nat /\ Len(wire') \in Nat /\ Len(wire) <= Len(wire')
    BY <1>4, WireGrows DEF TransferInv
  <2> QED
    BY <1>1, <1>4, <2>1 DEF TransferInv, receiverVars, fileVars, ReceiverTypeOK, StoredInv,
                            ReadSizes, ChunkEnd
<1> QED
  BY <1>2, <1>3, <1>4 DEF SystemNext, systemVars

\* Whatever the offer said, however the file has changed since and whatever
\* fails: a file under its real name is the whole of the offered size.
THEOREM RealNamesWhole == SystemSafety => []RealNameIsWhole
<1>1. TransferInv => RealNameIsWhole
  <2> SUFFICES ASSUME TransferInv, renamed
               PROVE  RealNameIsWhole
    BY DEF RealNameIsWhole
  <2>1. PICK n \in 1..NumChunks : stored = 1..n /\ ChunkEnd(n) >= fileSize
    BY DEF TransferInv, StoredInv
  <2>2. \A c \in stored : ChunkEnd(c) <= fileSize
    BY DEF TransferInv, StoredInv
  <2>3. fileSize \in Nat /\ readSize \in Nat /\ 2 * NumChunks - 1 <= readSize
        /\ readSize <= 2 * NumChunks /\ NumChunks \in Nat
    BY DEF TransferInv, ReceiverTypeOK, ReadSizes
  <2>4. ASSUME NEW u \in 0..(fileSize - 1)
        PROVE  \E c \in stored : ChunkStart(c) <= u /\ u < ChunkEnd(c)
    <3>1. PICK q \in Nat : u = 2 * q \/ u = 2 * q + 1
      <4>1. u \in Nat /\ u \div 2 \in Nat
            /\ (u = 2 * (u \div 2) \/ u = 2 * (u \div 2) + 1)
        BY <2>3
      <4> QED
        BY <4>1
    <3>2. u < ChunkEnd(n) /\ ChunkEnd(n) <= 2 * n /\ n \in Nat
      BY <2>1, <2>3 DEF ChunkEnd
    <3>3. q + 1 \in 1..n
      <4>1. 2 * q < 2 * n
        BY <2>3, <3>1, <3>2 DEF ChunkEnd
      <4> QED
        BY <3>1, <3>2, <4>1
    <3>4. ChunkStart(q + 1) <= u
      BY <3>1 DEF ChunkStart
    <3>5. u < ChunkEnd(q + 1)
      <4>1. CASE q + 1 = n
        BY <3>2, <4>1
      <4>2. CASE q + 1 # n
        BY <2>1, <3>1, <3>2, <3>3, <4>2 DEF ChunkEnd
      <4> QED
        BY <4>1, <4>2
    <3> QED
      BY <2>1, <3>3, <3>4, <3>5
  <2> QED
    BY <2>2, <2>4 DEF RealNameIsWhole
<1> QED
  BY TransferInit, TransferStep, <1>1, PTL DEF SystemSafety

------------------------------------------------------------------------------
(* Refinement                                                              *)

\* Nothing is on the connection before SendToPeer has started.
StartedInv == TransferInv /\ (peerState = "Accepted" => Len(wire) = 0)

LEMMA StartedStep ==
  ASSUME StartedInv, [SystemNext]_systemVars
  PROVE  StartedInv'
<1>1. TransferInv'
  BY TransferStep DEF StartedInv
<1>2. Control
  BY DEF StartedInv, TransferInv, OrderInv, Inv
<1>3. [Next]_vars
  BY HostStep
<1>4. CASE WriteChunk \/ WriteFails \/ Flush \/ FlushFails
  BY <1>1, <1>2, <1>4 DEF StartedInv, Control, WriteChunk, WriteFails, Flush, FlushFails, peerVars
<1>5. CASE StartSend \/ Complete \/ Fail
  BY <1>1, <1>5 DEF StartedInv, StartSend, Complete, Fail
<1>6. CASE ReaderStep \/ SelectChunk \/ SelectClosed \/ SelectErr \/ UNCHANGED vars
  <2>1. UNCHANGED <<wire, peerState>>
    BY <1>6 DEF ReaderStep, OpenFile, ReadFails, ReadChunk, PutChunk, ReadEOF, CloseErr,
                CloseChunk, SelectChunk, SelectClosed, SelectErr, vars, outVars, peerVars
  <2> QED
    BY <1>1, <2>1 DEF StartedInv
<1> QED
  BY <1>3, <1>4, <1>5, <1>6 DEF Next, SenderStep

LEMMA PromiseInit == SystemInit => Promise!Init
  BY DEF SystemInit, Init, Promise!Init, Hopeless, ReadFailed

\* A step of the host's part: its state moves on, or all hope is lost.
LEMMA PromiseHost ==
  ASSUME StartedInv, Next, UNCHANGED receiverVars
  PROVE  [Promise!Next]_(Promise!vars)
<1> USE DEF Promise!Next, Promise!vars
<1>1. Control /\ UNCHANGED <<link, fileSize, readSize, renamed, shown>>
  BY DEF StartedInv, TransferInv, OrderInv, Inv, receiverVars, fileVars
<1>2. peerState \in {"Accepted", "InProgress", "Completed", "Failed"}
  BY DEF StartedInv, TransferInv, OrderInv, Inv, TypeOK
<1>3. CASE StartSend
  BY <1>1, <1>3 DEF StartSend, Control, Promise!HostStarts, Hopeless, ReadFailed
<1>4. CASE Complete \/ Fail
  BY <1>1, <1>2, <1>4 DEF Complete, Fail, readerVars, Control, Promise!HostEnds, Hopeless,
                          ReadFailed
<1>5. CASE ReaderStep
  <2>1. peerState' = peerState
    BY <1>5 DEF ReaderStep, OpenFile, ReadFails, ReadChunk, PutChunk, ReadEOF, CloseErr,
                CloseChunk, peerVars
  <2>2. Hopeless => Hopeless'
    BY <1>1, <1>5 DEF ReaderStep, OpenFile, ReadFails, ReadChunk, PutChunk, ReadEOF, CloseErr,
                      CloseChunk, Hopeless, ReadFailed
  <2> QED
    BY <1>1, <2>1, <2>2 DEF Promise!GiveUp, Hopeless
<1>6. CASE SelectChunk \/ SelectClosed \/ SelectErr \/ WriteChunk \/ WriteFails
           \/ Flush \/ FlushFails
  BY <1>1, <1>6 DEF SelectChunk, SelectClosed, SelectErr, WriteChunk, WriteFails, Flush,
                    FlushFails, readerVars, peerVars, Hopeless, ReadFailed
<1> QED
  BY <1>3, <1>4, <1>5, <1>6 DEF Next, SenderStep

\* A chunk that comes in, or the end of the connection.
LEMMA PromiseReceiver ==
  ASSUME StartedInv, StartedInv', ReceiverStep \/ LinkDown, UNCHANGED vars
  PROVE  [Promise!Next]_(Promise!vars)
<1> USE DEF Promise!Next, Promise!vars
<1>1. UNCHANGED <<peerState, reader, nextRead, wire>>
  BY DEF vars
<1>2. CASE LinkDown
  <2>1. Hopeless' /\ UNCHANGED <<renamed, shown>>
    BY <1>2 DEF LinkDown, Hopeless, fileVars
  <2> QED
    BY <1>1, <2>1 DEF Promise!GiveUp, Hopeless
<1>3. CASE IgnoreChunk
  BY <1>1, <1>3 DEF IgnoreChunk, fileVars, Hopeless, ReadFailed
<1>4. CASE StoreChunk \/ RefuseChunk
  <2>1. Hopeless' = Hopeless
    BY <1>1, <1>4 DEF StoreChunk, RefuseChunk, Hopeless, ReadFailed
  <2>2. peerState # "Accepted"
    <3>1. Len(wire) \in Nat /\ taken \in Nat /\ taken < Len(wire)
      BY <1>4 DEF StoreChunk, RefuseChunk, TakeChunk, StartedInv, TransferInv, ReceiverTypeOK,
                  OrderInv, Inv, TypeOK
    <3> QED
      BY <3>1 DEF StartedInv
  <2>3. registered /\ shown \in {"nothing", "InProgress"}
    BY <1>4 DEF StoreChunk, RefuseChunk, StartedInv, TransferInv, StoredInv
  <2>4. shown' \in {"InProgress", "Completed", "Failed"}
    BY <1>4 DEF StoreChunk, RefuseChunk, FinishTransfer
  <2>5. renamed' = (shown' = "Completed")
    BY DEF StartedInv, TransferInv, StoredInv, ReceiverTypeOK
  <2> QED
    BY <1>1, <2>1, <2>2, <2>3, <2>4, <2>5 DEF Promise!Arrive, Promise!Settled
<1> QED
  BY <1>2, <1>3, <1>4 DEF ReceiverStep

\* The host's stream, the connection and the receiver's writer take no step
\* that FileDelivery does not allow.
THEOREM DeliversFiles == SystemSafety => Promise!Init /\ [][Promise!Next]_(Promise!vars)
<1>1. SystemInit => StartedInv
  BY TransferInit DEF SystemInit, Init, StartedInv
<1>2. StartedInv /\ [SystemNext]_systemVars => StartedInv'
  BY StartedStep
<1>3. StartedInv /\ StartedInv' /\ [SystemNext]_systemVars => [Promise!Next]_(Promise!vars)
  <2>1. ASSUME UNCHANGED systemVars
        PROVE  UNCHANGED Promise!vars
    BY <2>1 DEF systemVars, vars, receiverVars, fileVars, Promise!vars, Hopeless, ReadFailed
  <2> QED
    BY <2>1, PromiseHost, PromiseReceiver DEF SystemNext
<1> QED
  BY PromiseInit, <1>1, <1>2, <1>3, PTL DEF SystemSafety

==============================================================================
