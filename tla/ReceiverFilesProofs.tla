-------------------------- MODULE ReceiverFilesProofs --------------------------
(***************************************************************************)
(* Proofs about what a receiver stores, for any number of offers, files    *)
(* and folders of every size, and whatever the save directory holds.       *)
(***************************************************************************)
EXTENDS ReceiverFiles, TLAPS

LEMMA OffersAre == SizeOf \in [Offers -> Nat] /\ Folders \subseteq Offers /\ Empty \subseteq Folders
  BY ReceiverFilesAssumption

USE OffersAre

------------------------------------------------------------------------------
(* Where the event loop and readLoop stand                                 *)

\* Each of the two has a place, a transfer and the paths it works with.
Shape == /\ DOMAIN pc = {"ui", "loop"}
         /\ \A x \in {"ui", "loop"} : DOMAIN pc[x] = {"at", "of", "path", "folder"}

\* The event loop is with an offer that was not accepted before, or finishes
\* an empty file.
UiControl ==
  /\ pc["ui"].at \in {"idle", "search", "create", "reply"} \cup FinishPC
  /\ ~At("ui", "idle") => pc["ui"].of \in offered \ fileOffers
  /\ pc["ui"].at \in {"search", "create", "reply"} => pc["ui"].of \notin accepts /\ ~closed
  /\ At("ui", "reply") => pc["ui"].of \in fileWriters
  /\ pc["ui"].at \in FinishPC => pc["ui"].of \in accepts /\ SizeOf[pc["ui"].of] = 0

\* readLoop is with a transfer of which a chunk has come.
LoopControl ==
  /\ pc["loop"].at \in {"idle", "write"} \cup FinishPC
  /\ ~At("loop", "idle") => pc["loop"].of \in accepts /\ arrived[pc["loop"].of] >= 1
  /\ At("loop", "write") => pc["loop"].of \in fileWriters \/ closed
  /\ pc["loop"].at \in FinishPC => arrived[pc["loop"].of] = SizeOf[pc["loop"].of]

Control ==
  /\ Shape /\ UiControl /\ LoopControl
  /\ fileOffers \subseteq offered /\ offered \subseteq Offers /\ fileWriters \subseteq Offers
  /\ accepts \subseteq offered \ fileOffers
  /\ arrived \in [Offers -> Nat]
  /\ \A o \in Offers : arrived[o] <= SizeOf[o] /\ (o \notin accepts => arrived[o] = 0)
  /\ told \in [Offers -> {"nothing", "InProgress", "Completed", "Failed"}]
  /\ closed \in BOOLEAN /\ link \in {"up", "down"}

WriterInv == Control /\ AcceptedHasWriter

LEMMA WriterInit == Init => WriterInv
<1> SUFFICES ASSUME Init
             PROVE  WriterInv
  OBVIOUS
<1>1. pc["ui"] = Idle /\ pc["loop"] = Idle /\ Shape
  BY DEF Init, Idle, Shape
<1>2. UiControl /\ LoopControl
  BY <1>1 DEF UiControl, LoopControl, At, Idle, FinishPC
<1>3. /\ fileOffers = {} /\ fileWriters = {} /\ offered = {} /\ accepts = {}
      /\ arrived = [o \in Offers |-> 0] /\ told = [o \in Offers |-> "nothing"]
      /\ closed = FALSE /\ link = "up"
  BY DEF Init
<1>4. ASSUME NEW o \in Offers
      PROVE  arrived[o] = 0 /\ arrived[o] <= SizeOf[o]
  <2>1. arrived[o] = 0 /\ SizeOf[o] \in Nat
    BY <1>3
  <2> QED
    BY <2>1
<1>5. Control
  BY <1>1, <1>2, <1>3, <1>4 DEF Control
<1> QED
  BY <1>3, <1>5 DEF WriterInv, AcceptedHasWriter

\* The steps of the event loop.
LEMMA ControlUi ==
  ASSUME WriterInv,
         \/ \E o \in Offers : RejectTransfer(o) \/ AcceptTransfer(o) \/ AcceptHangs(o)
         \/ AcceptFails \/ Create \/ Reply \/ ReplyFails \/ Close
  PROVE  WriterInv'
<1> USE DEF WriterInv, Control, Shape, UiControl, LoopControl, AcceptedHasWriter, At, FinishPC,
            mapVars, diskVars, netVars, Idle
<1>1. ASSUME NEW o \in Offers, RejectTransfer(o)
      PROVE  WriterInv'
  BY <1>1 DEF RejectTransfer
<1>2. ASSUME NEW o \in Offers, AcceptTransfer(o)
      PROVE  WriterInv'
  BY <1>2 DEF AcceptTransfer
<1>8. ASSUME NEW o \in Offers, AcceptHangs(o)
      PROVE  WriterInv'
  BY <1>8 DEF AcceptHangs
<1>3. CASE AcceptFails
  BY <1>3 DEF AcceptFails, Return
<1>4. CASE Create
  <2>1. /\ pc["ui"].at = "create" /\ fileWriters' = fileWriters \cup {pc["ui"].of}
        /\ pc' = [pc EXCEPT !["ui"].at = "reply"]
        /\ UNCHANGED <<fileOffers, offered, accepts, arrived, link, told, closed>>
    BY <1>4 DEF Create, Goto
  <2> QED
    BY <2>1
<1>5. CASE Reply
  BY <1>5 DEF Reply, Goto, Return
<1>6. CASE ReplyFails
  BY <1>6 DEF ReplyFails, Forget, Return
<1>7. CASE Close
  BY <1>7 DEF Close
<1> QED
  BY <1>1, <1>2, <1>3, <1>4, <1>5, <1>6, <1>7, <1>8

\* Those of readLoop.
LEMMA ControlLoop ==
  ASSUME WriterInv,
         \/ \E o \in Offers : HandleFileOffer(o) \/ HandleChunk(o)
         \/ WriteChunk \/ WriteFails \/ LinkDown
  PROVE  WriterInv'
<1> USE DEF WriterInv, Control, Shape, UiControl, LoopControl, AcceptedHasWriter, At, FinishPC,
            mapVars, diskVars, netVars, Idle
<1>1. ASSUME NEW o \in Offers, HandleFileOffer(o)
      PROVE  WriterInv'
  BY <1>1 DEF HandleFileOffer
<1>2. ASSUME NEW o \in Offers, HandleChunk(o)
      PROVE  WriterInv'
  <2>1. /\ pc["loop"].at = "idle" /\ o \in accepts /\ arrived[o] < SizeOf[o]
        /\ arrived' = [arrived EXCEPT ![o] = @ + 1]
        /\ UNCHANGED <<mapVars, offered, accepts, link, told, closed>>
    BY <1>2 DEF HandleChunk
  <2>2. AcceptedHasWriter' /\ arrived' \in [Offers -> Nat]
    BY <2>1
  <2>3. \A q \in Offers : arrived'[q] <= SizeOf[q] /\ (q \notin accepts => arrived'[q] = 0)
    BY <2>1
  <2>4. CASE o \in fileWriters /\ pc' = [pc EXCEPT !["loop"] = [Idle EXCEPT !.at = "write", !.of = o]]
    <3>1. pc'["loop"].at = "write" /\ pc'["loop"].of = o /\ pc'["ui"] = pc["ui"] /\ Shape'
      BY <2>4
    <3>2. LoopControl' /\ UiControl'
      BY <2>1, <2>4, <3>1
    <3> QED
      BY <2>1, <2>2, <2>3, <3>1, <3>2
  <2>5. CASE pc' = pc
    BY <2>1, <2>2, <2>3, <2>5
  <2> QED
    BY <1>2, <2>4, <2>5 DEF HandleChunk
<1>3. CASE WriteChunk
  BY <1>3 DEF WriteChunk, Tell, EndReached, Goto, Return
<1>4. CASE WriteFails
  BY <1>4 DEF WriteFails, Forget, Tell, Return
<1>5. CASE LinkDown
  BY <1>5 DEF LinkDown
<1> QED
  BY <1>1, <1>2, <1>3, <1>4, <1>5

\* And finishTransfer, on either of them.
LEMMA ControlFinish ==
  ASSUME WriterInv, NEW x \in {"ui", "loop"}, FinishStep(x)
  PROVE  WriterInv'
<1> USE DEF WriterInv, Control, Shape, UiControl, LoopControl, AcceptedHasWriter, At, FinishPC,
            mapVars, diskVars, netVars, Idle
<1>1. CASE BeginFinish(x)
  <2>1. /\ pc[x].at = "forget" /\ fileWriters' = fileWriters \ {pc[x].of}
        /\ UNCHANGED <<fileOffers, netVars, told, closed>>
    BY <1>1 DEF BeginFinish, Forget
  <2>2. PICK p, f : pc' = [pc EXCEPT ![x] = [at |-> "rename", of |-> pc[x].of,
                                             path |-> p, folder |-> f]]
    BY <1>1 DEF BeginFinish
  <2>3. /\ Shape' /\ pc'[x].at = "rename" /\ pc'[x].of = pc[x].of
        /\ \A y \in {"ui", "loop"} : y # x => pc'[y] = pc[y]
    BY <2>2
  <2>4. arrived[pc[x].of] = SizeOf[pc[x].of]
    BY <2>1
  <2>5. AcceptedHasWriter'
    BY <2>1, <2>4
  <2>6. UiControl' /\ LoopControl'
    BY <2>1, <2>3
  <2> QED
    BY <2>1, <2>3, <2>5, <2>6
<1>2. CASE \/ Rename(x) \/ RenameFails(x) \/ Extract(x) \/ Extracted(x)
           \/ ExtractNothing(x) \/ ExtractFails(x)
  <2>1. /\ UNCHANGED <<mapVars, netVars, told, closed>> /\ pc[x].at \in FinishPC
        /\ \E a \in FinishPC : pc' = [pc EXCEPT ![x].at = a] /\ a # "forget"
    BY <1>2 DEF Rename, RenameFails, Extract, Extracted, ExtractNothing, ExtractFails, Goto
  <2> QED
    BY <2>1
<1>3. CASE Report(x)
  <2>1. /\ pc[x].at \in FinishPC /\ pc' = [pc EXCEPT ![x] = Idle]
        /\ UNCHANGED <<fileOffers, fileWriters, netVars, closed>>
        /\ told' = told \/ \E s \in {"Completed", "Failed"} : told' = [told EXCEPT ![pc[x].of] = s]
    BY <1>3 DEF Report, Tell, Return
  <2>2. arrived[pc[x].of] = SizeOf[pc[x].of] /\ pc[x].of \in Offers
    BY <2>1
  <2>3. AcceptedHasWriter' /\ told' \in [Offers -> {"nothing", "InProgress", "Completed", "Failed"}]
    BY <2>1, <2>2
  <2>4. /\ Shape' /\ pc'[x] = Idle
        /\ \A y \in {"ui", "loop"} : y # x => pc'[y] = pc[y]
    BY <2>1
  <2>5. UiControl' /\ LoopControl'
    BY <2>1, <2>4
  <2> QED
    BY <2>1, <2>3, <2>4, <2>5
<1> QED
  BY <1>1, <1>2, <1>3 DEF FinishStep

LEMMA WriterStep == WriterInv /\ [Next]_vars => WriterInv'
<1> SUFFICES ASSUME WriterInv, [Next]_vars
             PROVE  WriterInv'
  OBVIOUS
<1>1. CASE UNCHANGED vars
  BY <1>1 DEF vars, mapVars, diskVars, netVars, WriterInv, Control, Shape, UiControl,
              LoopControl, AcceptedHasWriter, At
<1>2. CASE Next
  BY <1>2, ControlUi, ControlLoop, ControlFinish DEF Next, UiStep, LoopStep
<1> QED
  BY <1>1, <1>2

\* The host sends only what the receiver can store: whatever is accepted and
\* rejected, and whichever step fails, an accepted transfer whose chunks are
\* still to come has its writer.
THEOREM AcceptedCanBeStored == Safety => []AcceptedHasWriter
<1>1. WriterInv => AcceptedHasWriter
  BY DEF WriterInv
<1> QED
  BY WriterInit, WriterStep, <1>1, PTL DEF Safety
------------------------------------------------------------------------------
(* Paths                                                                   *)

\* Whatever the offers are called, what an offer uses are paths, and it has one
\* for the .part file of each of its own.
LEMMA PathsAre ==
  ASSUME NEW o \in Offers
  PROVE  /\ NamesOf(o) \subseteq Paths /\ Artifacts(o) \subseteq Paths /\ Temps(o) \subseteq Paths
         /\ NoPath \notin NamesOf(o) /\ NoPath \notin Artifacts(o)
         /\ \A p \in Artifacts(o) : Part[p] \in Temps(o) /\ Part[p] \notin Artifacts(o)
         /\ o \notin Folders => Artifacts(o) = NamesOf(o)
<1>1. Reach(o) \subseteq Paths /\ Temps(o) \cap Artifacts(o) = {} /\ NoPath \notin Paths
  BY ReceiverFilesAssumption
<1>2. NamesOf(o) \subseteq Paths /\ Artifacts(o) \subseteq Paths /\ Temps(o) \subseteq Paths
  BY <1>1 DEF Reach
<1>3. \A p \in Artifacts(o) : Part[p] \in Temps(o)
  BY DEF Temps
<1>4. o \notin Folders => Artifacts(o) = NamesOf(o)
  BY DEF Artifacts
<1> QED
  BY <1>1, <1>2, <1>3, <1>4

LEMMA NamesAre == NoPath \notin Paths /\ "none" \notin Paths /\ Offers \cap Paths = {}
                  /\ "none" \notin Offers /\ Present \subseteq Paths
  BY ReceiverFilesAssumption

\* uniquePath finds a candidate that is free.
LEMMA UniqueIsFree ==
  ASSUME NEW p, NEW q \in uniquePath(p)
  PROVE  q \in Candidates(p) /\ ~Exists(q)
<1>1. PICK n \in Numbers : q = Numbered[p][n] /\ ~Exists(Numbered[p][n])
  BY DEF uniquePath
<1> QED
  BY <1>1 DEF Candidates

\* So AcceptTransfer chooses paths of its own offer where nothing is.
LEMMA PlansAre ==
  ASSUME NEW o \in Offers, NEW plan \in Plans(o)
  PROVE  /\ plan.path \in Artifacts(o) /\ ~Exists(plan.path)
         /\ o \in Folders => plan.folder \in NamesOf(o) /\ ~Exists(plan.folder)
         /\ o \notin Folders => plan.folder = NoPath
<1>1. CASE o \in Folders
  <2>1. PICK f \in uniquePath(NameOf[o]) : plan \in {[folder |-> f, path |-> p] : p \in uniquePath(Zip[f])}
    BY <1>1 DEF Plans
  <2>2. PICK p \in uniquePath(Zip[f]) : plan = [folder |-> f, path |-> p]
    BY <2>1
  <2>3. f \in NamesOf(o) /\ ~Exists(f) /\ p \in Candidates(Zip[f]) /\ ~Exists(p)
    BY UniqueIsFree DEF NamesOf
  <2>4. Artifacts(o) = UNION {Candidates(Zip[g]) : g \in NamesOf(o)}
    BY <1>1 DEF Artifacts
  <2>5. Candidates(Zip[f]) \in {Candidates(Zip[g]) : g \in NamesOf(o)}
    BY <2>3
  <2>6. p \in Artifacts(o)
    BY <2>3, <2>4, <2>5
  <2> QED
    BY <1>1, <2>2, <2>3, <2>6
<1>2. CASE o \notin Folders
  <2>1. PICK p \in uniquePath(NameOf[o]) : plan = [folder |-> NoPath, path |-> p]
    BY <1>2 DEF Plans
  <2>2. p \in NamesOf(o) /\ ~Exists(p)
    BY UniqueIsFree DEF NamesOf
  <2> QED
    BY <1>2, <2>1, <2>2, PathsAre
<1> QED
  BY <1>1, <1>2

------------------------------------------------------------------------------
(* The save directory, whatever the offers are called                      *)

\* The values of the maps and of the directory.
DiskTypes ==
  /\ savePaths \in [Offers -> Paths \cup {NoPath}]
  /\ dirTransfers \in [Offers -> Paths \cup {NoPath}]
  /\ file \in [Offers -> Inodes \cup {"none"}]
  /\ disk \in [Paths -> Inodes \cup {"none"}]
  /\ folders \in [Paths -> {"none", "half", "whole"}]
  /\ data \in [Inodes -> [Slots -> Offers \cup {"none", "old"}]]

\* The event loop and readLoop work on two transfers, if both do.
Apart == ~At("ui", "idle") /\ ~At("loop", "idle") => pc["ui"].of # pc["loop"].of

LEMMA NeverTheSame == WriterInv => Apart
  BY DEF WriterInv, Control, UiControl, LoopControl, Apart, At, FinishPC

\* The paths x works with are those of its transfer.
WorkFits(x) ==
  LET o == pc[x].of  p == pc[x].path  f == pc[x].folder
  IN  /\ At(x, "create") => p \in Artifacts(o)
      /\ At(x, "rename") => /\ p \in Artifacts(o) \cup {NoPath}
                            /\ f \in NamesOf(o) \cup {NoPath}
                            /\ o \notin fileWriters
      /\ At(x, "extract") \/ At(x, "extracting") => p \in Artifacts(o) /\ f \in NamesOf(o)

\* So are those in the maps.
MapsFit == \A o \in Offers : /\ savePaths[o] \in Artifacts(o) \cup {NoPath}
                             /\ dirTransfers[o] \in NamesOf(o) \cup {NoPath}

WritersOpen == \A o \in fileWriters : savePaths[o] # NoPath /\ file[o] # "none"

\* The old files that no .part file of an offer has the path of.
Untouched == Present \ UNION {Temps(o) : o \in Offers}

\* They are what they were, under no other path, and nobody goes by one.
OldKept == \A p \in Untouched : disk[p] = p /\ data[p] = OldData
OldSafe ==
  /\ OldKept
  /\ \A r \in Paths : disk[r] \in Untouched => disk[r] = r
  /\ \A o \in Offers : file[o] \notin Untouched /\ savePaths[o] \notin Untouched
  /\ \A x \in {"ui", "loop"} : pc[x].path \notin Untouched

SaveInv == /\ WriterInv /\ DiskTypes /\ MapsFit /\ WorkFits("ui") /\ WorkFits("loop")
           /\ WritersOpen /\ OldSafe

LEMMA SaveInit == Init => SaveInv
<1> SUFFICES ASSUME Init
             PROVE  SaveInv
  OBVIOUS
<1>1. WriterInv
  BY WriterInit
<1>2. pc["ui"] = Idle /\ pc["loop"] = Idle /\ \A x \in {"ui", "loop"} : pc[x] = Idle
  BY DEF Init
<1>3. disk \in [Paths -> Inodes \cup {"none"}]
  BY DEF Init, Inodes
<1>4. data \in [Inodes -> [Slots -> Offers \cup {"none", "old"}]]
  <2>1. Holes \in [Slots -> Offers \cup {"none", "old"}] /\ OldData \in [Slots -> Offers \cup {"none", "old"}]
    BY DEF Holes, OldData
  <2> HIDE DEF Slots
  <2> QED
    BY <2>1 DEF Init
<1>5. DiskTypes
  BY <1>3, <1>4 DEF Init, DiskTypes
<1>6. MapsFit /\ WritersOpen
  BY DEF Init, MapsFit, WritersOpen
<1>7. WorkFits("ui") /\ WorkFits("loop")
  BY <1>2 DEF WorkFits, At, Idle
<1>8. Untouched \subseteq Present /\ Untouched \subseteq Inodes /\ "none" \notin Untouched /\ NoPath \notin Untouched
      /\ Untouched \subseteq Paths
  BY NamesAre DEF Untouched, Inodes
<1>9. OldSafe
  <2>1. OldKept
    BY <1>8 DEF Init, OldKept
  <2>2. \A r \in Paths : disk[r] \in Untouched => disk[r] = r
    BY <1>8 DEF Init
  <2>3. \A o \in Offers : file[o] = "none" /\ savePaths[o] = NoPath
    BY DEF Init
  <2>4. \A x \in {"ui", "loop"} : pc[x].path = NoPath
    BY <1>2 DEF Idle
  <2> QED
    BY <1>8, <2>1, <2>2, <2>3, <2>4 DEF OldSafe
<1> QED
  BY <1>1, <1>5, <1>6, <1>7, <1>9 DEF SaveInv

\* Nothing of an old file that is left alone is a path of a transfer.
LEMMA UntouchedAre ==
  /\ Untouched \subseteq Present /\ Untouched \subseteq Inodes /\ Untouched \subseteq Paths
  /\ "none" \notin Untouched /\ NoPath \notin Untouched /\ Untouched \cap Offers = {}
  /\ \A o \in Offers : Untouched \cap Temps(o) = {}
  BY NamesAre DEF Untouched, Inodes

\* What one goroutine does leaves the other where it is, with its paths.
LEMMA OneMoves ==
  ASSUME SaveInv, NEW x \in {"ui", "loop"},
         \A y \in {"ui", "loop"} : y # x =>
           /\ pc'[y] = pc[y]
           /\ At(y, "rename") /\ pc[y].of \notin fileWriters => pc[y].of \notin fileWriters',
         WorkFits(x)', pc'[x].path \notin Untouched
  PROVE  /\ WorkFits("ui")' /\ WorkFits("loop")'
         /\ \A y \in {"ui", "loop"} : pc'[y].path \notin Untouched
<1>1. ASSUME NEW y \in {"ui", "loop"}, y # x
      PROVE  WorkFits(y)' /\ pc'[y].path \notin Untouched
  <2>1. WorkFits(y) /\ pc[y].path \notin Untouched /\ pc'[y] = pc[y]
    BY <1>1 DEF SaveInv, OldSafe
  <2>2. At(y, "rename") => pc[y].of \notin fileWriters'
    BY <1>1, <2>1 DEF WorkFits
  <2> QED
    BY <2>1, <2>2 DEF WorkFits, At
<1> QED
  BY <1>1

\* Offers, answers, reports, and an extraction that fails: nothing is touched,
\* and whoever moves goes to a place about which nothing is said.
LEMMA SaveQuiet ==
  ASSUME SaveInv, NEW x \in {"ui", "loop"},
         UNCHANGED <<fileWriters, savePaths, dirTransfers, diskVars>>,
         \A y \in {"ui", "loop"} : y # x => pc'[y] = pc[y],
         \/ pc'[x] = pc[x]
         \/ /\ pc'[x].at \in {"idle", "search", "write", "reply", "forget", "completed", "failed"}
            /\ pc'[x].path \in {pc[x].path, NoPath}
  PROVE  DiskTypes' /\ MapsFit' /\ WorkFits("ui")' /\ WorkFits("loop")' /\ WritersOpen' /\ OldSafe'
<1> USE DEF SaveInv, diskVars
<1>1. DiskTypes' /\ MapsFit' /\ WritersOpen'
  BY DEF DiskTypes, MapsFit, WritersOpen
<1>2. WorkFits(x)'
  BY DEF WorkFits, At
<1>3. pc'[x].path \notin Untouched
  BY UntouchedAre DEF OldSafe
<1>4. /\ WorkFits("ui")' /\ WorkFits("loop")'
      /\ \A y \in {"ui", "loop"} : pc'[y].path \notin Untouched
  BY <1>2, <1>3, OneMoves
<1>5. OldSafe'
  BY <1>4 DEF OldSafe, OldKept
<1> QED
  BY <1>1, <1>4, <1>5

LEMMA SaveAccept ==
  ASSUME SaveInv, NEW o \in Offers, AcceptTransfer(o)
  PROVE  DiskTypes' /\ MapsFit' /\ WorkFits("ui")' /\ WorkFits("loop")' /\ WritersOpen' /\ OldSafe'
<1> USE DEF SaveInv
<1>1. PICK plan \in Plans(o) :
        /\ dirTransfers' = [dirTransfers EXCEPT ![o] = plan.folder]
        /\ pc' = [pc EXCEPT !["ui"] = [at |-> "create", of |-> o, path |-> plan.path,
                                       folder |-> NoPath]]
  BY DEF AcceptTransfer
<1>2. UNCHANGED <<fileWriters, savePaths, diskVars>>
  BY DEF AcceptTransfer
<1>3. /\ plan.path \in Artifacts(o) /\ ~Exists(plan.path)
      /\ plan.folder \in NamesOf(o) \cup {NoPath}
  BY PlansAre
<1>4. plan.path \notin Untouched
  <2>1. plan.path \in Untouched => disk[plan.path] = plan.path /\ plan.path # "none"
    BY UntouchedAre DEF OldSafe, OldKept
  <2> QED
    BY <1>3, <2>1 DEF Exists
<1>5. /\ pc'["ui"].at = "create" /\ pc'["ui"].of = o /\ pc'["ui"].path = plan.path
      /\ pc'["loop"] = pc["loop"]
  BY <1>1 DEF WriterInv, Control, Shape
<1>6. WorkFits("ui")'
  BY <1>3, <1>5 DEF WorkFits, At
<1>7. /\ WorkFits("ui")' /\ WorkFits("loop")'
      /\ \A y \in {"ui", "loop"} : pc'[y].path \notin Untouched
  BY <1>2, <1>4, <1>5, <1>6, OneMoves
<1>8. DiskTypes' /\ MapsFit' /\ WritersOpen'
  <2>1. plan.folder \in Paths \cup {NoPath}
    BY <1>3, PathsAre
  <2>2. DiskTypes'
    BY <1>1, <1>2, <2>1 DEF DiskTypes, diskVars
  <2>3. MapsFit'
    BY <1>1, <1>2, <1>3 DEF MapsFit, DiskTypes
  <2> QED
    BY <1>2, <2>2, <2>3 DEF WritersOpen, diskVars
<1>9. OldSafe'
  BY <1>2, <1>7 DEF OldSafe, OldKept, diskVars
<1> QED
  BY <1>7, <1>8, <1>9

\* The .part file is created, over whatever has its path, which is no old file
\* that is to be left alone.
LEMMA SaveCreate ==
  ASSUME SaveInv, Create
  PROVE  DiskTypes' /\ MapsFit' /\ WorkFits("ui")' /\ WorkFits("loop")' /\ WritersOpen' /\ OldSafe'
<1> DEFINE o == pc["ui"].of
           p == pc["ui"].path
           i == Created(o, Part[p])
<1> USE DEF SaveInv
<1>1. /\ At("ui", "create") /\ pc' = [pc EXCEPT !["ui"].at = "reply"]
      /\ disk' = [disk EXCEPT ![Part[p]] = i]
      /\ data' = [data EXCEPT ![i] = Holes]
      /\ file' = [file EXCEPT ![o] = i]
      /\ fileWriters' = fileWriters \cup {o}
      /\ savePaths' = [savePaths EXCEPT ![o] = p]
      /\ UNCHANGED <<dirTransfers, folders>>
  BY DEF Create, Goto
<1>2. o \in Offers /\ o \notin accepts /\ p \in Artifacts(o)
  BY <1>1 DEF WriterInv, Control, UiControl, WorkFits, At
<1>3. Part[p] \in Temps(o) /\ Part[p] \in Paths /\ p \in Paths /\ p # NoPath /\ Part[p] \notin Untouched
  BY <1>2, PathsAre, UntouchedAre
<1>4. i \in Inodes /\ i # "none" /\ i \notin Untouched
  <2>1. disk[Part[p]] \in Inodes \cup {"none"} /\ (disk[Part[p]] \in Untouched => disk[Part[p]] = Part[p])
    BY <1>3 DEF DiskTypes, OldSafe
  <2>2. o \in Inodes /\ o # "none" /\ o \notin Untouched
    BY <1>2, UntouchedAre, NamesAre DEF Inodes
  <2>3. "none" \notin Inodes
    BY NamesAre DEF Inodes
  <2> QED
    BY <1>3, <2>1, <2>2, <2>3 DEF Created
<1> HIDE DEF i
<1>5. /\ pc'["ui"].at = "reply" /\ pc'["ui"].path = p /\ pc'["loop"] = pc["loop"]
  BY <1>1 DEF WriterInv, Control, Shape
<1>6. DiskTypes'
  <2>1. Holes \in [Slots -> Offers \cup {"none", "old"}]
    BY DEF Holes
  <2> HIDE DEF o, p
  <2> QED
    BY <1>1, <1>2, <1>3, <1>4, <2>1 DEF DiskTypes
<1>7. MapsFit' /\ WritersOpen'
  <2> HIDE DEF o, p
  <2> QED
    BY <1>1, <1>2, <1>3, <1>4 DEF DiskTypes, MapsFit, WritersOpen
<1>8. /\ WorkFits("ui")' /\ WorkFits("loop")'
      /\ \A y \in {"ui", "loop"} : pc'[y].path \notin Untouched
  <2>1. WorkFits("ui")'
    BY <1>5 DEF WorkFits, At
  <2>2. At("loop", "rename") => pc["loop"].of # o
    BY <1>2 DEF WriterInv, Control, LoopControl, At
  <2>3. p \notin Untouched
    BY DEF OldSafe
  <2> QED
    BY <1>1, <1>5, <2>1, <2>2, <2>3, OneMoves
<1>9. OldSafe'
  <2>1. OldKept'
    <3>1. ASSUME NEW q \in Untouched
          PROVE  disk'[q] = disk[q] /\ data'[q] = data[q]
      <4> HIDE DEF o, p
      <4> QED
        BY <1>1, <1>3, <1>4, <3>1, UntouchedAre DEF DiskTypes
    <3> QED
      BY <3>1 DEF OldSafe, OldKept
  <2>2. \A r \in Paths : disk'[r] \in Untouched => disk'[r] = r
    <3> HIDE DEF o, p
    <3> QED
      BY <1>1, <1>3, <1>4 DEF OldSafe, DiskTypes
  <2>3. \A q \in Offers : file'[q] \notin Untouched /\ savePaths'[q] \notin Untouched
    <3>1. p \notin Untouched
      BY DEF OldSafe
    <3> HIDE DEF o, p
    <3> QED
      BY <1>1, <1>2, <1>4, <3>1 DEF OldSafe, DiskTypes
  <2> QED
    BY <1>8, <2>1, <2>2, <2>3 DEF OldSafe
<1> QED
  BY <1>6, <1>7, <1>8, <1>9

\* A transfer is forgotten, or all are.
LEMMA SaveForgets ==
  ASSUME SaveInv, NEW x \in {"ui", "loop"}, NEW o \in Offers,
         \A y \in {"ui", "loop"} : y # x => pc'[y] = pc[y],
         WorkFits(x)', pc'[x].path \notin Untouched,
         UNCHANGED <<disk, folders, data>>,
         file' \in {file, [file EXCEPT ![o] = "none"]},
         fileWriters' = fileWriters \ {o},
         savePaths' = [savePaths EXCEPT ![o] = NoPath],
         dirTransfers' = [dirTransfers EXCEPT ![o] = NoPath]
  PROVE  DiskTypes' /\ MapsFit' /\ WorkFits("ui")' /\ WorkFits("loop")' /\ WritersOpen' /\ OldSafe'
<1> USE DEF SaveInv
<1>1. /\ WorkFits("ui")' /\ WorkFits("loop")'
      /\ \A y \in {"ui", "loop"} : pc'[y].path \notin Untouched
  BY OneMoves
<1>2. DiskTypes' /\ MapsFit'
  BY DEF DiskTypes, MapsFit
<1>4. WritersOpen'
  BY DEF DiskTypes, WritersOpen, WriterInv, Control
<1>3. OldSafe'
  <2>1. \A q \in Offers : file'[q] \notin Untouched /\ savePaths'[q] \notin Untouched
    BY UntouchedAre DEF OldSafe, DiskTypes
  <2> QED
    BY <1>1, <2>1 DEF OldSafe, OldKept
<1> QED
  BY <1>1, <1>2, <1>3, <1>4

LEMMA SaveEnds ==
  ASSUME SaveInv, \/ ReplyFails \/ WriteFails
                  \/ \E x \in {"ui", "loop"} : BeginFinish(x)
  PROVE  DiskTypes' /\ MapsFit' /\ WorkFits("ui")' /\ WorkFits("loop")' /\ WritersOpen' /\ OldSafe'
<1> USE DEF SaveInv, WriterInv, Control, Shape
<1>1. ASSUME NEW x \in {"ui", "loop"}, (x = "ui" /\ ReplyFails) \/ (x = "loop" /\ WriteFails)
      PROVE  DiskTypes' /\ MapsFit' /\ WorkFits("ui")' /\ WorkFits("loop")' /\ WritersOpen' /\ OldSafe'
  <2>1. pc[x].of \in Offers
    BY <1>1 DEF ReplyFails, WriteFails, UiControl, LoopControl, At
  <2>2. /\ Forget(pc[x].of) /\ file' = [file EXCEPT ![pc[x].of] = "none"]
        /\ UNCHANGED <<disk, folders, data>> /\ pc' = [pc EXCEPT ![x] = Idle]
    BY <1>1 DEF ReplyFails, WriteFails, Return
  <2>3. pc'[x] = Idle /\ \A y \in {"ui", "loop"} : y # x => pc'[y] = pc[y]
    BY <2>2
  <2>4. WorkFits(x)' /\ pc'[x].path \notin Untouched
    BY <2>3, UntouchedAre DEF WorkFits, At, Idle
  <2> QED
    BY <2>1, <2>2, <2>3, <2>4, SaveForgets DEF Forget
<1>2. ASSUME NEW x \in {"ui", "loop"}, BeginFinish(x)
      PROVE  DiskTypes' /\ MapsFit' /\ WorkFits("ui")' /\ WorkFits("loop")' /\ WritersOpen' /\ OldSafe'
  <2> DEFINE o == pc[x].of
  <2>1. o \in Offers
    BY <1>2 DEF BeginFinish, UiControl, LoopControl, At
  <2>2. /\ Forget(o) /\ UNCHANGED <<file, disk, folders, data>>
        /\ pc' = [pc EXCEPT ![x] = [at |-> "rename", of |-> o, path |-> savePaths[o],
                                    folder |-> dirTransfers[o]]]
    BY <1>2 DEF BeginFinish, diskVars
  <2>3. /\ pc'[x].at = "rename" /\ pc'[x].of = o /\ pc'[x].path = savePaths[o]
        /\ pc'[x].folder = dirTransfers[o]
        /\ \A y \in {"ui", "loop"} : y # x => pc'[y] = pc[y]
    BY <2>2
  <2>4. savePaths[o] \in Artifacts(o) \cup {NoPath} /\ dirTransfers[o] \in NamesOf(o) \cup {NoPath}
    BY <2>1 DEF MapsFit
  <2>5. WorkFits(x)' /\ pc'[x].path \notin Untouched
    BY <2>1, <2>2, <2>3, <2>4 DEF WorkFits, At, OldSafe, Forget
  <2> QED
    BY <2>1, <2>2, <2>3, <2>5, SaveForgets DEF Forget
<1> QED
  BY <1>1, <1>2

LEMMA SaveClose ==
  ASSUME SaveInv, Close
  PROVE  DiskTypes' /\ MapsFit' /\ WorkFits("ui")' /\ WorkFits("loop")' /\ WritersOpen' /\ OldSafe'
<1> USE DEF SaveInv
<1>1. /\ file' = [o \in Offers |-> IF o \in fileWriters THEN "none" ELSE file[o]]
      /\ fileWriters' = {}
      /\ savePaths' = [o \in Offers |-> NoPath]
      /\ dirTransfers' = [o \in Offers |-> NoPath]
      /\ UNCHANGED <<disk, folders, data, pc>>
  BY DEF Close
<1>2. DiskTypes' /\ MapsFit' /\ WritersOpen'
  BY <1>1 DEF DiskTypes, MapsFit, WritersOpen
<1>3. WorkFits("ui")' /\ WorkFits("loop")'
  BY <1>1 DEF WorkFits, At
<1>4. OldSafe'
  BY <1>1, UntouchedAre DEF OldSafe, OldKept
<1> QED
  BY <1>2, <1>3, <1>4

\* A chunk goes into no old file that is to be left alone.
LEMMA SaveWrites ==
  ASSUME SaveInv, WriteChunk
  PROVE  DiskTypes' /\ MapsFit' /\ WorkFits("ui")' /\ WorkFits("loop")' /\ WritersOpen' /\ OldSafe'
<1> DEFINE o == pc["loop"].of
           i == file[o]
<1> USE DEF SaveInv
<1>1. /\ At("loop", "write") /\ i # "none"
      /\ data' = [data EXCEPT ![i][arrived[o]] = o]
      /\ UNCHANGED <<mapVars, file, disk, folders>>
      /\ pc'["ui"] = pc["ui"] /\ pc'["loop"].at \in {"forget", "idle"}
      /\ pc'["loop"].path \in {pc["loop"].path, NoPath}
  BY DEF WriteChunk, Goto, Return, Idle, WriterInv, Control, Shape
<1>2. o \in Offers
  BY <1>1 DEF WriterInv, Control, LoopControl, At
<1>3. i \in Inodes /\ i \notin Untouched
  BY <1>1, <1>2 DEF DiskTypes, OldSafe
<1> HIDE DEF o, i
<1>4. /\ \A j \in Inodes : j # i => data'[j] = data[j]
      /\ data'[i] = [data[i] EXCEPT ![arrived[o]] = o]
      /\ data[i] \in [Slots -> Offers \cup {"none", "old"}]
  BY <1>1, <1>3 DEF DiskTypes
<1>5. DiskTypes'
  <2>1. data'[i] \in [Slots -> Offers \cup {"none", "old"}]
    BY <1>2, <1>4
  <2> QED
    BY <1>1, <1>3, <1>4, <2>1 DEF DiskTypes, mapVars
<1>6. MapsFit' /\ WritersOpen'
  BY <1>1 DEF MapsFit, WritersOpen, mapVars
<1>7. WorkFits("loop")' /\ pc'["loop"].path \notin Untouched
  BY <1>1, UntouchedAre DEF WorkFits, At, OldSafe
<1>8. /\ WorkFits("ui")' /\ WorkFits("loop")'
      /\ \A y \in {"ui", "loop"} : pc'[y].path \notin Untouched
  BY <1>1, <1>7, OneMoves DEF mapVars
<1>9. OldSafe'
  <2>1. OldKept'
    BY <1>1, <1>3, <1>4, UntouchedAre DEF OldSafe, OldKept
  <2> QED
    BY <1>1, <1>8, <2>1 DEF OldSafe, mapVars
<1> QED
  BY <1>5, <1>6, <1>8, <1>9

\* A rename takes a .part file and its path, neither of them that of an old
\* file that is to be left alone; an archive that goes is not one either.
LEMMA SaveFinishes ==
  ASSUME SaveInv, NEW x \in {"ui", "loop"},
         Rename(x) \/ RenameFails(x) \/ Extract(x) \/ Extracted(x) \/ ExtractNothing(x)
  PROVE  DiskTypes' /\ MapsFit' /\ WorkFits("ui")' /\ WorkFits("loop")' /\ WritersOpen' /\ OldSafe'
<1> DEFINE o == pc[x].of
           p == pc[x].path
           f == pc[x].folder
<1> USE DEF SaveInv
<1>1. pc[x].at \in {"rename", "extract", "extracting"} /\ pc[x].at \in FinishPC
  BY DEF Rename, RenameFails, Extract, Extracted, ExtractNothing, At, FinishPC
<1>2. o \in Offers
  BY <1>1 DEF WriterInv, Control, UiControl, LoopControl, At
<1>3. p \notin Untouched /\ WorkFits(x)
  BY DEF OldSafe
<1>4. Rename(x) => p \in Artifacts(o) /\ p \in Paths /\ Part[p] \in Paths /\ Part[p] \notin Untouched
  <2>1. Rename(x) => p \in Artifacts(o)
    BY <1>3 DEF Rename, CanRename, WorkFits, At
  <2> QED
    BY <1>2, <2>1, PathsAre, UntouchedAre
<1>5. \/ /\ Rename(x) /\ file' = [file EXCEPT ![o] = "none"] /\ folders' = folders
         /\ disk' = [disk EXCEPT ![p] = disk[Part[p]], ![Part[p]] = "none"]
         /\ disk[Part[p]] # "none" /\ p # NoPath
      \/ /\ RenameFails(x) /\ file' = [file EXCEPT ![o] = "none"] /\ UNCHANGED <<disk, folders>>
      \/ /\ At(x, "extract") \/ At(x, "extracting")
         /\ file' = file /\ disk' \in {disk, [disk EXCEPT ![p] = "none"]}
         /\ \/ folders' = folders
            \/ \E s \in {"half", "whole"} : folders' = [folders EXCEPT ![f] = s]
  BY DEF Rename, RenameFails, Extract, Extracted, ExtractNothing, CanRename
<1>6. /\ UNCHANGED <<mapVars, data>>
      /\ \A y \in {"ui", "loop"} : y # x => pc'[y] = pc[y]
      /\ pc'[x].path = p /\ pc'[x].of = o /\ pc'[x].folder = f
      /\ \/ pc'[x].at \in {"completed", "failed"}
         \/ pc'[x].at = "extract" /\ Rename(x) /\ f # NoPath
         \/ pc'[x].at = "extracting" /\ At(x, "extract")
  <2>1. UNCHANGED <<mapVars, data>>
    BY DEF Rename, RenameFails, Extract, Extracted, ExtractNothing
  <2>2. PICK a : /\ pc' = [pc EXCEPT ![x].at = a]
                 /\ \/ a \in {"completed", "failed"}
                    \/ a = "extract" /\ Rename(x) /\ f # NoPath
                    \/ a = "extracting" /\ At(x, "extract")
    BY DEF Rename, RenameFails, Extract, Extracted, ExtractNothing, Goto
  <2> QED
    BY <2>1, <2>2 DEF WriterInv, Control, Shape
<1>7. WorkFits(x)'
  <2>1. Rename(x) => At(x, "rename")
    BY DEF Rename
  <2> QED
    BY <1>3, <1>4, <1>6, <2>1 DEF WorkFits, At
<1>8. /\ WorkFits("ui")' /\ WorkFits("loop")'
      /\ \A y \in {"ui", "loop"} : pc'[y].path \notin Untouched
  BY <1>3, <1>6, <1>7, OneMoves DEF mapVars
<1>9. MapsFit'
  BY <1>6 DEF MapsFit, mapVars
<1>10. WritersOpen'
  <2>1. Rename(x) \/ RenameFails(x) => o \notin fileWriters
    BY <1>3 DEF WorkFits, Rename, RenameFails, At
  <2>2. At(x, "extract") \/ At(x, "extracting") => ~Rename(x) /\ ~RenameFails(x)
    BY DEF Rename, RenameFails, At
  <2>3. fileWriters \subseteq Offers /\ UNCHANGED <<fileWriters, savePaths>>
    BY <1>6 DEF WriterInv, Control, mapVars
  <2> HIDE DEF o, p, f
  <2> QED
    BY <1>5, <2>1, <2>2, <2>3 DEF WritersOpen, DiskTypes
<1> HIDE DEF o, p, f
<1>11. disk' \in [Paths -> Inodes \cup {"none"}]
  BY <1>4, <1>5 DEF DiskTypes
<1>12. DiskTypes'
  BY <1>2, <1>5, <1>6, <1>11 DEF DiskTypes, mapVars
<1>13. OldSafe'
  <2>1. \A q \in Untouched : disk'[q] = disk[q]
    BY <1>3, <1>4, <1>5, UntouchedAre DEF DiskTypes
  <2>2. OldKept'
    BY <1>6, <2>1 DEF OldSafe, OldKept
  <2>3. \A r \in Paths : disk'[r] \in Untouched => disk'[r] = r
    <3>1. CASE Rename(x)
      <4>1. disk[Part[p]] \notin Untouched
        BY <1>4, <3>1 DEF OldSafe
      <4>2. \A r \in Paths : disk'[r] \in {disk[r], disk[Part[p]], "none"}
        BY <1>4, <1>5 DEF DiskTypes
      <4>3. \A r \in Paths : r # p /\ r # Part[p] => disk'[r] = disk[r]
        BY <1>5 DEF DiskTypes
      <4> QED
        BY <4>1, <4>2, <4>3, UntouchedAre DEF OldSafe
    <3>2. CASE disk' \in {disk, [disk EXCEPT ![p] = "none"]}
      BY <3>2, UntouchedAre DEF OldSafe, DiskTypes
    <3> QED
      BY <1>5, <3>1, <3>2
  <2>4. ASSUME NEW q \in Offers
        PROVE  file'[q] \notin Untouched /\ savePaths'[q] \notin Untouched
    <3>1. file'[q] \in {file[q], "none"}
      BY <1>5 DEF DiskTypes
    <3>2. savePaths' = savePaths
      BY <1>6 DEF mapVars
    <3> QED
      BY <3>1, <3>2, UntouchedAre DEF OldSafe
  <2> QED
    BY <1>8, <2>2, <2>3, <2>4 DEF OldSafe
<1> QED
  BY <1>8, <1>9, <1>10, <1>12, <1>13

LEMMA SaveStep == SaveInv /\ [Next]_vars => SaveInv'
<1> SUFFICES ASSUME SaveInv, [Next]_vars
             PROVE  SaveInv'
  OBVIOUS
<1> DEFINE Kept == /\ DiskTypes' /\ MapsFit' /\ WorkFits("ui")' /\ WorkFits("loop")'
                   /\ WritersOpen' /\ OldSafe'
<1>1. WriterInv' /\ Shape
  BY WriterStep DEF SaveInv, WriterInv, Control
<1> SUFFICES Kept
  BY <1>1 DEF SaveInv
<1>2. CASE UNCHANGED vars
  BY <1>2, SaveQuiet DEF vars, mapVars
<1>3. CASE LinkDown \/ \E o \in Offers : HandleFileOffer(o) \/ RejectTransfer(o)
  BY <1>3, SaveQuiet DEF LinkDown, HandleFileOffer, RejectTransfer, mapVars
<1>4. CASE AcceptFails \/ Reply \/ \E o \in Offers : AcceptHangs(o)
  <2>1. /\ UNCHANGED <<fileWriters, savePaths, dirTransfers, diskVars>>
        /\ pc'["loop"] = pc["loop"]
        /\ pc'["ui"].at \in {"idle", "search", "forget"}
        /\ pc'["ui"].path \in {pc["ui"].path, NoPath}
    <3>1. AcceptFails \/ Reply => UNCHANGED mapVars /\ UNCHANGED diskVars
      BY DEF AcceptFails, Reply
    <3>2. \A o \in Offers : AcceptHangs(o) =>
            UNCHANGED <<fileWriters, savePaths, dirTransfers>> /\ UNCHANGED diskVars
      BY DEF AcceptHangs
    <3>3. \/ pc' = [pc EXCEPT !["ui"] = Idle]
          \/ pc' = [pc EXCEPT !["ui"].at = "forget"]
          \/ \E o \in Offers : pc' = [pc EXCEPT !["ui"] = [at |-> "search", of |-> o,
                                                           path |-> NoPath, folder |-> NoPath]]
      BY <1>4 DEF AcceptFails, Reply, AcceptHangs, Return, Goto, Idle
    <3>4. UNCHANGED <<fileWriters, savePaths, dirTransfers>> /\ UNCHANGED diskVars
      BY <1>4, <3>1, <3>2 DEF mapVars
    <3>5. /\ pc'["loop"] = pc["loop"]
          /\ pc'["ui"].at \in {"idle", "search", "forget"}
          /\ pc'["ui"].path \in {pc["ui"].path, NoPath}
      BY <1>1, <3>3 DEF Idle, Shape
    <3> QED
      BY <3>4, <3>5
  <2> QED
    BY <2>1, SaveQuiet
<1>5. CASE \E o \in Offers : HandleChunk(o)
  <2>1. /\ UNCHANGED <<fileWriters, savePaths, dirTransfers, diskVars>>
        /\ pc'["ui"] = pc["ui"]
        /\ pc' = pc \/ (pc'["loop"].at = "write" /\ pc'["loop"].path = NoPath)
    BY <1>1, <1>5 DEF HandleChunk, Idle, mapVars, Shape
  <2> QED
    BY <2>1, SaveQuiet
<1>6. ASSUME NEW x \in {"ui", "loop"}, Report(x) \/ ExtractFails(x)
      PROVE  Kept
  <2>1. /\ UNCHANGED <<fileWriters, savePaths, dirTransfers, diskVars>>
        /\ \A y \in {"ui", "loop"} : y # x => pc'[y] = pc[y]
        /\ pc'[x].at \in {"idle", "failed"} /\ pc'[x].path \in {pc[x].path, NoPath}
    <3>1. UNCHANGED mapVars /\ UNCHANGED diskVars
      BY <1>6 DEF Report, ExtractFails
    <3>2. pc' = [pc EXCEPT ![x] = Idle] \/ pc' = [pc EXCEPT ![x].at = "failed"]
      BY <1>6 DEF Report, ExtractFails, Return, Goto
    <3> QED
      BY <1>1, <3>1, <3>2 DEF Idle, mapVars, Shape
  <2> QED
    BY <2>1, SaveQuiet
<1>7. ASSUME NEW x \in {"ui", "loop"}, FinishStep(x)
      PROVE  Kept
  BY <1>6, <1>7, SaveEnds, SaveFinishes DEF FinishStep
<1>8. CASE \/ \E o \in Offers : AcceptTransfer(o)
           \/ Create \/ ReplyFails \/ WriteChunk \/ WriteFails \/ Close
  BY <1>8, SaveAccept, SaveCreate, SaveEnds, SaveWrites, SaveClose
<1> QED
  BY <1>2, <1>3, <1>4, <1>5, <1>7, <1>8 DEF Next, UiStep, LoopStep

LEMMA SaveInvSays == SaveInv => TypeOK /\ OldKept
<1> SUFFICES ASSUME SaveInv
             PROVE  TypeOK
  BY DEF SaveInv, OldSafe
<1> USE DEF SaveInv, WriterInv, Control
<1>1. \A x \in {"ui", "loop"} : At(x, "idle") \/ pc[x].of \in Offers
  BY DEF UiControl, LoopControl, At
<1> QED
  BY <1>1 DEF TypeOK, DiskTypes, UiControl, LoopControl, WritersOpen

\* No variable leaves its range, and a registered writer has its path and its
\* file open, whatever the offers are called.
THEOREM TypeCorrect == Safety => []TypeOK
<1>1. SaveInv => TypeOK
  BY SaveInvSays
<1> QED
  BY <1>1, SaveInit, SaveStep, PTL DEF Safety

\* A file that was in the save directory before stays there with what it holds,
\* even when several offers have its name or derive one path from two names:
\* unless its own path is that of the .part file of an offer.
THEOREM OldFilesStay == Safety => []OldKept
<1>1. SaveInv => OldKept
  BY SaveInvSays
<1> QED
  BY <1>1, SaveInit, SaveStep, PTL DEF Safety

------------------------------------------------------------------------------
(* The save directory, when no two offers come to use one path             *)

\* Under Separate a path belongs to one offer, and a .part file has no other's
\* name, no real one and no old file's.
LEMMA OwnPaths ==
  ASSUME Separate
  PROVE  /\ \A o \in Offers, q \in Offers : o # q =>
              /\ NamesOf(o) \cap NamesOf(q) = {} /\ NamesOf(o) \cap Artifacts(q) = {}
              /\ NamesOf(o) \cap Temps(q) = {} /\ Artifacts(o) \cap Artifacts(q) = {}
              /\ Artifacts(o) \cap Temps(q) = {} /\ Temps(o) \cap Temps(q) = {}
         /\ \A o \in Offers : /\ Temps(o) \cap NamesOf(o) = {} /\ Temps(o) \cap Artifacts(o) = {}
                              /\ Temps(o) \cap Present = {} /\ Temps(o) \cap RealNames = {}
         /\ Untouched = Present
<1>1. ASSUME NEW o \in Offers, NEW q \in Offers, o # q
      PROVE  /\ NamesOf(o) \cap NamesOf(q) = {} /\ NamesOf(o) \cap Artifacts(q) = {}
             /\ NamesOf(o) \cap Temps(q) = {} /\ Artifacts(o) \cap Artifacts(q) = {}
             /\ Artifacts(o) \cap Temps(q) = {} /\ Temps(o) \cap Temps(q) = {}
  <2>1. Reach(o) \cap Reach(q) = {}
    BY <1>1 DEF Separate
  <2> QED
    BY <2>1 DEF Reach
<1>2. ASSUME NEW o \in Offers
      PROVE  /\ Temps(o) \cap NamesOf(o) = {} /\ Temps(o) \cap Artifacts(o) = {}
             /\ Temps(o) \cap Present = {}
  <2>1. Temps(o) \cap Artifacts(o) = {}
    BY ReceiverFilesAssumption
  <2>2. Temps(o) \cap (NamesOf(o) \cup Present) = {}
    BY DEF Separate
  <2>3. Temps(o) \cap NamesOf(o) = {} /\ Temps(o) \cap Present = {}
    BY <2>2
  <2> QED
    BY <2>1, <2>3
<1>3. ASSUME NEW o \in Offers
      PROVE  Temps(o) \cap RealNames = {}
  BY <1>1, <1>2 DEF RealNames
<1>4. Untouched = Present
  BY <1>2 DEF Untouched
<1> QED
  BY <1>1, <1>2, <1>3, <1>4

\* Nothing has been created for the offer yet.
Fresh(o) == o \notin offered \/ o \in fileOffers \/ (At("ui", "create") /\ pc["ui"].of = o)

\* A file of an offer is its .part file, or is whole and not written any more.
Stands(o, p) ==
  /\ ~Fresh(o)
  /\ p \in Temps(o) \/ (p \in Artifacts(o) /\ file[o] = "none" /\ Holds(o, o))

\* What stands in the directory and was not there before belongs to the one
\* offer whose path it has.
Owned ==
  \A p \in Paths : /\ disk[p] \in Offers => Stands(disk[p], p)
                   /\ folders[p] # "none" => \E o \in Offers : ~Fresh(o) /\ p \in NamesOf(o)

\* A path of the offer where no file is, and one where no folder is.
FilePath(o, p) == p \in Artifacts(o) /\ disk[p] = "none"
FolderPath(o, p) == p \in NamesOf(o) /\ folders[p] = "none"

\* The path an offer gets is free, and it has one for its folder if it is one.
Planned(o, p, f) == /\ FilePath(o, p)
                    /\ IF o \in Folders THEN FolderPath(o, f) ELSE f = NoPath

\* The chunks that have been written.
Stored(o) == IF At("loop", "write") /\ pc["loop"].of = o THEN arrived[o] - 1 ELSE arrived[o]

\* An open file is written by its own transfer only, and has its chunks.
Opened ==
  \A o \in Offers :
    file[o] # "none" =>
      /\ file[o] = o /\ ~Fresh(o)
      /\ data[o] = [k \in Slots |-> IF k <= Stored(o) THEN o ELSE "none"]
      /\ arrived[o] < SizeOf[o] => o \in fileWriters

\* What the maps hold of an offer: all of it, or nothing.
Mapped ==
  \A o \in Offers :
    /\ savePaths[o] # NoPath => ~Fresh(o) /\ Planned(o, savePaths[o], dirTransfers[o])
    /\ dirTransfers[o] # NoPath => FolderPath(o, dirTransfers[o])

\* What x is about to do, or has done.
Placed(x) ==
  LET o == pc[x].of  p == pc[x].path  f == pc[x].folder
  IN  /\ At(x, "create") => Planned(o, p, dirTransfers[o])
      /\ pc[x].at \in {"rename", "extract", "extracting", "completed", "failed"} =>
           savePaths[o] = NoPath /\ dirTransfers[o] = NoPath
      /\ At(x, "rename") /\ p # NoPath => Planned(o, p, f)
      /\ At(x, "extract") => FolderPath(o, f)
      /\ At(x, "extract") \/ At(x, "extracting") => disk[p] = o /\ o \in Folders
      /\ At(x, "completed") =>
           IF o \in Folders THEN o \in Empty \/ (f \in NamesOf(o) /\ folders[f] = "whole")
                            ELSE p \in NamesOf(o) /\ disk[p] = o

DiskInv == /\ SaveInv /\ Owned /\ Opened /\ Mapped
           /\ Placed("ui") /\ Placed("loop") /\ CompletedIsOnDisk

LEMMA DiskInit == Init => DiskInv
<1> SUFFICES ASSUME Init
             PROVE  DiskInv
  OBVIOUS
<1>1. SaveInv
  BY SaveInit
<1>2. Owned
  BY NamesAre DEF Init, Owned
<1>3. Opened /\ Mapped /\ CompletedIsOnDisk
  BY DEF Init, Opened, Mapped, CompletedIsOnDisk
<1>4. pc["ui"] = Idle /\ pc["loop"] = Idle
  BY DEF Init
<1>5. Placed("ui") /\ Placed("loop")
  BY <1>4 DEF Placed, At, Idle
<1> QED
  BY <1>1, <1>2, <1>3, <1>5 DEF DiskInv

\* A step that leaves maps and directory alone leaves what is said of them.
LEMMA Quiet ==
  ASSUME DiskInv, UNCHANGED <<fileWriters, savePaths, dirTransfers, diskVars>>,
         \A o \in Offers : Fresh(o)' => Fresh(o),
         \A o \in Offers : file[o] # "none" =>
           /\ Stored(o)' = Stored(o)
           /\ arrived'[o] < SizeOf[o] => arrived[o] < SizeOf[o]
  PROVE  Owned' /\ Opened' /\ Mapped'
<1> USE DEF diskVars, DiskInv
<1>1. \A o \in Offers, p \in Paths : Stands(o, p) => Stands(o, p)'
  BY DEF Stands, Holds
<1>2. Owned'
  BY <1>1 DEF Owned
<1>3. ASSUME NEW o \in Offers, file'[o] # "none"
      PROVE  /\ file'[o] = o /\ ~Fresh(o)'
             /\ data'[o] = [k \in Slots |-> IF k <= Stored(o)' THEN o ELSE "none"]
             /\ arrived'[o] < SizeOf[o] => o \in fileWriters'
  <2>1. /\ file'[o] = o /\ ~Fresh(o)'
        /\ arrived'[o] < SizeOf[o] => o \in fileWriters'
    BY <1>3 DEF Opened
  <2>2. Stored(o)' = Stored(o)
    BY <1>3
  <2>3. data[o] = [k \in Slots |-> IF k <= Stored(o) THEN o ELSE "none"]
    BY <1>3 DEF Opened
  <2>4. data'[o] = [k \in Slots |-> IF k <= Stored(o)' THEN o ELSE "none"]
    BY <2>2, <2>3
  <2> QED
    BY <2>1, <2>4
<1>4. Opened'
  BY <1>3 DEF Opened
<1>5. Mapped'
  BY DEF Mapped, Planned, FilePath, FolderPath
<1> QED
  BY <1>2, <1>4, <1>5

\* So does whoever does not take it, and whoever goes to a place about which
\* nothing is said.
LEMMA PlacedQuiet ==
  ASSUME DiskInv, NEW x \in {"ui", "loop"},
         UNCHANGED <<savePaths, dirTransfers, disk, folders>>,
         \/ pc'[x] = pc[x]
         \/ pc'[x].at \in {"idle", "search", "write", "reply", "forget"}
  PROVE  Placed(x)'
  BY DEF DiskInv, Placed, At, Planned, FilePath, FolderPath

\* Offers, answers and reports.
LEMMA DiskQuiet ==
  ASSUME DiskInv,
         \/ \E o \in Offers : \/ HandleFileOffer(o) \/ RejectTransfer(o)
                              \/ AcceptHangs(o) \/ HandleChunk(o)
         \/ AcceptFails \/ Reply \/ LinkDown
         \/ \E x \in {"ui", "loop"} : Report(x) \/ ExtractFails(x)
         \/ UNCHANGED vars
  PROVE  /\ Owned' /\ Opened' /\ Mapped'
         /\ Placed("ui")' /\ Placed("loop")' /\ CompletedIsOnDisk'
<1> USE DEF DiskInv, SaveInv, WriterInv, Control, Shape
<1>1. CASE \E o \in Offers : HandleFileOffer(o) \/ RejectTransfer(o)
  <2>1. /\ UNCHANGED <<fileWriters, savePaths, dirTransfers, diskVars, pc, arrived, told>>
        /\ \A q \in Offers : Fresh(q)' => Fresh(q)
    BY <1>1 DEF HandleFileOffer, RejectTransfer, Fresh, At, netVars
  <2>2. Owned' /\ Opened' /\ Mapped'
    BY <2>1, Quiet DEF Stored, At
  <2>3. Placed("ui")' /\ Placed("loop")' /\ CompletedIsOnDisk'
    BY <2>1, PlacedQuiet DEF CompletedIsOnDisk, Holds, diskVars
  <2> QED
    BY <2>2, <2>3
<1>2. CASE \E o \in Offers : AcceptHangs(o)
  <2>1. /\ UNCHANGED <<fileWriters, savePaths, dirTransfers, diskVars, arrived, told, offered>>
        /\ pc'["loop"] = pc["loop"] /\ pc'["ui"].at = "search" /\ fileOffers' \subseteq fileOffers
    BY <1>2 DEF AcceptHangs, netVars
  <2>2. Owned' /\ Opened' /\ Mapped'
    BY <2>1, Quiet DEF Stored, At, Fresh
  <2>3. Placed("ui")' /\ Placed("loop")' /\ CompletedIsOnDisk'
    BY <2>1, PlacedQuiet DEF CompletedIsOnDisk, Holds, diskVars
  <2> QED
    BY <2>2, <2>3
<1>3. CASE UNCHANGED vars \/ LinkDown
  <2>1. UNCHANGED <<mapVars, diskVars, pc, arrived, told, offered>>
    BY <1>3 DEF vars, LinkDown, netVars
  <2>2. Owned' /\ Opened' /\ Mapped'
    BY <2>1, Quiet DEF Stored, At, Fresh, mapVars
  <2>3. Placed("ui")' /\ Placed("loop")' /\ CompletedIsOnDisk'
    BY <2>1, PlacedQuiet DEF CompletedIsOnDisk, Holds, diskVars, mapVars
  <2> QED
    BY <2>2, <2>3
<1>4. CASE AcceptFails \/ Reply
  <2>1. /\ UNCHANGED <<mapVars, diskVars, arrived, told, offered>>
        /\ pc'["loop"] = pc["loop"] /\ pc'["ui"].at \in {"idle", "forget"}
    BY <1>4 DEF AcceptFails, Reply, Return, Goto, Idle, netVars
  <2>2. Owned' /\ Opened' /\ Mapped'
    BY <2>1, Quiet DEF Stored, At, Fresh, mapVars
  <2>3. Placed("ui")' /\ Placed("loop")' /\ CompletedIsOnDisk'
    BY <2>1, PlacedQuiet DEF CompletedIsOnDisk, Holds, diskVars, mapVars
  <2> QED
    BY <2>2, <2>3
<1>5. ASSUME NEW o \in Offers, HandleChunk(o)
      PROVE  /\ Owned' /\ Opened' /\ Mapped'
             /\ Placed("ui")' /\ Placed("loop")' /\ CompletedIsOnDisk'
  <2>1. /\ UNCHANGED <<mapVars, diskVars, told, offered>> /\ pc'["ui"] = pc["ui"]
        /\ At("loop", "idle") /\ arrived[o] < SizeOf[o]
        /\ arrived' = [arrived EXCEPT ![o] = @ + 1] /\ arrived[o] \in Nat
        /\ \/ o \in fileWriters /\ pc'["loop"].at = "write" /\ pc'["loop"].of = o
           \/ o \notin fileWriters /\ pc' = pc
    BY <1>5 DEF HandleChunk, Idle
  <2>2. \A q \in Offers : file[q] # "none" =>
          /\ Stored(q)' = Stored(q)
          /\ arrived'[q] < SizeOf[q] => arrived[q] < SizeOf[q]
    <3>1. file[o] # "none" => o \in fileWriters
      BY <2>1 DEF Opened
    <3>2. SizeOf[o] \in Nat
      OBVIOUS
    <3> QED
      BY <2>1, <3>1, <3>2 DEF Stored, At
  <2>3. Owned' /\ Opened' /\ Mapped'
    BY <2>1, <2>2, Quiet DEF Fresh, At, mapVars
  <2>4. Placed("ui")' /\ Placed("loop")' /\ CompletedIsOnDisk'
    BY <2>1, PlacedQuiet DEF CompletedIsOnDisk, Holds, diskVars, mapVars
  <2> QED
    BY <2>3, <2>4
<1>6. ASSUME NEW x \in {"ui", "loop"}, Report(x) \/ ExtractFails(x)
      PROVE  /\ Owned' /\ Opened' /\ Mapped'
             /\ Placed("ui")' /\ Placed("loop")' /\ CompletedIsOnDisk'
  <2>1. /\ UNCHANGED <<mapVars, diskVars, arrived, offered>>
        /\ \A y \in {"ui", "loop"} : y # x => pc'[y] = pc[y]
    BY <1>6 DEF Report, ExtractFails, Return, Goto, netVars
  <2>2. \/ Report(x) /\ pc'[x].at = "idle"
        \/ /\ At(x, "extract") \/ At(x, "extracting")
           /\ pc'[x].at = "failed" /\ pc'[x].of = pc[x].of /\ told' = told
    <3>1. CASE Report(x)
      BY <3>1 DEF Report, Return, Idle
    <3>2. CASE ExtractFails(x)
      BY <3>2 DEF ExtractFails, Goto, At
    <3> QED
      BY <1>6, <3>1, <3>2
  <2>3. Owned' /\ Opened' /\ Mapped'
    <3>1. pc[x].at \in FinishPC /\ pc'[x].at \notin {"create", "write"}
      BY <1>6, <2>2 DEF Report, ExtractFails, At, FinishPC
    <3>2. \A q \in Offers : Fresh(q)' => Fresh(q)
      BY <2>1, <3>1 DEF Fresh, At, FinishPC, mapVars
    <3>3. \A q \in Offers : Stored(q)' = Stored(q)
      BY <2>1, <3>1 DEF Stored, At, FinishPC
    <3> QED
      BY <2>1, <3>2, <3>3, Quiet DEF mapVars
  <2>4. Placed(x)'
    <3>1. CASE pc'[x].at = "idle"
      BY <2>1, <3>1, PlacedQuiet DEF mapVars, diskVars
    <3>2. CASE pc'[x].at = "failed"
      BY <2>1, <2>2, <3>2 DEF Placed, At, mapVars, diskVars
    <3> QED
      BY <2>2, <3>1, <3>2
  <2>5. Placed("ui")' /\ Placed("loop")'
    BY <2>1, <2>4, PlacedQuiet DEF mapVars, diskVars
  <2>6. ASSUME NEW o \in Offers \ Empty, told'[o] = "Completed"
        PROVE  IF o \in Folders THEN \E p \in NamesOf(o) : folders[p] = "whole"
                                ELSE \E p \in NamesOf(o) : disk[p] = o /\ Holds(o, o)
    <3>1. CASE told[o] = "Completed"
      BY <3>1 DEF CompletedIsOnDisk
    <3>2. CASE told[o] # "Completed"
      <4>1. At(x, "completed") /\ pc[x].of = o
        BY <1>6, <2>2, <2>6, <3>2 DEF Report, Tell, At
      <4>2. Placed(x)
        OBVIOUS
      <4>3. CASE o \in Folders
        BY <4>1, <4>2, <4>3 DEF Placed, At
      <4>4. CASE o \notin Folders
        <5>1. pc[x].path \in NamesOf(o) /\ disk[pc[x].path] = o
          BY <4>1, <4>2, <4>4 DEF Placed, At
        <5>2. pc[x].path \in Paths /\ NamesOf(o) = Artifacts(o) /\ pc[x].path \notin Temps(o)
          BY <4>4, <5>1, PathsAre, ReceiverFilesAssumption
        <5>3. Holds(o, o)
          BY <5>1, <5>2 DEF Owned, Stands
        <5> QED
          BY <4>4, <5>1, <5>3
      <4> QED
        BY <4>3, <4>4
    <3> QED
      BY <3>1, <3>2
  <2>7. CompletedIsOnDisk'
    BY <2>1, <2>6 DEF CompletedIsOnDisk, Holds, diskVars
  <2> QED
    BY <2>3, <2>5, <2>7
<1> QED
  BY <1>1, <1>2, <1>3, <1>4, <1>5, <1>6

LEMMA DiskAccept ==
  ASSUME DiskInv, NEW o \in Offers, AcceptTransfer(o)
  PROVE  /\ Owned' /\ Opened' /\ Mapped'
         /\ Placed("ui")' /\ Placed("loop")' /\ CompletedIsOnDisk'
<1> USE DEF DiskInv, SaveInv, WriterInv, Control, Shape
<1>1. PICK plan \in Plans(o) :
        /\ dirTransfers' = [dirTransfers EXCEPT ![o] = plan.folder]
        /\ pc' = [pc EXCEPT !["ui"] = [at |-> "create", of |-> o, path |-> plan.path,
                                       folder |-> NoPath]]
  BY DEF AcceptTransfer
<1>2. /\ At("ui", "idle") /\ o \in fileOffers /\ fileOffers' = fileOffers \ {o}
      /\ UNCHANGED <<fileWriters, savePaths, diskVars, offered, accepts, arrived, told>>
  BY DEF AcceptTransfer, netVars
<1>3. /\ pc'["ui"].at = "create" /\ pc'["ui"].of = o /\ pc'["ui"].path = plan.path
      /\ pc'["loop"] = pc["loop"]
  BY <1>1
<1>4. Fresh(o) /\ \A q \in Offers : Fresh(q)' => Fresh(q)
  BY <1>2, <1>3 DEF Fresh, At
<1>5. \A q : ~Exists(q) => disk[q] = "none" /\ folders[q] = "none"
  BY DEF Exists
<1>6. Planned(o, plan.path, plan.folder)
  BY <1>5, PlansAre DEF Planned, FilePath, FolderPath
<1>7. plan.folder # NoPath => FolderPath(o, plan.folder)
  BY <1>6, PlansAre DEF Planned
<1>8. Owned'
  <2>1. \A q \in Offers, p \in Paths : Stands(q, p) => Stands(q, p)'
    BY <1>2, <1>4 DEF Stands, Holds, diskVars
  <2> QED
    BY <1>2, <1>4, <2>1 DEF Owned, diskVars
<1>9. Opened'
  <2> SUFFICES ASSUME NEW q \in Offers, file'[q] # "none"
               PROVE  /\ file'[q] = q /\ ~Fresh(q)'
                      /\ data'[q] = [k \in Slots |-> IF k <= Stored(q)' THEN q ELSE "none"]
                      /\ arrived'[q] < SizeOf[q] => q \in fileWriters'
    BY DEF Opened
  <2>1. Stored(q)' = Stored(q)
    BY <1>2, <1>3 DEF Stored, At
  <2> QED
    BY <1>2, <1>4, <2>1 DEF Opened, diskVars
<1>10. Mapped'
  <2>1. savePaths[o] = NoPath
    BY <1>4 DEF Mapped
  <2> SUFFICES ASSUME NEW q \in Offers
               PROVE  /\ savePaths'[q] # NoPath =>
                           ~Fresh(q)' /\ Planned(q, savePaths[q], dirTransfers[q])'
                      /\ dirTransfers'[q] # NoPath => FolderPath(q, dirTransfers[q])'
    BY DEF Mapped
  <2>2. CASE q = o
    <3>1. dirTransfers'[q] = plan.folder /\ savePaths'[q] = NoPath
      BY <1>1, <1>2, <2>1, <2>2 DEF DiskTypes
    <3> QED
      BY <1>2, <1>7, <2>2, <3>1 DEF FolderPath, diskVars
  <2>3. CASE q # o
    <3>1. dirTransfers'[q] = dirTransfers[q] /\ savePaths'[q] = savePaths[q]
      BY <1>1, <1>2, <2>3 DEF DiskTypes
    <3> QED
      BY <1>2, <1>4, <3>1 DEF Mapped, Planned, FilePath, FolderPath, diskVars
  <2> QED
    BY <2>2, <2>3
<1>11. Placed("ui")'
  <2>1. dirTransfers'[o] = plan.folder
    BY <1>1 DEF DiskTypes
  <2>2. Planned(o, plan.path, plan.folder)'
    BY <1>2, <1>6 DEF Planned, FilePath, FolderPath, diskVars
  <2>3. Planned(pc["ui"].of, pc["ui"].path, dirTransfers[pc["ui"].of])'
    BY <1>3, <2>1, <2>2
  <2> QED
    BY <1>3, <2>3 DEF Placed, At
<1>12. Placed("loop")'
  <2>1. ~At("loop", "idle") => pc["loop"].of # o /\ pc["loop"].of \in Offers
    BY <1>2 DEF LoopControl, At
  <2>2. ~At("loop", "idle") => dirTransfers'[pc["loop"].of] = dirTransfers[pc["loop"].of]
    BY <1>1, <2>1 DEF DiskTypes
  <2> QED
    BY <1>2, <1>3, <2>2 DEF Placed, At, Planned, FilePath, FolderPath, diskVars
<1>13. CompletedIsOnDisk'
  BY <1>2 DEF CompletedIsOnDisk, Holds, diskVars
<1> QED
  BY <1>8, <1>9, <1>10, <1>11, <1>12, <1>13

LEMMA SlotsAreCounted == \A k \in Slots : k \in Nat /\ k >= 1
  BY DEF Slots

\* A file or a folder with a real name is that of one offer, and its chunks
\* stay if nothing writes to it.
LEMMA RealIsWhole ==
  ASSUME DiskInv, Separate, NEW p \in RealNames, NEW o \in Offers, disk[p] = o
  PROVE  p \in Artifacts(o) /\ file[o] = "none" /\ Holds(o, o) /\ ~Fresh(o)
<1>1. p \in Paths
  BY PathsAre DEF RealNames
<1>2. Stands(o, p)
  BY <1>1 DEF DiskInv, Owned
<1> QED
  BY <1>2, OwnPaths DEF Stands

\* The .part file is created: it is new, as nobody else has that path.
LEMMA DiskCreate ==
  ASSUME DiskInv, Separate, Create,
         NEW o, NEW p, o = pc["ui"].of, p = pc["ui"].path
  PROVE  /\ Owned' /\ Opened' /\ Mapped'
         /\ Placed("ui")' /\ Placed("loop")' /\ CompletedIsOnDisk'
         /\ o \in Offers /\ Fresh(o) /\ p \in Artifacts(o)
         /\ disk' = [disk EXCEPT ![Part[p]] = o] /\ data' = [data EXCEPT ![o] = Holes]
<1> USE DEF DiskInv, SaveInv, WriterInv, Control, Shape
<1>1. At("ui", "create") /\ Fresh(o) /\ o \in Offers /\ o \notin accepts /\ arrived[o] = 0
  BY DEF Create, At, Fresh, UiControl
<1>2. /\ Planned(o, p, dirTransfers[o]) /\ p \in Artifacts(o) /\ p \in Paths /\ p # NoPath
      /\ Part[p] \in Temps(o) /\ Part[p] \in Paths
  <2>1. Planned(o, p, dirTransfers[o]) /\ p \in Artifacts(o)
    BY <1>1 DEF Placed, Planned, FilePath
  <2> QED
    BY <1>1, <2>1, PathsAre
<1>3. disk[Part[p]] = "none"
  <2>1. disk[Part[p]] \notin Present
    BY <1>1, <1>2, OwnPaths DEF OldSafe
  <2>2. ASSUME disk[Part[p]] \in Offers
        PROVE  FALSE
    <3>1. Stands(disk[Part[p]], Part[p])
      BY <1>2, <2>2 DEF Owned
    <3>2. disk[Part[p]] = o
      BY <1>1, <1>2, <2>2, <3>1, OwnPaths DEF Stands
    <3> QED
      BY <1>1, <3>1, <3>2 DEF Stands
  <2> QED
    BY <1>2, <2>1, <2>2 DEF DiskTypes, Inodes
<1>4. /\ disk' = [disk EXCEPT ![Part[p]] = o]
      /\ data' = [data EXCEPT ![o] = Holes]
      /\ file' = [file EXCEPT ![o] = o]
      /\ fileWriters' = fileWriters \cup {o}
      /\ savePaths' = [savePaths EXCEPT ![o] = p]
      /\ pc' = [pc EXCEPT !["ui"].at = "reply"]
      /\ UNCHANGED <<fileOffers, dirTransfers, folders, offered, arrived, told>>
  BY <1>3 DEF Create, Created, Goto, netVars
<1>5. /\ pc'["ui"].at = "reply" /\ pc'["loop"] = pc["loop"]
      /\ (\A q \in Offers : Fresh(q)' => Fresh(q)) /\ ~Fresh(o)'
  BY <1>1, <1>4 DEF Fresh, At, UiControl
<1>6. ~At("loop", "idle") => pc["loop"].of # o /\ pc["loop"].of \in Offers
  BY <1>1 DEF LoopControl
<1>7. \A q \in Offers : Stored(q)' = Stored(q)
  BY <1>4, <1>5 DEF Stored, At
<1>8. Stored(o)' = 0 /\ data'[o] = [k \in Slots |-> IF k <= 0 THEN o ELSE "none"]
  <2>1. Stored(o) = 0
    BY <1>1, <1>6 DEF Stored, At
  <2>2. data'[o] = Holes
    BY <1>1, <1>4 DEF DiskTypes, Inodes
  <2>3. Stored(o)' = 0
    BY <1>1, <1>7, <2>1
  <2>4. \A k \in Slots : ~(k <= 0)
    BY SlotsAreCounted
  <2>5. data'[o] = [k \in Slots |-> IF k <= 0 THEN o ELSE "none"]
    BY <2>2, <2>4 DEF Holes
  <2> QED
    BY <2>3, <2>5
<1>9. \A q \in Offers : q # o => data'[q] = data[q] /\ file'[q] = file[q] /\ savePaths'[q] = savePaths[q]
  BY <1>4 DEF DiskTypes, Inodes
<1>10. \A q \in Paths : q # Part[p] => disk'[q] = disk[q] /\ disk[q] # o
  BY <1>1, <1>4 DEF Owned, Stands, DiskTypes
<1>11. disk'[Part[p]] = o
  BY <1>2, <1>4 DEF DiskTypes
<1>12. Owned'
  <2> SUFFICES ASSUME NEW q \in Paths
               PROVE  /\ disk'[q] \in Offers => Stands(disk[q], q)'
                      /\ folders'[q] # "none" => \E f \in Offers : ~Fresh(f)' /\ q \in NamesOf(f)
    BY DEF Owned
  <2>1. CASE q = Part[p]
    <3>1. Stands(o, q)'
      BY <1>2, <1>5, <2>1 DEF Stands
    <3> QED
      BY <1>4, <1>5, <1>11, <2>1, <3>1 DEF Owned
  <2>2. CASE q # Part[p]
    <3>1. disk'[q] = disk[q] /\ disk[q] # o
      BY <1>10, <2>2
    <3>2. disk[q] \in Offers => Stands(disk[q], q)
      BY DEF Owned
    <3>3. \A r \in Offers : r # o /\ Stands(r, q) => Stands(r, q)'
      BY <1>5, <1>9 DEF Stands, Holds
    <3>4. disk'[q] \in Offers => Stands(disk[q], q)'
      BY <3>1, <3>2, <3>3
    <3> QED
      BY <1>4, <1>5, <3>4 DEF Owned
  <2> QED
    BY <2>1, <2>2
<1>13. Opened'
  <2> SUFFICES ASSUME NEW q \in Offers, file'[q] # "none"
               PROVE  /\ file'[q] = q /\ ~Fresh(q)'
                      /\ data'[q] = [k \in Slots |-> IF k <= Stored(q)' THEN q ELSE "none"]
                      /\ arrived'[q] < SizeOf[q] => q \in fileWriters'
    BY DEF Opened
  <2>1. CASE q = o
    <3>1. file'[q] = q /\ q \in fileWriters' /\ ~Fresh(q)'
      BY <1>1, <1>4, <1>5, <2>1 DEF DiskTypes
    <3>2. data'[q] = [k \in Slots |-> IF k <= Stored(q)' THEN q ELSE "none"]
      BY <1>8, <2>1
    <3> QED
      BY <3>1, <3>2
  <2>2. CASE q # o
    <3>1. Stored(q)' = Stored(q)
      BY <1>7
    <3>2. file'[q] = file[q] /\ data'[q] = data[q]
      BY <1>9, <2>2
    <3> QED
      BY <1>4, <1>5, <2>2, <3>1, <3>2 DEF Opened
  <2> QED
    BY <2>1, <2>2
<1>14. \A q \in Offers : \A r \in Artifacts(q) : disk[r] = "none" => disk'[r] = "none"
  <2>1. \A q \in Offers : \A r \in Artifacts(q) : r # Part[p] /\ r \in Paths
    BY <1>1, <1>2, OwnPaths, PathsAre
  <2> QED
    BY <1>10, <2>1
<1>16. Mapped'
  <2> SUFFICES ASSUME NEW q \in Offers
               PROVE  /\ savePaths'[q] # NoPath =>
                           ~Fresh(q)' /\ Planned(q, savePaths[q], dirTransfers[q])'
                      /\ dirTransfers'[q] # NoPath => FolderPath(q, dirTransfers[q])'
    BY DEF Mapped
  <2>1. dirTransfers'[q] = dirTransfers[q]
    BY <1>4
  <2>2. dirTransfers'[q] # NoPath => FolderPath(q, dirTransfers[q])'
    BY <1>4, <2>1 DEF Mapped, FolderPath
  <2>3. CASE q = o
    <3>1. savePaths'[q] = p
      BY <1>1, <1>4, <2>3 DEF DiskTypes
    <3>2. Planned(q, savePaths[q], dirTransfers[q])'
      BY <1>2, <1>4, <1>14, <2>1, <2>3, <3>1 DEF Planned, FilePath, FolderPath
    <3> QED
      BY <1>5, <2>2, <2>3, <3>2
  <2>4. CASE q # o
    <3>1. savePaths'[q] = savePaths[q]
      BY <1>9, <2>4
    <3>2. savePaths[q] # NoPath => ~Fresh(q)' /\ Planned(q, savePaths[q], dirTransfers[q])'
      BY <1>4, <1>5, <1>14, <2>1, <3>1 DEF Mapped, Planned, FilePath, FolderPath
    <3> QED
      BY <2>2, <3>1, <3>2
  <2> QED
    BY <2>3, <2>4
<1>17. Placed("ui")'
  BY <1>5 DEF Placed, At
<1>18. Placed("loop")'
  <2> DEFINE q == pc["loop"].of
  <2>1. CASE At("loop", "idle")
    BY <1>5, <2>1 DEF Placed, At
  <2>2. CASE ~At("loop", "idle")
    <3>1. q # o /\ q \in Offers /\ ~At("loop", "create")
      BY <1>6, <2>2 DEF LoopControl, At, FinishPC
    <3>2. savePaths'[q] = savePaths[q] /\ dirTransfers'[q] = dirTransfers[q]
      BY <1>4, <1>9, <3>1
    <3>3. \A r \in Paths : disk[r] = q => disk'[r] = q
      BY <1>3, <1>10, <3>1, NamesAre
    <3>4. \A r \in Artifacts(q) \cup NamesOf(q) : r \in Paths
      BY <3>1, PathsAre
    <3>5. At("loop", "extract") \/ At("loop", "extracting") => pc["loop"].path \in Artifacts(q)
      BY DEF WorkFits
    <3> QED
      BY <1>4, <1>5, <1>14, <3>1, <3>2, <3>3, <3>4, <3>5
      DEF Placed, At, Planned, FilePath, FolderPath
  <2> QED
    BY <2>1, <2>2
<1>19. CompletedIsOnDisk'
  <2>1. ASSUME NEW q \in Paths, NEW r \in Offers, disk[q] = r, Holds(r, r)
        PROVE  disk'[q] = r /\ Holds(r, r)'
    <3>1. r # o /\ q # Part[p]
      BY <1>3, <1>10, <2>1, NamesAre
    <3> QED
      BY <1>9, <1>10, <2>1, <3>1 DEF Holds
  <2>2. \A q \in Offers : NamesOf(q) \subseteq Paths
    BY PathsAre
  <2> QED
    BY <1>4, <2>1, <2>2 DEF CompletedIsOnDisk
<1> QED
  BY <1>1, <1>2, <1>4, <1>12, <1>13, <1>16, <1>17, <1>18, <1>19

\* A transfer that is forgotten: what is said of the others stays.
LEMMA DiskForgotten ==
  ASSUME DiskInv,
         UNCHANGED <<disk, folders, data, arrived>>,
         fileWriters' \subseteq fileWriters,
         \A o \in Offers : Fresh(o)' => Fresh(o),
         \A o \in Offers :
           /\ file'[o] = "none" \/ (file'[o] = file[o] /\ Stored(o)' = Stored(o))
           /\ \/ savePaths'[o] = NoPath /\ dirTransfers'[o] \in {dirTransfers[o], NoPath}
              \/ savePaths'[o] = savePaths[o] /\ dirTransfers'[o] = dirTransfers[o]
           /\ file'[o] # "none" /\ o \in fileWriters /\ arrived[o] < SizeOf[o] => o \in fileWriters'
  PROVE  Owned' /\ Opened' /\ Mapped'
<1> USE DEF DiskInv
<1>1. Owned'
  <2>1. \A q \in Offers, p \in Paths : Stands(q, p) => Stands(q, p)'
    BY DEF Stands, Holds
  <2> QED
    BY <2>1 DEF Owned
<1>2. Opened'
  <2> SUFFICES ASSUME NEW q \in Offers, file'[q] # "none"
               PROVE  /\ file'[q] = q /\ ~Fresh(q)'
                      /\ data'[q] = [k \in Slots |-> IF k <= Stored(q)' THEN q ELSE "none"]
                      /\ arrived'[q] < SizeOf[q] => q \in fileWriters'
    BY DEF Opened
  <2>1. file'[q] = file[q] /\ Stored(q)' = Stored(q)
    OBVIOUS
  <2>2. file'[q] = q /\ ~Fresh(q)'
    BY <2>1 DEF Opened
  <2>3. data[q] = [k \in Slots |-> IF k <= Stored(q) THEN q ELSE "none"]
    BY <2>1 DEF Opened
  <2>4. data'[q] = [k \in Slots |-> IF k <= Stored(q)' THEN q ELSE "none"]
    BY <2>1, <2>3
  <2>5. arrived'[q] < SizeOf[q] => q \in fileWriters'
    BY <2>1 DEF Opened
  <2> QED
    BY <2>2, <2>4, <2>5
<1>3. Mapped'
  BY DEF Mapped, Planned, FilePath, FolderPath
<1> QED
  BY <1>1, <1>2, <1>3

\* An accept or a chunk that fails.
LEMMA DiskFails ==
  ASSUME DiskInv, NEW x \in {"ui", "loop"}, NEW o, o = pc[x].of,
         (x = "ui" /\ ReplyFails) \/ (x = "loop" /\ WriteFails)
  PROVE  /\ Owned' /\ Opened' /\ Mapped'
         /\ Placed("ui")' /\ Placed("loop")' /\ CompletedIsOnDisk'
<1> USE DEF DiskInv, SaveInv, WriterInv, Control, Shape
<1>1. /\ file' = [file EXCEPT ![o] = "none"]
      /\ fileWriters' = fileWriters \ {o}
      /\ savePaths' = [savePaths EXCEPT ![o] = NoPath]
      /\ dirTransfers' = [dirTransfers EXCEPT ![o] = NoPath]
      /\ pc' = [pc EXCEPT ![x] = Idle]
      /\ UNCHANGED <<fileOffers, disk, folders, data, offered, arrived>>
      /\ told' = told \/ told' = [told EXCEPT ![o] = "Failed"]
      /\ pc[x].at \in {"reply", "write"} /\ (pc[x].at = "write" => x = "loop")
  BY DEF ReplyFails, WriteFails, Forget, Return, Tell, netVars, At
<1>2. o \in Offers /\ ~At(x, "idle")
  BY <1>1 DEF UiControl, LoopControl, At
<1>3. pc'[x].at = "idle" /\ \A y \in {"ui", "loop"} : y # x => pc'[y] = pc[y]
  BY <1>1 DEF Idle
<1>4. \A q \in Offers : Fresh(q)' => Fresh(q)
  BY <1>1, <1>3 DEF Fresh, At
<1>5. \A q \in Offers : q # o => Stored(q)' = Stored(q)
  BY <1>1, <1>3 DEF Stored, At
<1>6. Owned' /\ Opened' /\ Mapped'
  BY <1>1, <1>2, <1>4, <1>5, DiskForgotten DEF DiskTypes
<1>7. \A y \in {"ui", "loop"} : y # x /\ ~At(y, "idle") => pc[y].of # o
  BY <1>2, NeverTheSame DEF Apart
<1>8. ASSUME NEW y \in {"ui", "loop"}
      PROVE  Placed(y)'
  <2>1. CASE y = x
    BY <1>3, <2>1 DEF Placed, At
  <2>2. CASE y # x
    BY <1>1, <1>3, <1>7, <2>2 DEF Placed, At, Planned, FilePath, FolderPath, DiskTypes
  <2> QED
    BY <2>1, <2>2
<1>9. CompletedIsOnDisk'
  <2>1. \A q \in Offers : told'[q] = "Completed" => told[q] = "Completed"
    BY <1>1
  <2> QED
    BY <1>1, <2>1 DEF CompletedIsOnDisk, Holds
<1> QED
  BY <1>6, <1>8, <1>9

\* The end of a transfer begins, or its file cannot be renamed.
LEMMA DiskEnds ==
  ASSUME DiskInv, NEW x \in {"ui", "loop"}, NEW o, o = pc[x].of,
         BeginFinish(x) \/ RenameFails(x)
  PROVE  /\ Owned' /\ Opened' /\ Mapped'
         /\ Placed("ui")' /\ Placed("loop")' /\ CompletedIsOnDisk'
<1> USE DEF DiskInv, SaveInv, WriterInv, Control, Shape
<1>1. pc[x].at \in {"forget", "rename"}
  BY DEF BeginFinish, RenameFails, At
<1>2. o \in Offers /\ arrived[o] = SizeOf[o] /\ ~At(x, "idle")
  BY <1>1 DEF UiControl, LoopControl, At, FinishPC
<1>3. /\ UNCHANGED <<fileOffers, disk, folders, data, offered, arrived, told>>
      /\ pc'[x].at \in {"rename", "failed"} /\ pc'[x].of = o
      /\ \A y \in {"ui", "loop"} : y # x => pc'[y] = pc[y]
  BY DEF BeginFinish, RenameFails, Forget, Goto, netVars, mapVars, diskVars
<1>4. \/ /\ BeginFinish(x) /\ file' = file
         /\ fileWriters' = fileWriters \ {o}
         /\ savePaths' = [savePaths EXCEPT ![o] = NoPath]
         /\ dirTransfers' = [dirTransfers EXCEPT ![o] = NoPath]
         /\ pc'[x].at = "rename" /\ pc'[x].path = savePaths[o] /\ pc'[x].folder = dirTransfers[o]
      \/ /\ RenameFails(x) /\ file' = [file EXCEPT ![o] = "none"]
         /\ UNCHANGED <<fileWriters, savePaths, dirTransfers>>
         /\ pc[x].at = "rename" /\ pc'[x].at = "failed"
  BY DEF BeginFinish, RenameFails, Forget, Goto, netVars, mapVars, diskVars, At
<1>5. \A q \in Offers : Fresh(q)' => Fresh(q)
  BY <1>1, <1>3 DEF Fresh, At
<1>6. \A q \in Offers : Stored(q)' = Stored(q)
  BY <1>1, <1>3 DEF Stored, At
<1>7. Owned' /\ Opened' /\ Mapped'
  <2>1. \A q \in Offers :
          /\ file'[q] = "none" \/ (file'[q] = file[q] /\ Stored(q)' = Stored(q))
          /\ \/ savePaths'[q] = NoPath /\ dirTransfers'[q] \in {dirTransfers[q], NoPath}
             \/ savePaths'[q] = savePaths[q] /\ dirTransfers'[q] = dirTransfers[q]
          /\ file'[q] # "none" /\ q \in fileWriters /\ arrived[q] < SizeOf[q] => q \in fileWriters'
    BY <1>2, <1>4, <1>6 DEF DiskTypes
  <2> QED
    BY <1>3, <1>4, <1>5, <2>1, DiskForgotten
<1>8. \A y \in {"ui", "loop"} : y # x /\ ~At(y, "idle") => pc[y].of # o
  BY <1>2, NeverTheSame DEF Apart
<1>9. Placed(x)'
  <2>1. CASE BeginFinish(x) /\ pc'[x].at = "rename"
    BY <1>2, <1>3, <1>4, <2>1 DEF Placed, At, Mapped, Planned, FilePath, FolderPath, DiskTypes
  <2>2. CASE pc'[x].at = "failed"
    BY <1>2, <1>3, <1>4, <2>2 DEF Placed, At, DiskTypes
  <2> QED
    BY <1>4, <2>1, <2>2
<1>10. ASSUME NEW y \in {"ui", "loop"}
       PROVE  Placed(y)'
  <2>1. CASE y = x
    BY <1>9, <2>1
  <2>2. CASE y # x
    <3>1. pc'[y] = pc[y] /\ UNCHANGED <<disk, folders>>
      BY <1>3, <2>2
    <3>2. \A q \in Offers : q # o => savePaths'[q] = savePaths[q] /\ dirTransfers'[q] = dirTransfers[q]
      BY <1>4 DEF DiskTypes
    <3>3. ~At(y, "idle") => pc[y].of \in Offers /\ pc[y].of # o
      BY <1>8, <2>2 DEF UiControl, LoopControl, At
    <3> QED
      BY <3>1, <3>2, <3>3 DEF Placed, At, Planned, FilePath, FolderPath
  <2> QED
    BY <2>1, <2>2
<1>11. CompletedIsOnDisk'
  BY <1>3 DEF CompletedIsOnDisk, Holds
<1> QED
  BY <1>7, <1>10, <1>11

\* The user quits.
LEMMA DiskClosed ==
  ASSUME DiskInv, Close
  PROVE  /\ Owned' /\ Opened' /\ Mapped'
         /\ Placed("ui")' /\ Placed("loop")' /\ CompletedIsOnDisk'
<1> USE DEF DiskInv, SaveInv, WriterInv, Control, Shape
<1>1. /\ file' = [o \in Offers |-> IF o \in fileWriters THEN "none" ELSE file[o]]
      /\ fileWriters' = {}
      /\ savePaths' = [o \in Offers |-> NoPath]
      /\ dirTransfers' = [o \in Offers |-> NoPath]
      /\ UNCHANGED <<fileOffers, disk, folders, data, pc, offered, arrived, told>>
      /\ At("ui", "idle")
  BY DEF Close, netVars
<1>2. \A q \in Offers : (Fresh(q)' => Fresh(q)) /\ Stored(q)' = Stored(q)
  BY <1>1 DEF Fresh, Stored, At
<1>3. Owned' /\ Opened' /\ Mapped'
  BY <1>1, <1>2, DiskForgotten DEF DiskTypes
<1>4. Placed("ui")' /\ Placed("loop")'
  <2>1. Placed("ui")'
    BY <1>1 DEF Placed, At
  <2>2. ~At("loop", "create") /\ (~At("loop", "idle") => pc["loop"].of \in Offers)
    BY DEF LoopControl, At, FinishPC
  <2>3. Placed("loop")'
    BY <1>1, <2>2 DEF Placed, At, Planned, FilePath, FolderPath
  <2> QED
    BY <2>1, <2>3
<1>5. CompletedIsOnDisk'
  BY <1>1 DEF CompletedIsOnDisk, Holds
<1> QED
  BY <1>3, <1>4, <1>5

\* A chunk is written into the file of its own transfer.
LEMMA DiskWrites ==
  ASSUME DiskInv, NEW o, o = pc["loop"].of, WriteChunk
  PROVE  /\ Owned' /\ Opened' /\ Mapped'
         /\ Placed("ui")' /\ Placed("loop")' /\ CompletedIsOnDisk'
         /\ o \in Offers /\ file[o] # "none" /\ \A q \in Inodes : q # o => data'[q] = data[q]
<1> USE DEF DiskInv, SaveInv, WriterInv, Control, Shape
<1>1. At("loop", "write") /\ o \in Offers /\ file[o] # "none"
  BY DEF WriteChunk, LoopControl, At
<1>2. file[o] = o /\ arrived[o] \in Nat /\ arrived[o] >= 1 /\ arrived[o] <= SizeOf[o]
  BY <1>1 DEF Opened, LoopControl, At
<1>3. arrived[o] \in Slots
  BY <1>1, <1>2 DEF Slots
<1>4. /\ data' = [data EXCEPT ![o][arrived[o]] = o]
      /\ pc'["loop"].at \in {"forget", "idle"} /\ pc'["ui"] = pc["ui"]
      /\ told' = told \/ told' = [told EXCEPT ![o] = "InProgress"]
      /\ UNCHANGED <<mapVars, file, disk, folders, offered, arrived>>
  BY <1>2 DEF WriteChunk, Goto, Return, Tell, Idle, netVars
<1>5. /\ \A q \in Inodes : q # o => data'[q] = data[q]
      /\ data'[o] = [data[o] EXCEPT ![arrived[o]] = o]
  BY <1>1, <1>4 DEF DiskTypes, Inodes
<1>6. Stored(o) = arrived[o] - 1 /\ Stored(o)' = arrived[o]
  BY <1>1, <1>4 DEF Stored, At
<1>7. data'[o] = [k \in Slots |-> IF k <= arrived[o] THEN o ELSE "none"]
  <2>1. data[o] = [k \in Slots |-> IF k <= arrived[o] - 1 THEN o ELSE "none"]
    BY <1>1, <1>6 DEF Opened
  <2>2. \A k \in Slots : k # arrived[o] => (k <= arrived[o] - 1 <=> k <= arrived[o])
    BY <1>2, SlotsAreCounted
  <2>3. data'[o] = [k \in Slots |-> IF k = arrived[o] THEN o
                                    ELSE IF k <= arrived[o] - 1 THEN o ELSE "none"]
    BY <1>3, <1>5, <2>1
  <2> QED
    BY <1>2, <2>2, <2>3
<1>8. \A q \in Offers : Fresh(q)' => Fresh(q)
  BY <1>4 DEF Fresh, At, mapVars
<1>9. \A q \in Offers, p \in Paths : Stands(q, p) => Stands(q, p)'
  <2>1. \A q \in Offers : q # o /\ Holds(q, q) => Holds(q, q)'
    BY <1>5 DEF Holds, Inodes
  <2> QED
    BY <1>1, <1>4, <1>8, <2>1 DEF Stands
<1>10. Owned'
  BY <1>4, <1>8, <1>9 DEF Owned
<1>11. Opened'
  <2> SUFFICES ASSUME NEW q \in Offers, file'[q] # "none"
               PROVE  /\ file'[q] = q /\ ~Fresh(q)'
                      /\ data'[q] = [k \in Slots |-> IF k <= Stored(q)' THEN q ELSE "none"]
                      /\ arrived'[q] < SizeOf[q] => q \in fileWriters'
    BY DEF Opened
  <2>1. data'[q] = [k \in Slots |-> IF k <= Stored(q)' THEN q ELSE "none"]
    <3>1. CASE q = o
      BY <1>6, <1>7, <3>1
    <3>2. CASE q # o
      <4>1. Stored(q)' = Stored(q)
        BY <1>1, <1>4, <3>2 DEF Stored, At
      <4>2. data'[q] = data[q]
        BY <1>5, <3>2 DEF Inodes
      <4> QED
        BY <1>4, <4>1, <4>2 DEF Opened
    <3> QED
      BY <3>1, <3>2
  <2> QED
    BY <1>4, <1>8, <2>1 DEF Opened, mapVars
<1>12. Mapped'
  BY <1>4, <1>8 DEF Mapped, Planned, FilePath, FolderPath, mapVars
<1>13. Placed("ui")' /\ Placed("loop")'
  BY <1>4, PlacedQuiet DEF mapVars
<1>14. CompletedIsOnDisk'
  <2>1. \A q \in Offers : told'[q] = "Completed" => told[q] = "Completed"
    BY <1>4
  <2>2. ASSUME NEW q \in Offers \ Folders, NEW p \in NamesOf(q), disk[p] = q
        PROVE  q # o
    <3>1. p \in Artifacts(q) /\ p \in Paths /\ p \notin Temps(q)
      BY <2>2, PathsAre, ReceiverFilesAssumption
    <3> QED
      BY <1>1, <2>2, <3>1 DEF Owned, Stands
  <2>3. \A q \in Offers : q # o /\ Holds(q, q) => Holds(q, q)'
    BY <1>5 DEF Holds, Inodes
  <2> QED
    BY <1>4, <2>1, <2>2, <2>3 DEF CompletedIsOnDisk
<1> QED
  BY <1>1, <1>5, <1>10, <1>11, <1>12, <1>13, <1>14

\* A transfer that ends is not with the other goroutine, and has its chunks.
LEMMA EndsAlone ==
  ASSUME DiskInv, NEW x \in {"ui", "loop"}, NEW o, o = pc[x].of, pc[x].at \in FinishPC
  PROVE  /\ o \in Offers /\ ~Fresh(o) /\ arrived[o] = SizeOf[o] /\ Stored(o) = SizeOf[o]
         /\ \A y \in {"ui", "loop"} : y # x /\ ~At(y, "idle") => pc[y].of \in Offers /\ pc[y].of # o
<1> USE DEF DiskInv, SaveInv, WriterInv, Control, Shape
<1>1. o \in offered /\ o \notin fileOffers /\ ~At(x, "idle") /\ arrived[o] = SizeOf[o]
  BY DEF UiControl, LoopControl, At, FinishPC
<1>2. \A y \in {"ui", "loop"} : ~At(y, "idle") => pc[y].of \in Offers
  BY DEF UiControl, LoopControl, At
<1>3. \A y \in {"ui", "loop"} : y # x /\ ~At(y, "idle") => pc[y].of # o
  BY <1>1, NeverTheSame DEF Apart
<1>4. At("ui", "create") => "ui" # x
  BY DEF At, FinishPC
<1>5. ~Fresh(o)
  BY <1>1, <1>3, <1>4 DEF Fresh, At
<1>6. Stored(o) = SizeOf[o]
  <2>1. ~(At("loop", "write") /\ pc["loop"].of = o)
    BY <1>3 DEF At, FinishPC
  <2> QED
    BY <1>1, <2>1 DEF Stored
<1> QED
  BY <1>1, <1>2, <1>3, <1>5, <1>6

\* What a finish does to its own paths leaves those of the others, which are
\* other paths.
LEMMA OthersPaths ==
  ASSUME DiskInv, Separate, NEW x \in {"ui", "loop"}, NEW y \in {"ui", "loop"}, y # x,
         NEW o \in Offers, pc'[y] = pc[y],
         ~At(y, "idle") => pc[y].of \in Offers /\ pc[y].of # o,
         UNCHANGED <<savePaths, dirTransfers>>,
         \A r \in Paths : r \notin Reach(o) => disk'[r] = disk[r] /\ folders'[r] = folders[r]
  PROVE  Placed(y)'
<1> DEFINE q == pc[y].of
<1> USE DEF DiskInv, SaveInv
<1>1. CASE At(y, "idle")
  BY <1>1 DEF Placed, At
<1>2. CASE ~At(y, "idle")
  <2>1. q \in Offers /\ q # o
    BY <1>2
  <2>2. \A r \in NamesOf(q) \cup Artifacts(q) : disk'[r] = disk[r] /\ folders'[r] = folders[r]
    <3>1. \A r \in NamesOf(q) \cup Artifacts(q) : r \in Reach(q) /\ r \in Paths
      BY <2>1, PathsAre DEF Reach
    <3>2. Reach(q) \cap Reach(o) = {}
      BY <2>1 DEF Separate
    <3> QED
      BY <3>1, <3>2
  <2>3. At(y, "extract") \/ At(y, "extracting") => pc[y].path \in Artifacts(q)
    BY DEF WorkFits
  <2>4. q \notin Folders => NamesOf(q) \subseteq Artifacts(q)
    BY <2>1, PathsAre
  <2>5. Placed(y)
    OBVIOUS
  <2> HIDE DEF DiskInv, SaveInv
  <2> QED
    BY <2>1, <2>2, <2>3, <2>4, <2>5 DEF Placed, At, Planned, FilePath, FolderPath
<1> QED
  BY <1>1, <1>2

\* The file gets its real name.
LEMMA DiskRenames ==
  ASSUME DiskInv, Separate, NEW x \in {"ui", "loop"}, Rename(x),
         NEW o, o = pc[x].of, NEW p, p = pc[x].path
  PROVE  /\ Owned' /\ Opened' /\ Mapped'
         /\ Placed("ui")' /\ Placed("loop")' /\ CompletedIsOnDisk'
         /\ o \in Offers /\ p \in Artifacts(o) /\ disk[p] = "none"
         /\ disk' = [disk EXCEPT ![p] = o, ![Part[p]] = "none"]
<1> DEFINE t == Part[p]
           f == pc[x].folder
<1> USE DEF DiskInv, SaveInv, WriterInv, Control, Shape
<1>1. pc[x].at = "rename" /\ pc[x].at \in FinishPC
  BY DEF Rename, At, FinishPC
<1>2. /\ o \in Offers /\ ~Fresh(o) /\ arrived[o] = SizeOf[o] /\ Stored(o) = SizeOf[o]
      /\ \A y \in {"ui", "loop"} : y # x /\ ~At(y, "idle") => pc[y].of \in Offers /\ pc[y].of # o
  BY <1>1, EndsAlone
<1>3. /\ Planned(o, p, f) /\ p \in Artifacts(o) /\ disk[p] = "none"
      /\ savePaths[o] = NoPath /\ dirTransfers[o] = NoPath
      /\ o \notin fileWriters
  BY <1>1 DEF Rename, CanRename, Placed, At, Planned, FilePath, WorkFits
<1>4. p \in Paths /\ p # NoPath /\ t \in Temps(o) /\ t \in Paths /\ t # p
  BY <1>2, <1>3, PathsAre
<1>5. disk[t] = o
  <2>1. disk[t] # "none"
    BY DEF Rename, CanRename
  <2>2. disk[t] \notin Present
    BY <1>2, <1>4, OwnPaths DEF OldSafe
  <2>3. disk[t] \in Offers
    BY <1>4, <2>1, <2>2 DEF DiskTypes, Inodes
  <2>4. Stands(disk[t], t)
    BY <1>4, <2>3 DEF Owned
  <2> QED
    BY <1>2, <1>4, <2>3, <2>4, OwnPaths DEF Stands
<1>6. /\ file[o] # "none"
      /\ file' = [file EXCEPT ![o] = "none"]
      /\ disk' = [disk EXCEPT ![p] = o, ![t] = "none"]
      /\ UNCHANGED <<mapVars, folders, data, offered, arrived, told>>
  BY <1>5 DEF Rename, netVars
<1>7. /\ pc'[x].at = IF f = NoPath THEN "completed" ELSE "extract"
      /\ pc'[x].of = o /\ pc'[x].path = p /\ pc'[x].folder = f
      /\ \A y \in {"ui", "loop"} : y # x => pc'[y] = pc[y]
  BY DEF Rename, Goto
<1> HIDE DEF t, f
<1>8. disk'[p] = o /\ disk'[t] = "none" /\ \A r \in Paths : r # p /\ r # t => disk'[r] = disk[r]
  BY <1>4, <1>6 DEF DiskTypes
<1>9. Holds(o, o)
  BY <1>2, <1>6 DEF Opened, Holds
<1>10. \A q \in Offers : (Fresh(q)' => Fresh(q)) /\ Stored(q)' = Stored(q)
  BY <1>1, <1>6, <1>7 DEF Fresh, Stored, At, mapVars
<1>11. \A q \in Offers : /\ Holds(q, q) => Holds(q, q)'
                         /\ file[q] = "none" => file'[q] = "none"
                         /\ q # o => file'[q] = file[q]
  BY <1>2, <1>6 DEF Holds, DiskTypes
<1>12. file'[o] = "none"
  BY <1>2, <1>6 DEF DiskTypes
<1>13. Owned'
  <2> SUFFICES ASSUME NEW q \in Paths
               PROVE  /\ disk'[q] \in Offers => Stands(disk[q], q)'
                      /\ folders'[q] # "none" => \E g \in Offers : ~Fresh(g)' /\ q \in NamesOf(g)
    BY DEF Owned
  <2>1. folders'[q] # "none" => \E g \in Offers : ~Fresh(g)' /\ q \in NamesOf(g)
    BY <1>6, <1>10 DEF Owned
  <2>2. CASE q = p
    <3>1. Stands(o, q)'
      BY <1>2, <1>3, <1>9, <1>10, <1>11, <1>12, <2>2 DEF Stands
    <3>2. disk'[q] = o
      BY <1>8, <2>2
    <3> QED
      BY <2>1, <3>1, <3>2
  <2>3. CASE q = t
    BY <1>8, <2>1, <2>3, NamesAre
  <2>4. CASE q # p /\ q # t
    <3>1. disk'[q] = disk[q]
      BY <1>8, <2>4
    <3>2. \A r \in Offers : Stands(r, q) => Stands(r, q)'
      BY <1>10, <1>11 DEF Stands
    <3> QED
      BY <2>1, <3>1, <3>2 DEF Owned
  <2> QED
    BY <2>2, <2>3, <2>4
<1>14. Opened'
  <2> SUFFICES ASSUME NEW q \in Offers, file'[q] # "none"
               PROVE  /\ file'[q] = q /\ ~Fresh(q)'
                      /\ data'[q] = [k \in Slots |-> IF k <= Stored(q)' THEN q ELSE "none"]
                      /\ arrived'[q] < SizeOf[q] => q \in fileWriters'
    BY DEF Opened
  <2>1. q # o /\ file'[q] = file[q] /\ Stored(q)' = Stored(q)
    BY <1>10, <1>11, <1>12
  <2> QED
    BY <1>6, <1>10, <2>1 DEF Opened, mapVars
<1>15. \A q \in Offers : q # o =>
         \A r \in NamesOf(q) \cup Artifacts(q) : disk'[r] = disk[r] /\ r \in Paths
  <2>1. \A q \in Offers : q # o =>
          \A r \in NamesOf(q) \cup Artifacts(q) : r # p /\ r # t /\ r \in Paths
    BY <1>2, <1>3, <1>4, OwnPaths, PathsAre
  <2> QED
    BY <1>8, <2>1
<1>16. Mapped'
  <2> SUFFICES ASSUME NEW q \in Offers
               PROVE  /\ savePaths'[q] # NoPath =>
                           ~Fresh(q)' /\ Planned(q, savePaths[q], dirTransfers[q])'
                      /\ dirTransfers'[q] # NoPath => FolderPath(q, dirTransfers[q])'
    BY DEF Mapped
  <2>1. savePaths' = savePaths /\ dirTransfers' = dirTransfers /\ folders' = folders
    BY <1>6 DEF mapVars
  <2>2. CASE q = o
    BY <1>3, <2>1, <2>2
  <2>3. CASE q # o
    BY <1>10, <1>15, <2>1, <2>3 DEF Mapped, Planned, FilePath, FolderPath
  <2> QED
    BY <2>2, <2>3
<1>17. Placed(x)'
  <2>1. savePaths'[o] = NoPath /\ dirTransfers'[o] = NoPath
    BY <1>3, <1>6 DEF mapVars
  <2>2. o \in Folders => f \in NamesOf(o) /\ folders'[f] = "none" /\ f # NoPath
    BY <1>2, <1>3, <1>6, PathsAre DEF Planned, FolderPath
  <2>3. o \notin Folders => f = NoPath /\ p \in NamesOf(o)
    BY <1>2, <1>3, PathsAre DEF Planned
  <2> HIDE DEF DiskInv
  <2> QED
    BY <1>7, <1>8, <2>1, <2>2, <2>3 DEF Placed, At, FolderPath
<1>18. ASSUME NEW y \in {"ui", "loop"}, y # x
       PROVE  Placed(y)'
  <2>1. \A r \in Paths : r \notin Reach(o) => disk'[r] = disk[r] /\ folders'[r] = folders[r]
    BY <1>3, <1>4, <1>6, <1>8 DEF Reach
  <2> QED
    BY <1>2, <1>6, <1>7, <1>18, <2>1, OthersPaths DEF mapVars
<1>19. CompletedIsOnDisk'
  <2>1. ASSUME NEW q \in Offers \ Folders, NEW r \in NamesOf(q), disk[r] = q, Holds(q, q)
        PROVE  disk'[r] = q /\ Holds(q, q)'
    <3>1. r \in Artifacts(q) /\ r \in Paths
      BY <2>1, PathsAre
    <3>2. r # p
      BY <1>3, <2>1, NamesAre
    <3>3. r # t
      BY <1>2, <1>4, <3>1, OwnPaths, <2>1
    <3> QED
      BY <1>8, <1>11, <2>1, <3>1, <3>2, <3>3
  <2>2. told' = told /\ folders' = folders
    BY <1>6
  <2> HIDE DEF DiskInv
  <2>3. CompletedIsOnDisk
    BY DEF DiskInv
  <2> QED
    BY <2>1, <2>2, <2>3 DEF CompletedIsOnDisk
<1> QED
  BY <1>2, <1>3, <1>6, <1>13, <1>14, <1>16, <1>17, <1>18, <1>19 DEF t

\* The archive of the one folder that is in it.
LEMMA ArchiveOfOne ==
  ASSUME NEW i, NEW o \in Folders, NEW q \in Folders, Holds(i, o), Holds(i, q)
  PROVE  o = q
<1>1. SizeOf[o] >= 1 /\ SizeOf[q] >= 1 /\ SizeOf[o] \in Nat /\ o \in Offers /\ q \in Offers
  BY ReceiverFilesAssumption
<1>2. 1 \in Slots
  BY <1>1 DEF Slots
<1>3. data[i][1] = o /\ data[i][1] = q
  BY <1>1, <1>2 DEF Holds
<1> QED
  BY <1>3

\* The entries of an archive are put in place, and the archive goes.
LEMMA DiskExtracts ==
  ASSUME DiskInv, Separate, NEW x \in {"ui", "loop"},
         Extract(x) \/ Extracted(x) \/ ExtractNothing(x),
         NEW o, o = pc[x].of, NEW p, p = pc[x].path, NEW f, f = pc[x].folder
  PROVE  /\ Owned' /\ Opened' /\ Mapped'
         /\ Placed("ui")' /\ Placed("loop")' /\ CompletedIsOnDisk'
         /\ At(x, "extract") => folders[f] = "none"
<1> USE DEF DiskInv, SaveInv, WriterInv, Control, Shape
<1>1. pc[x].at \in {"extract", "extracting"} /\ pc[x].at \in FinishPC
  BY DEF Extract, Extracted, ExtractNothing, At, FinishPC
<1>2. /\ o \in Offers /\ ~Fresh(o)
      /\ \A y \in {"ui", "loop"} : y # x /\ ~At(y, "idle") => pc[y].of \in Offers /\ pc[y].of # o
  BY <1>1, EndsAlone
<1>3. /\ f \in NamesOf(o) /\ p \in Artifacts(o) /\ disk[p] = o /\ o \in Folders
      /\ savePaths[o] = NoPath /\ dirTransfers[o] = NoPath
      /\ At(x, "extract") => folders[f] = "none"
  BY <1>1 DEF Placed, At, FolderPath, WorkFits
<1>4. f \in Paths /\ p \in Paths /\ p \notin Temps(o)
  BY <1>2, <1>3, PathsAre, ReceiverFilesAssumption
<1>5. /\ UNCHANGED <<mapVars, file, data, offered, arrived, told>>
      /\ disk' \in {disk, [disk EXCEPT ![p] = "none"]}
      /\ \/ Extract(x) /\ folders' = [folders EXCEPT ![f] = "half"] /\ disk' = disk
         \/ Extracted(x) /\ folders' = [folders EXCEPT ![f] = "whole"]
         \/ ExtractNothing(x) /\ folders' = folders
  BY DEF Extract, Extracted, ExtractNothing, netVars
<1>6. /\ pc'[x].of = o /\ pc'[x].path = p /\ pc'[x].folder = f
      /\ \A y \in {"ui", "loop"} : y # x => pc'[y] = pc[y]
      /\ \/ Extract(x) /\ pc'[x].at = "extracting"
         \/ Extracted(x) /\ pc'[x].at = "completed"
         \/ ExtractNothing(x) /\ pc'[x].at = "completed"
  <2>1. \/ Extract(x) /\ pc' = [pc EXCEPT ![x].at = "extracting"]
        \/ Extracted(x) /\ pc' = [pc EXCEPT ![x].at = "completed"]
        \/ ExtractNothing(x) /\ pc' = [pc EXCEPT ![x].at = "completed"]
    BY DEF Extract, Extracted, ExtractNothing, Goto
  <2>2. Shape
    OBVIOUS
  <2> HIDE DEF DiskInv
  <2> QED
    BY <2>1, <2>2
<1>7. /\ \A r \in Paths : r # p => disk'[r] = disk[r]
      /\ disk'[p] \in {disk[p], "none"}
      /\ \A r \in Paths : r # f => folders'[r] = folders[r]
      /\ Extract(x) => folders'[f] = "half"
      /\ Extracted(x) => folders'[f] = "whole"
  <2>1. Extract(x) => folders' = [folders EXCEPT ![f] = "half"]
    BY DEF Extract
  <2>2. Extracted(x) => folders' = [folders EXCEPT ![f] = "whole"]
    BY DEF Extracted
  <2> QED
    BY <1>4, <1>5, <2>1, <2>2 DEF DiskTypes
<1>8. \A q \in Offers : (Fresh(q)' => Fresh(q)) /\ Stored(q)' = Stored(q)
  BY <1>1, <1>5, <1>6 DEF Fresh, Stored, At, mapVars
<1>9. Owned'
  <2> SUFFICES ASSUME NEW q \in Paths
               PROVE  /\ disk'[q] \in Offers => Stands(disk[q], q)'
                      /\ folders'[q] # "none" => \E g \in Offers : ~Fresh(g)' /\ q \in NamesOf(g)
    BY DEF Owned
  <2>1. \A r \in Offers : Stands(r, q) => Stands(r, q)'
    BY <1>5, <1>8 DEF Stands, Holds
  <2>2. disk'[q] \in {disk[q], "none"}
    BY <1>7
  <2>3. disk'[q] \in Offers => Stands(disk[q], q)'
    BY <2>1, <2>2, NamesAre DEF Owned
  <2>4. folders'[q] # "none" => \E g \in Offers : ~Fresh(g)' /\ q \in NamesOf(g)
    BY <1>2, <1>3, <1>7, <1>8 DEF Owned
  <2> QED
    BY <2>3, <2>4
<1>10. Opened'
  <2> SUFFICES ASSUME NEW q \in Offers, file'[q] # "none"
               PROVE  /\ file'[q] = q /\ ~Fresh(q)'
                      /\ data'[q] = [k \in Slots |-> IF k <= Stored(q)' THEN q ELSE "none"]
                      /\ arrived'[q] < SizeOf[q] => q \in fileWriters'
    BY DEF Opened
  <2>1. Stored(q)' = Stored(q)
    BY <1>8
  <2> QED
    BY <1>5, <1>8, <2>1 DEF Opened, mapVars
<1>11. \A r \in Paths : r \notin Reach(o) => disk'[r] = disk[r] /\ folders'[r] = folders[r]
  BY <1>3, <1>7 DEF Reach
<1>12. Mapped'
  <2> SUFFICES ASSUME NEW q \in Offers
               PROVE  /\ savePaths'[q] # NoPath =>
                           ~Fresh(q)' /\ Planned(q, savePaths[q], dirTransfers[q])'
                      /\ dirTransfers'[q] # NoPath => FolderPath(q, dirTransfers[q])'
    BY DEF Mapped
  <2>1. savePaths' = savePaths /\ dirTransfers' = dirTransfers
    BY <1>5 DEF mapVars
  <2>2. CASE q = o
    BY <1>3, <2>1, <2>2
  <2>3. CASE q # o
    <3>1. \A r \in NamesOf(q) \cup Artifacts(q) : r \in Paths /\ r \in Reach(q) /\ r \notin Reach(o)
      BY <1>2, <2>3, PathsAre DEF Reach, Separate
    <3>2. \A r \in NamesOf(q) \cup Artifacts(q) : disk'[r] = disk[r] /\ folders'[r] = folders[r]
      BY <1>11, <3>1
    <3> QED
      BY <1>8, <2>1, <2>3, <3>2 DEF Mapped, Planned, FilePath, FolderPath
  <2> QED
    BY <2>2, <2>3
<1>13. Placed(x)'
  <2>1. savePaths'[o] = NoPath /\ dirTransfers'[o] = NoPath
    BY <1>3, <1>5 DEF mapVars
  <2>2. ExtractNothing(x) => o \in Empty
    <3>1. Holds(o, o)
      BY <1>2, <1>3, <1>4 DEF Owned, Stands
    <3>2. ExtractNothing(x) => \E q \in Folders : Holds(o, q) /\ (q \in Empty <=> TRUE)
      BY <1>3 DEF ExtractNothing, IsArchive
    <3> QED
      BY <1>3, <3>1, <3>2, ArchiveOfOne
  <2>3. pc'[x].at = "extracting" => disk' = disk
    BY <1>5, <1>6 DEF Extract, Extracted, ExtractNothing
  <2>4. pc'[x].at = "completed" => o \in Empty \/ folders'[f] = "whole"
    BY <1>6, <1>7, <2>2
  <2>5. pc'[x].at \in {"extracting", "completed"}
    BY <1>6
  <2> HIDE DEF DiskInv
  <2> QED
    BY <1>3, <1>6, <2>1, <2>3, <2>4, <2>5 DEF Placed, At
<1>14. ASSUME NEW y \in {"ui", "loop"}, y # x
       PROVE  Placed(y)'
  BY <1>2, <1>5, <1>6, <1>11, <1>14, OthersPaths DEF mapVars
<1>15. CompletedIsOnDisk'
  <2>1. ASSUME NEW q \in Offers \ Folders, NEW r \in NamesOf(q), disk[r] = q, Holds(q, q)
        PROVE  disk'[r] = q /\ Holds(q, q)'
    <3>1. r # p /\ r \in Paths
      BY <1>3, <2>1, PathsAre
    <3> QED
      BY <1>5, <1>7, <2>1, <3>1 DEF Holds
  <2>2. \A q \in Offers : \A r \in NamesOf(q) : folders[r] = "whole" => folders'[r] = "whole"
    <3>1. folders[f] = "whole" => folders'[f] = "whole"
      BY <1>1, <1>3, <1>7 DEF At, Extract, Extracted, ExtractNothing
    <3>2. \A q \in Offers : NamesOf(q) \subseteq Paths
      BY PathsAre
    <3> QED
      BY <1>7, <3>1, <3>2
  <2>3. told' = told
    BY <1>5
  <2>4. CompletedIsOnDisk
    OBVIOUS
  <2> HIDE DEF DiskInv
  <2> QED
    BY <2>1, <2>2, <2>3, <2>4 DEF CompletedIsOnDisk
<1> QED
  BY <1>3, <1>9, <1>10, <1>12, <1>13, <1>14, <1>15

\* What an old file or one with a real name holds is written by nobody: it is
\* no .part file, and what is open is one.
LEMMA ClosedFiles ==
  ASSUME DiskInv, Separate, NEW p \in Present \cup RealNames, disk[p] # "none"
  PROVE  /\ disk[p] \in Inodes
         /\ \A o \in Offers : disk[p] = o => ~Fresh(o) /\ file[o] = "none"
<1>1. p \in Paths
  BY PathsAre, NamesAre DEF RealNames
<1>2. disk[p] \in Inodes
  BY <1>1 DEF DiskInv, SaveInv, DiskTypes
<1>3. ASSUME NEW o \in Offers, disk[p] = o
      PROVE  p \in RealNames
  <2>1. p \in Present => disk[p] = p
    BY OwnPaths DEF DiskInv, SaveInv, OldSafe, OldKept
  <2> QED
    BY <1>1, <1>3, <2>1, NamesAre
<1> QED
  BY <1>2, <1>3, RealIsWhole

LEMMA CreateReplacesNothing ==
  ASSUME DiskInv, Separate, Create
  PROVE  FilesStay
<1> DEFINE o == pc["ui"].of
           t == Part[pc["ui"].path]
<1>1. /\ o \in Offers /\ Fresh(o) /\ pc["ui"].path \in Artifacts(o)
      /\ disk' = [disk EXCEPT ![t] = o] /\ data' = [data EXCEPT ![o] = Holes]
  BY DiskCreate
<1>2. t \in Temps(o)
  BY <1>1, PathsAre
<1> HIDE DEF o, t
<1> SUFFICES ASSUME NEW p \in Present \cup RealNames, disk[p] # "none"
             PROVE  disk'[p] = disk[p] /\ data'[disk[p]] = data[disk[p]]
  BY DEF FilesStay
<1>3. p # t /\ p \in Paths
  BY <1>1, <1>2, OwnPaths, PathsAre, NamesAre DEF RealNames
<1>4. disk[p] \in Inodes /\ disk[p] # o
  BY <1>1, ClosedFiles
<1> QED
  BY <1>1, <1>3, <1>4 DEF DiskInv, SaveInv, DiskTypes

LEMMA WritesReplaceNothing ==
  ASSUME DiskInv, Separate, WriteChunk
  PROVE  FilesStay
<1> DEFINE o == pc["loop"].of
<1>1. o \in Offers /\ file[o] # "none" /\ disk' = disk /\ \A q \in Inodes : q # o => data'[q] = data[q]
  BY DiskWrites DEF WriteChunk
<1> HIDE DEF o
<1> SUFFICES ASSUME NEW p \in Present \cup RealNames, disk[p] # "none"
             PROVE  disk'[p] = disk[p] /\ data'[disk[p]] = data[disk[p]]
  BY DEF FilesStay
<1>2. disk[p] \in Inodes /\ disk[p] # o
  BY <1>1, ClosedFiles
<1> QED
  BY <1>1, <1>2

LEMMA RenameReplacesNothing ==
  ASSUME DiskInv, Separate, NEW x \in {"ui", "loop"}, Rename(x)
  PROVE  FilesStay
<1> DEFINE o == pc[x].of
           q == pc[x].path
           t == Part[q]
<1>1. /\ o \in Offers /\ q \in Artifacts(o) /\ disk[q] = "none"
      /\ disk' = [disk EXCEPT ![q] = o, ![t] = "none"] /\ data' = data
  <2>1. data' = data
    BY DEF Rename
  <2> QED
    BY <2>1, DiskRenames
<1>2. t \in Temps(o)
  BY <1>1, PathsAre
<1> HIDE DEF o, q, t
<1> SUFFICES ASSUME NEW p \in Present \cup RealNames, disk[p] # "none"
             PROVE  disk'[p] = disk[p] /\ data'[disk[p]] = data[disk[p]]
  BY DEF FilesStay
<1>3. p # t /\ p \in Paths /\ p # q
  BY <1>1, <1>2, OwnPaths, PathsAre, NamesAre DEF RealNames
<1> QED
  BY <1>1, <1>3 DEF DiskInv, SaveInv, DiskTypes

LEMMA ExtractReplacesNothing ==
  ASSUME DiskInv, Separate, NEW x \in {"ui", "loop"},
         Extract(x) \/ Extracted(x) \/ ExtractNothing(x)
  PROVE  FilesStay /\ FoldersStay
<1> DEFINE q == pc[x].path
           f == pc[x].folder
<1>1. At(x, "extract") => folders[f] = "none"
  BY DiskExtracts
<1>2. /\ data' = data
      /\ \/ disk' = disk
         \/ /\ disk' = [disk EXCEPT ![q] = "none"] /\ pc' = [pc EXCEPT ![x].at = "completed"]
            /\ pc[x].at \in {"extract", "extracting"}
      /\ folders' = folders \/ \E s : folders' = [folders EXCEPT ![f] = s]
      /\ At(x, "extract") \/ At(x, "extracting")
  BY DEF Extract, Extracted, ExtractNothing, Goto, At
<1>3. FoldersStay
  BY <1>1, <1>2 DEF FoldersStay, DiskInv, SaveInv, DiskTypes
<1>4. ASSUME NEW p \in Present \cup RealNames, disk[p] # "none", p # q
      PROVE  disk'[p] = disk[p] /\ data'[disk[p]] = data[disk[p]]
  <2> HIDE DEF q
  <2>1. p \in Paths
    BY PathsAre, NamesAre DEF RealNames
  <2> QED
    BY <1>2, <1>4, <2>1 DEF DiskInv, SaveInv, DiskTypes
<1>5. ASSUME disk'[q] # disk[q], q \in Paths
      PROVE  /\ disk'[q] = "none"
             /\ q = pc[x].path /\ pc[x].at \in {"extract", "extracting"} /\ pc'[x].at = "completed"
  BY <1>2, <1>5 DEF DiskInv, SaveInv, DiskTypes, WriterInv, Control, Shape
<1>6. \A p \in Present \cup RealNames : p \in Paths
  BY PathsAre, NamesAre DEF RealNames
<1>7. FilesStay
  BY <1>2, <1>4, <1>5, <1>6 DEF FilesStay
<1> QED
  BY <1>3, <1>7

\* Every step keeps the invariant, and puts no file where one is.
LEMMA DiskStep ==
  ASSUME DiskInv, Separate, [Next]_vars
  PROVE  DiskInv' /\ FilesStay /\ FoldersStay
<1> DEFINE Kept == /\ Owned' /\ Opened' /\ Mapped'
                   /\ Placed("ui")' /\ Placed("loop")' /\ CompletedIsOnDisk'
           Still == disk' = disk /\ data' = data
<1>1. SaveInv'
  BY SaveStep DEF DiskInv
<1>2. Still => FilesStay
  BY DEF FilesStay
<1>3. folders' = folders => FoldersStay
  BY DEF FoldersStay
<1>4. CASE \/ \E o \in Offers : \/ HandleFileOffer(o) \/ RejectTransfer(o)
                                \/ AcceptHangs(o) \/ HandleChunk(o)
           \/ AcceptFails \/ Reply \/ LinkDown
           \/ \E x \in {"ui", "loop"} : Report(x) \/ ExtractFails(x)
           \/ UNCHANGED vars
  <2>1. Kept
    BY <1>4, DiskQuiet
  <2>2. Still /\ folders' = folders
    BY <1>4 DEF HandleFileOffer, RejectTransfer, AcceptHangs, HandleChunk, AcceptFails, Reply,
                LinkDown, Report, ExtractFails, vars, diskVars
  <2> QED
    BY <1>1, <1>2, <1>3, <2>1, <2>2 DEF DiskInv
<1>5. ASSUME NEW o \in Offers, AcceptTransfer(o)
      PROVE  Kept /\ Still /\ folders' = folders
  BY <1>5, DiskAccept DEF AcceptTransfer, diskVars
<1>6. CASE ReplyFails \/ WriteFails
  BY <1>1, <1>2, <1>3, <1>6, DiskFails DEF DiskInv, ReplyFails, WriteFails
<1>7. CASE Close
  BY <1>1, <1>2, <1>3, <1>7, DiskClosed DEF DiskInv, Close
<1>8. CASE Create
  BY <1>1, <1>3, <1>8, DiskCreate, CreateReplacesNothing DEF DiskInv, Create
<1>9. CASE WriteChunk
  BY <1>1, <1>3, <1>9, DiskWrites, WritesReplaceNothing DEF DiskInv, WriteChunk
<1>10. ASSUME NEW x \in {"ui", "loop"}, BeginFinish(x) \/ RenameFails(x)
       PROVE  Kept /\ Still /\ folders' = folders
  BY <1>10, DiskEnds DEF BeginFinish, RenameFails, diskVars
<1>11. ASSUME NEW x \in {"ui", "loop"}, Rename(x)
       PROVE  Kept /\ FilesStay /\ folders' = folders
  BY <1>11, DiskRenames, RenameReplacesNothing DEF Rename
<1>12. ASSUME NEW x \in {"ui", "loop"}, Extract(x) \/ Extracted(x) \/ ExtractNothing(x)
       PROVE  Kept /\ FilesStay /\ FoldersStay
  BY <1>12, DiskExtracts, ExtractReplacesNothing
<1>13. CASE \/ \E o \in Offers : AcceptTransfer(o)
            \/ \E x \in {"ui", "loop"} : \/ BeginFinish(x) \/ RenameFails(x) \/ Rename(x)
                                         \/ Extract(x) \/ Extracted(x) \/ ExtractNothing(x)
  <2> HIDE DEF Kept, Still
  <2>1. Kept /\ FilesStay /\ FoldersStay
    BY <1>2, <1>3, <1>5, <1>10, <1>11, <1>12, <1>13
  <2> QED
    BY <1>1, <2>1 DEF DiskInv, Kept
<1> QED
  BY <1>4, <1>6, <1>7, <1>8, <1>9, <1>13 DEF Next, UiStep, LoopStep, FinishStep

\* What the invariant says without a step.
LEMMA DiskInvSays == DiskInv /\ Separate => FilesWhole /\ CompletedIsOnDisk
<1> SUFFICES ASSUME DiskInv, Separate, NEW p \in RealNames, disk[p] # "none"
             PROVE  \/ p \in Present /\ disk[p] = p /\ data[p] = OldData
                    \/ \E o \in Offers : Holds(disk[p], o)
  BY DEF DiskInv, FilesWhole
<1>1. p \in Paths
  BY PathsAre DEF RealNames
<1>2. disk[p] \in Offers \cup Present
  BY <1>1 DEF DiskInv, SaveInv, DiskTypes, Inodes
<1>3. CASE disk[p] \in Present
  BY <1>1, <1>3, OwnPaths DEF DiskInv, SaveInv, OldSafe, OldKept
<1>4. CASE disk[p] \in Offers
  BY <1>4, RealIsWhole
<1> QED
  BY <1>2, <1>3, <1>4

\* Only a complete file gets a real name: no interleaving of the two goroutines
\* and no failing step puts a part of a file, or a mixture, under one.
THEOREM FilesStayWhole ==
  ASSUME Separate
  PROVE  Safety => []FilesWhole
<1>1. DiskInv /\ [Next]_vars => DiskInv'
  BY DiskStep
<1>2. DiskInv => FilesWhole
  BY DiskInvSays
<1> QED
  BY <1>1, <1>2, DiskInit, PTL DEF Safety

\* A file or a folder reported as completed stays on the disk, whole.
THEOREM CompletedStays ==
  ASSUME Separate
  PROVE  Safety => []CompletedIsOnDisk
<1>1. DiskInv /\ [Next]_vars => DiskInv'
  BY DiskStep
<1>2. DiskInv => CompletedIsOnDisk
  BY DiskInvSays
<1> QED
  BY <1>1, <1>2, DiskInit, PTL DEF Safety

\* Nothing that is in the save directory is replaced, neither by a .part file,
\* nor by a rename, nor by an entry of an archive: uniquePath looks before the
\* .part file is made and the rename comes much later, yet in between nobody
\* takes the path.
THEOREM NothingReplaced ==
  ASSUME Separate
  PROVE  Safety => NeverReplaced
<1>1. DiskInv /\ [Next]_vars => DiskInv'
  BY DiskStep
<1>2. DiskInv /\ [Next]_vars => [FilesStay /\ FoldersStay]_vars
  BY DiskStep
<1> QED
  BY <1>1, <1>2, DiskInit, PTL DEF Safety, NeverReplaced

==============================================================================
