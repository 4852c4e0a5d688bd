---------------------------- MODULE ReceiverFiles ----------------------------
(***************************************************************************)
(* How a receiver stores what it accepts (Receiver in                      *)
(* src/internal/receiver/receiver.go, FileWriter in                        *)
(* src/internal/transfer/transfer.go).  The event loop of the user         *)
(* interface ("ui") runs AcceptTransfer, RejectTransfer and Close, the     *)
(* readLoop goroutine ("loop") handleFileOffer and handleChunk, and both   *)
(* may run finishTransfer.  Receiver.mu guards the maps, but not the       *)
(* directory the files are in.                                             *)
(*                                                                         *)
(* The chunks of a file arrive in order, as the connection delivers them.  *)
(* The save directory has one namespace: under a path there is a received  *)
(* file, one that was there before, a .part file or nothing.  The          *)
(* paths the code derives from a name by adding to it (a number, .zip,     *)
(* .part) are given by functions, and what is derived from two names may   *)
(* be one path.  Files are inodes, so that two writers of one path are two *)
(* handles on the same data.                                               *)
(***************************************************************************)
EXTENDS Naturals

CONSTANTS Offers,        \* transfers the host offers
          Folders,       \* those of them that are folders
          Empty,         \* those of the folders that have no entries
          SizeOf,        \* the chunks of each offer; an archive has one at least
          Paths,         \* paths of the save directory
          NameOf,        \* the path of each offer's own name
          Numbers,       \* the numbers uniquePath tries, 0 for the name as it is
          Numbered,      \* Numbered[p][i] is p with the number i before its extension
          Zip,           \* Zip[p] is p with ".zip" behind it
          Part,          \* Part[p] is p with ".part" behind it
          Present,       \* files the save directory already has
          Blocked,       \* paths of folders it has, or for which os.Stat fails
          DiskMayFail,   \* creating, writing, renaming or extracting may fail
          LinkMayFail    \* the connection may break

\* The paths uniquePath tries for a path, and those an offer may come to use:
\* for itself, for its artifact (the archive, if it is a folder), and while
\* its chunks come in.
Candidates(p) == {Numbered[p][i] : i \in Numbers}
NamesOf(o) == Candidates(NameOf[o])
Artifacts(o) == IF o \in Folders THEN UNION {Candidates(Zip[f]) : f \in NamesOf(o)}
                                 ELSE NamesOf(o)
Temps(o) == {Part[p] : p \in Artifacts(o)}
Reach(o) == NamesOf(o) \cup Artifacts(o) \cup Temps(o)

NoPath == ""

ASSUME ReceiverFilesAssumption ==
  /\ Empty \subseteq Folders /\ Folders \subseteq Offers
  /\ SizeOf \in [Offers -> Nat]
  /\ \A o \in Folders : SizeOf[o] >= 1
  /\ Numbers \subseteq Nat
  /\ Present \subseteq Paths /\ Blocked \subseteq Paths \ Present
  /\ \A o \in Offers : Reach(o) \subseteq Paths /\ Temps(o) \cap Artifacts(o) = {}
  /\ NoPath \notin Paths /\ "none" \notin Paths
  /\ Offers \cap (Paths \cup {"none", "old"}) = {}
  /\ DiskMayFail \in BOOLEAN /\ LinkMayFail \in BOOLEAN

\* No path of one offer is one of another offer's or that of a .part file of its
\* own, and no .part file has the path of an old file.
Separate ==
  /\ \A o \in Offers : \A q \in Offers : o # q => Reach(o) \cap Reach(q) = {}
  /\ \A o \in Offers : /\ Temps(o) \cap (NamesOf(o) \cup Present) = {}
                       /\ o \in Folders => NamesOf(o) \cap Artifacts(o) = {}

VARIABLES
  fileOffers,    \* r.fileOffers
  fileWriters,   \* the transfers in r.fileWriters
  savePaths,     \* r.savePaths
  dirTransfers,  \* r.dirTransfers, as the path of the folder
  file,          \* the inode each FileWriter has open, or "none"
  disk,          \* the files: the inode under each path, or "none"
  folders,       \* the folders: "half" or "whole" once extracted, or "none"
  data,          \* what each inode holds: whose chunk, for each chunk number
  pc,            \* where ui and loop stand, and with which transfer
  offered,       \* offers the host has made
  accepts,       \* FileAccept messages the host has received
  arrived,       \* chunks of each transfer that have come in
  told,          \* the last state of each transfer pushed to the progress channel
  closed,        \* Close has run
  link           \* the readLoop's connection: "up" or "down"

mapVars == <<fileOffers, fileWriters, savePaths, dirTransfers>>
diskVars == <<file, disk, folders, data>>
netVars == <<offered, accepts, arrived, link>>
vars == <<mapVars, diskVars, pc, netVars, told, closed>>

\* An inode is that of a transfer, or that of an old file, named by its path.
Inodes == Offers \cup Present
Slots == UNION {1..SizeOf[o] : o \in Offers}
Holes == [k \in Slots |-> "none"]
OldData == [k \in Slots |-> "old"]

Idle == [at |-> "idle", of |-> "none", path |-> NoPath, folder |-> NoPath]

Init ==
  /\ fileOffers = {} /\ fileWriters = {}
  /\ savePaths = [o \in Offers |-> NoPath]
  /\ dirTransfers = [o \in Offers |-> NoPath]
  /\ file = [o \in Offers |-> "none"]
  /\ disk = [p \in Paths |-> IF p \in Present THEN p ELSE "none"]
  /\ folders = [p \in Paths |-> "none"]
  /\ data = [i \in Inodes |-> IF i \in Present THEN OldData ELSE Holes]
  /\ pc = [x \in {"ui", "loop"} |-> Idle]
  /\ offered = {} /\ accepts = {}
  /\ arrived = [o \in Offers |-> 0]
  /\ told = [o \in Offers |-> "nothing"]
  /\ closed = FALSE /\ link = "up"

At(x, a) == pc[x].at = a
Goto(x, a) == pc' = [pc EXCEPT ![x].at = a]
Return(x) == pc' = [pc EXCEPT ![x] = Idle]

\* AcceptTransfer keeps r.mu from its lookup to the registration of the writer.
MuFree == pc["ui"].at \notin {"create", "search"}

\* forgetTransfer
Forget(o) ==
  /\ fileWriters' = fileWriters \ {o}
  /\ savePaths' = [savePaths EXCEPT ![o] = NoPath]
  /\ dirTransfers' = [dirTransfers EXCEPT ![o] = NoPath]
  /\ UNCHANGED fileOffers

\* sendProgress, which tells nobody once the connection is gone.
Tell(o, s) == told' = IF link = "up" THEN [told EXCEPT ![o] = s] ELSE told

------------------------------------------------------------------------------
(* Offers                                                                  *)

\* handleFileOffer
HandleFileOffer(o) ==
  /\ At("loop", "idle") /\ link = "up"
  /\ MuFree
  /\ o \notin offered
  /\ offered' = offered \cup {o}
  /\ fileOffers' = fileOffers \cup {o}
  /\ UNCHANGED <<fileWriters, savePaths, dirTransfers, diskVars, pc, accepts, arrived,
                 link, told, closed>>

\* The user rejects: the offer is dropped and a FileReject sent.
RejectTransfer(o) ==
  /\ At("ui", "idle") /\ ~closed
  /\ o \in fileOffers
  /\ fileOffers' = fileOffers \ {o}
  /\ UNCHANGED <<fileWriters, savePaths, dirTransfers, diskVars, pc, netVars, told, closed>>

\* os.Stat of a path that may be there already.
ExistsNever(p) == p \in Blocked

\* os.Stat finds a file or a folder, or fails: only os.ErrNotExist is taken for
\* a path that is free.
Exists(p) == disk[p] # "none" \/ folders[p] # "none" \/ p \in Blocked

\* The first candidate that does not exist, if there is one: the code tries
\* numbers for ever.
uniquePath(p) ==
  {Numbered[p][i] : i \in {n \in Numbers :
     /\ ~Exists(Numbered[p][n])
     /\ \A m \in Numbers : m < n => Exists(Numbered[p][m])}}

\* finalFolder and artifactPath.
Plans(o) ==
  IF o \in Folders
  THEN UNION {{[folder |-> f, path |-> p] : p \in uniquePath(Zip[f])} :
                f \in uniquePath(NameOf[o])}
  ELSE {[folder |-> NoPath, path |-> p] : p \in uniquePath(NameOf[o])}

\* AcceptTransfer up to the creation of the .part file.
AcceptTransfer(o) ==
  /\ At("ui", "idle") /\ ~closed
  /\ o \in fileOffers
  /\ fileOffers' = fileOffers \ {o}
  /\ \E plan \in Plans(o) :
       /\ dirTransfers' = [dirTransfers EXCEPT ![o] = plan.folder]
       /\ pc' = [pc EXCEPT !["ui"] =
            [at |-> "create", of |-> o, path |-> plan.path, folder |-> NoPath]]
  /\ UNCHANGED <<fileWriters, savePaths, diskVars, netVars, told, closed>>

\* uniquePath does not come back, with r.mu held: the name is too long, say.
AcceptHangs(o) ==
  /\ At("ui", "idle") /\ ~closed
  /\ o \in fileOffers
  /\ Plans(o) = {}
  /\ fileOffers' = fileOffers \ {o}
  /\ pc' = [pc EXCEPT !["ui"] =
       [at |-> "search", of |-> o, path |-> NoPath, folder |-> NoPath]]
  /\ UNCHANGED <<fileWriters, savePaths, dirTransfers, diskVars, netVars, told, closed>>

\* A folder has the path of the .part file, or it cannot be looked at.
NoFileCanBe(p) == folders[p] # "none" \/ p \in Blocked

\* The directory or the file cannot be created: the offer is gone, and its
\* dirTransfers entry stays.
AcceptFails ==
  /\ At("ui", "create")
  /\ DiskMayFail \/ NoFileCanBe(Part[pc["ui"].path])
  /\ Return("ui")
  /\ UNCHANGED <<mapVars, diskVars, netVars, told, closed>>

\* os.Create truncates the file that is there already, whatever it is.
Created(o, p) == IF disk[p] = "none" THEN o ELSE disk[p]

\* An AcceptTransfer that leaves the writer to be registered later.
CreateUnregistered ==
  /\ At("ui", "create")
  /\ LET o == pc["ui"].of  p == pc["ui"].path  i == Created(o, Part[p])
     IN  /\ ~NoFileCanBe(Part[p])
         /\ disk' = [disk EXCEPT ![Part[p]] = i]
         /\ data' = [data EXCEPT ![i] = Holes]
         /\ file' = [file EXCEPT ![o] = i]
         /\ savePaths' = [savePaths EXCEPT ![o] = p]
  /\ Goto("ui", "reply")
  /\ UNCHANGED <<fileWriters, fileOffers, dirTransfers, folders, netVars, told, closed>>

\* NewFileWriter, and the entries in fileWriters and savePaths.
Create ==
  /\ At("ui", "create")
  /\ LET o == pc["ui"].of  p == pc["ui"].path  i == Created(o, Part[p])
     IN  /\ ~NoFileCanBe(Part[p])
         /\ disk' = [disk EXCEPT ![Part[p]] = i]
         /\ data' = [data EXCEPT ![i] = Holes]
         /\ file' = [file EXCEPT ![o] = i]
         /\ fileWriters' = fileWriters \cup {o}
         /\ savePaths' = [savePaths EXCEPT ![o] = p]
  /\ Goto("ui", "reply")
  /\ UNCHANGED <<fileOffers, dirTransfers, folders, netVars, told, closed>>

\* The FileAccept is written; an empty file is finished at once.
Reply ==
  /\ At("ui", "reply") /\ link = "up"
  /\ accepts' = accepts \cup {pc["ui"].of}
  /\ IF SizeOf[pc["ui"].of] = 0 THEN Goto("ui", "forget") ELSE Return("ui")
  /\ UNCHANGED <<mapVars, diskVars, offered, arrived, link, told, closed>>

\* It cannot be written: fw.Close and forgetTransfer.
ReplyFails ==
  /\ LinkMayFail
  /\ At("ui", "reply")
  /\ file' = [file EXCEPT ![pc["ui"].of] = "none"]
  /\ Forget(pc["ui"].of)
  /\ Return("ui")
  /\ UNCHANGED <<disk, folders, data, netVars, told, closed>>

------------------------------------------------------------------------------
(* Chunks                                                                  *)

\* handleChunk: the next chunk of a transfer, and the lookup of its writer.
HandleChunk(o) ==
  /\ At("loop", "idle") /\ link = "up"
  /\ MuFree
  /\ o \in accepts
  /\ arrived[o] < SizeOf[o]
  /\ arrived' = [arrived EXCEPT ![o] = @ + 1]
  /\ pc' = IF o \in fileWriters
           THEN [pc EXCEPT !["loop"] = [Idle EXCEPT !.at = "write", !.of = o]] ELSE pc
  /\ UNCHANGED <<mapVars, diskVars, offered, accepts, link, told, closed>>

\* A receiver that ends one chunk before the last.
EndReachedEarly(o) == arrived[o] + 1 >= SizeOf[o]

\* offset >= total: the chunk reaches to the advertised end of the file.
EndReached(o) == arrived[o] >= SizeOf[o]

\* fw.WriteChunk, then the progress of the transfer.
WriteChunk ==
  /\ At("loop", "write")
  /\ MuFree
  /\ LET o == pc["loop"].of
     IN  /\ file[o] # "none"
         /\ data' = [data EXCEPT ![file[o]][arrived[o]] = o]
         /\ Tell(o, "InProgress")
         /\ IF EndReached(o) THEN Goto("loop", "forget") ELSE Return("loop")
  /\ UNCHANGED <<mapVars, file, disk, folders, netVars, closed>>

\* A failed write that closes the file and keeps the writer registered.
WriteFailsKeepsWriter ==
  /\ At("loop", "write")
  /\ MuFree
  /\ LET o == pc["loop"].of
     IN  /\ file[o] = "none" \/ DiskMayFail
         /\ file' = [file EXCEPT ![o] = "none"]
         /\ Tell(o, "Failed")
  /\ Return("loop")
  /\ UNCHANGED <<mapVars, disk, folders, data, netVars, closed>>

\* A failed write that nobody is told of.
WriteFailsUntold ==
  /\ At("loop", "write")
  /\ MuFree
  /\ LET o == pc["loop"].of
     IN  /\ file[o] = "none" \/ DiskMayFail
         /\ Forget(o)
         /\ file' = [file EXCEPT ![o] = "none"]
  /\ Return("loop")
  /\ UNCHANGED <<disk, folders, data, netVars, told, closed>>

\* The disk is full, or Close has closed the file meanwhile.
WriteFails ==
  /\ At("loop", "write")
  /\ MuFree
  /\ LET o == pc["loop"].of
     IN  /\ file[o] = "none" \/ DiskMayFail
         /\ Forget(o)
         /\ file' = [file EXCEPT ![o] = "none"]
         /\ Tell(o, "Failed")
  /\ Return("loop")
  /\ UNCHANGED <<disk, folders, data, netVars, closed>>

------------------------------------------------------------------------------
(* finishTransfer                                                          *)

\* forgetTransfer: the local savePath and folderName.
BeginFinish(x) ==
  /\ At(x, "forget")
  /\ MuFree
  /\ LET o == pc[x].of
     IN  /\ Forget(o)
         /\ pc' = [pc EXCEPT ![x] = [at |-> "rename", of |-> o, path |-> savePaths[o],
                                     folder |-> dirTransfers[o]]]
  /\ UNCHANGED <<diskVars, netVars, told, closed>>

\* os.Rename finds the .part file, and no folder in its way.
CanRename(p) == p # NoPath /\ disk[Part[p]] # "none" /\ ~NoFileCanBe(p)

\* fw.Finish closes the file and renames the .part file, over whatever file has
\* the name.
Rename(x) ==
  /\ At(x, "rename")
  /\ LET o == pc[x].of  p == pc[x].path
     IN  /\ file[o] # "none" /\ CanRename(p)
         /\ file' = [file EXCEPT ![o] = "none"]
         /\ disk' = [disk EXCEPT ![p] = disk[Part[p]], ![Part[p]] = "none"]
  /\ Goto(x, IF pc[x].folder = NoPath THEN "completed" ELSE "extract")
  /\ UNCHANGED <<mapVars, folders, data, netVars, told, closed>>

\* A finishTransfer that goes on after a failed rename.
RenameErrorIgnored(x) ==
  /\ At(x, "rename")
  /\ LET o == pc[x].of
     IN  /\ file[o] = "none" \/ DiskMayFail \/ ~CanRename(pc[x].path)
         /\ file' = [file EXCEPT ![o] = "none"]
  /\ Goto(x, "completed")
  /\ UNCHANGED <<mapVars, disk, folders, data, netVars, told, closed>>

\* The file has been closed before, its .part file is gone, or rename fails.
RenameFails(x) ==
  /\ At(x, "rename")
  /\ LET o == pc[x].of
     IN  /\ file[o] = "none" \/ DiskMayFail \/ ~CanRename(pc[x].path)
         /\ file' = [file EXCEPT ![o] = "none"]
  /\ Goto(x, "failed")
  /\ UNCHANGED <<mapVars, disk, folders, data, netVars, told, closed>>

\* An inode with all the chunks of one transfer and nothing else.
Holds(i, o) == data[i] = [k \in Slots |-> IF k <= SizeOf[o] THEN o ELSE "none"]

\* The archive of a folder, one with entries or one without.
IsArchive(p, empty) ==
  /\ disk[p] # "none"
  /\ \E o \in Folders : Holds(disk[p], o) /\ (o \in Empty <=> empty)

\* extractFolder opens the archive and puts its entries in place one by one,
\* into the folder that is there if one is.
Extract(x) ==
  /\ At(x, "extract")
  /\ IsArchive(pc[x].path, FALSE) /\ disk[pc[x].folder] = "none"
  /\ folders' = [folders EXCEPT ![pc[x].folder] = "half"]
  /\ Goto(x, "extracting")
  /\ UNCHANGED <<mapVars, file, disk, data, netVars, told, closed>>

\* The last entry is in place and the archive is removed.
Extracted(x) ==
  /\ At(x, "extracting")
  /\ folders' = [folders EXCEPT ![pc[x].folder] = "whole"]
  /\ disk' = [disk EXCEPT ![pc[x].path] = "none"]
  /\ Goto(x, "completed")
  /\ UNCHANGED <<mapVars, file, data, netVars, told, closed>>

\* The one entry of an empty folder is the folder itself, and is skipped: no
\* folder comes of it.
ExtractNothing(x) ==
  /\ At(x, "extract")
  /\ IsArchive(pc[x].path, TRUE)
  /\ disk' = [disk EXCEPT ![pc[x].path] = "none"]
  /\ Goto(x, "completed")
  /\ UNCHANGED <<mapVars, file, folders, data, netVars, told, closed>>

\* The archive is not one, or an entry cannot be written.
ExtractFails(x) ==
  /\ \/ /\ At(x, "extract")
        /\ \/ DiskMayFail
           \/ ~IsArchive(pc[x].path, TRUE) /\ ~IsArchive(pc[x].path, FALSE)
           \/ IsArchive(pc[x].path, FALSE) /\ disk[pc[x].folder] # "none"
     \/ At(x, "extracting") /\ DiskMayFail
  /\ Goto(x, "failed")
  /\ UNCHANGED <<mapVars, diskVars, netVars, told, closed>>

Report(x) ==
  /\ MuFree
  /\ \/ At(x, "completed") /\ Tell(pc[x].of, "Completed")
     \/ At(x, "failed") /\ Tell(pc[x].of, "Failed")
  /\ Return(x)
  /\ UNCHANGED <<mapVars, diskVars, netVars, closed>>

FinishStep(x) == \/ BeginFinish(x) \/ Rename(x) \/ RenameFails(x) \/ Extract(x)
                 \/ Extracted(x) \/ ExtractNothing(x) \/ ExtractFails(x) \/ Report(x)

------------------------------------------------------------------------------
(* The end                                                                 *)

\* Unmarshal fails: readLoop closes the progress channel and returns.
LinkDown ==
  /\ LinkMayFail \/ closed
  /\ link = "up" /\ At("loop", "idle")
  /\ MuFree
  /\ link' = "down"
  /\ UNCHANGED <<mapVars, diskVars, pc, offered, accepts, arrived, told, closed>>

\* The user quits: every file is closed, the maps are emptied and the
\* connection is closed, while readLoop may be in the middle of a chunk.
Close ==
  /\ At("ui", "idle") /\ ~closed
  /\ file' = [o \in Offers |-> IF o \in fileWriters THEN "none" ELSE file[o]]
  /\ fileWriters' = {}
  /\ savePaths' = [o \in Offers |-> NoPath]
  /\ dirTransfers' = [o \in Offers |-> NoPath]
  /\ closed' = TRUE
  /\ UNCHANGED <<fileOffers, disk, folders, data, pc, netVars, told>>

UiStep == AcceptFails \/ Create \/ Reply \/ ReplyFails \/ FinishStep("ui")
LoopStep == WriteChunk \/ WriteFails \/ FinishStep("loop")

Next == \/ \E o \in Offers : \/ HandleFileOffer(o) \/ RejectTransfer(o) \/ AcceptTransfer(o)
                             \/ AcceptHangs(o) \/ HandleChunk(o)
        \/ UiStep \/ LoopStep \/ LinkDown \/ Close

Safety == Init /\ [][Next]_vars

(* Both goroutines run.  Nothing obliges the host to send: SendToPeer may  *)
(* give up in the middle of a file and says nothing to the receiver.       *)
Fairness == WF_vars(UiStep) /\ WF_vars(LoopStep)

Spec == Safety /\ Fairness

------------------------------------------------------------------------------
(* Properties                                                              *)

FinishPC == {"forget", "rename", "extract", "extracting", "completed", "failed"}

\* The values the variables range over; a writer that is registered has its
\* path, and its file open.
TypeOK ==
  /\ fileOffers \subseteq Offers /\ fileWriters \subseteq Offers
  /\ savePaths \in [Offers -> Paths \cup {NoPath}]
  /\ dirTransfers \in [Offers -> Paths \cup {NoPath}]
  /\ \A o \in fileWriters : savePaths[o] # NoPath /\ file[o] # "none"
  /\ file \in [Offers -> Inodes \cup {"none"}]
  /\ disk \in [Paths -> Inodes \cup {"none"}]
  /\ folders \in [Paths -> {"none", "half", "whole"}]
  /\ data \in [Inodes -> [Slots -> Offers \cup {"none", "old"}]]
  /\ pc["ui"].at \in {"idle", "search", "create", "reply"} \cup FinishPC
  /\ pc["loop"].at \in {"idle", "write"} \cup FinishPC
  /\ \A x \in {"ui", "loop"} : At(x, "idle") \/ pc[x].of \in Offers
  /\ offered \subseteq Offers /\ accepts \subseteq offered
  /\ arrived \in [Offers -> Nat]
  /\ told \in [Offers -> {"nothing", "InProgress", "Completed", "Failed"}]
  /\ closed \in BOOLEAN /\ link \in {"up", "down"}

\* The paths that are the real name of an offer's file, folder or archive.
RealNames == UNION {NamesOf(o) \cup Artifacts(o) : o \in Offers}

\* "Only a complete, verified file gets renamed to its real name"
\* (README.md:124-125): what has a real name is from then on the whole of one
\* offered file, or the old file that had the name before.
FilesWhole ==
  \A p \in RealNames : disk[p] # "none" =>
    \/ p \in Present /\ disk[p] = p /\ data[p] = OldData
    \/ \E o \in Offers : Holds(disk[p], o)

\* "You never see half a file under its real name" (README.md:209-210), for the
\* files of a folder too.
FoldersWhole == \A p \in Paths : folders[p] # "half"

\* Under an old name or a real one a file stays with what it holds, and only the
\* archive that was just extracted goes.
FilesStay ==
  \A p \in Present \cup RealNames : disk[p] # "none" =>
    \/ disk'[p] = disk[p] /\ data'[disk[p]] = data[disk[p]]
    \/ /\ disk'[p] = "none"
       /\ \E x \in {"ui", "loop"} :
            pc[x].path = p /\ pc[x].at \in {"extract", "extracting"} /\ pc'[x].at = "completed"

\* A folder is only written to by the extraction that began it.
FoldersStay ==
  \A p \in Paths : folders[p] # "none" /\ folders'[p] # folders[p] =>
    \E x \in {"ui", "loop"} : At(x, "extracting") /\ pc[x].folder = p

\* "name collisions get renamed (`report(1).pdf`), never overwritten" (README.md:57):
\* no os.Create, no rename and no extraction lands on what is in place.
NeverReplaced == [][FilesStay /\ FoldersStay]_vars

\* A transfer reported as completed is on the disk: one of its paths holds
\* exactly its chunks, or its folder is there, whole.  An empty folder is
\* reported as completed and is not there.
CompletedIsOnDisk ==
  \A o \in Offers \ Empty : told[o] = "Completed" =>
    IF o \in Folders
    THEN \E p \in NamesOf(o) : folders[p] = "whole"
    ELSE \E p \in NamesOf(o) : disk[p] = o /\ Holds(o, o)

\* The host is asked for a file only when its chunks can be stored: from the
\* FileAccept on the transfer has its writer until every chunk has been taken,
\* unless it has been reported as failed or the receiver was closed.
AcceptedHasWriter ==
  \A o \in accepts :
    arrived[o] < SizeOf[o] /\ told[o] # "Failed" /\ ~closed /\ link = "up"
      => o \in fileWriters

\* Once the last chunk of an accepted transfer has arrived the transfer is
\* reported as completed or as failed, unless the user quits, the connection
\* breaks, or uniquePath keeps r.mu for ever for another offer.
TransferEnds ==
  \A o \in Offers :
    (o \in accepts /\ arrived[o] = SizeOf[o]) ~>
      \/ told[o] \in {"Completed", "Failed"}
      \/ closed \/ link = "down" \/ At("ui", "search")

==============================================================================
