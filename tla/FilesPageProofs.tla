--------------------------- MODULE FilesPageProofs ---------------------------
(***************************************************************************)
(* The listing of the file manager is that of the directory named above    *)
(* it: for any disk, any number of requests in flight and any order of     *)
(* their answers.                                                          *)
(*                                                                         *)
(* useAsync drops the answers of earlier runs, so that every request whose *)
(* answer may still be taken is about the current directory.               *)
(*                                                                         *)
(* The drafts are honest and no edit is lost: what a read found and what a *)
(* save is through with has been on the disk, and a draft that was not     *)
(* edited under way is dirty or stored and known to the requests that will *)
(* write it (DraftKept).                                                   *)
(***************************************************************************)
EXTENDS FilesPage, SequenceTheorems, TLAPS

\* An answer that may be shown in directory d.
ListsDirectory(ans, d) == ans \notin {Waiting, Failed} => ans[2].dir = d

HookOfDirectory(hook) ==
    /\ hook = [deps |-> hook.deps, data |-> hook.data, failed |-> hook.failed, calls |-> hook.calls]
    /\ \A c \in hook.calls :
         c = [deps |-> hook.deps, ans |-> c.ans] /\ ListsDirectory(c.ans, hook.deps)

\* The inductive invariant.
ListingInv == HookOfDirectory(filesHook) /\ RowsOfThisDirectory

-----------------------------------------------------------------------------

\* The service lists the directory it was asked for, or fails.
LEMMA BrowseListsDirectory ==
  ASSUME NEW disk, NEW d PROVE ListsDirectory(FilesBrowse(disk, d), d)
  <1>1. CASE disk[d] = Dir
    <2> DEFINE children == {p \in FilesPaths \ {<<>>} : parentPath(p) = d /\ disk[p] # None}
               listing == [dir |-> d, dirs |-> {p \in children : disk[p] = Dir}, files |-> {p \in children : disk[p] # Dir}]
    <2>1. FilesBrowse(disk, d) = <<"ok", listing>>
      BY <1>1 DEF FilesBrowse, Value
    <2>2. listing.dir = d
      OBVIOUS
    <2> HIDE DEF listing
    <2> QED
      BY <2>1, <2>2 DEF ListsDirectory
  <1>2. CASE disk[d] # Dir
    BY <1>2 DEF FilesBrowse, ListsDirectory
  <1> QED
    BY <1>1, <1>2

\* A run: at the mount, on a navigation, on a reload.
LEMMA ListingRuns ==
  ASSUME ListingInv, NEW d, filesHook' = AsyncRun(filesHook, d)
  PROVE  ListingInv'
  <1>1. filesHook' = [deps |-> d, data |-> IF d = filesHook.deps THEN filesHook.data ELSE NoData, failed |-> FALSE,
                      calls |-> {[deps |-> d, ans |-> Waiting]}]
    BY DEF AsyncRun
  <1>2. /\ filesHook'.deps = d
        /\ filesHook'.data = IF d = filesHook.deps THEN filesHook.data ELSE NoData
        /\ filesHook'.calls = {[deps |-> d, ans |-> Waiting]}
    BY <1>1
  <1>3. HookOfDirectory(filesHook)'
    BY <1>1, <1>2 DEF HookOfDirectory, ListsDirectory
  <1>4. RowsOfThisDirectory'
    BY <1>2 DEF ListingInv, RowsOfThisDirectory, FilesCurrentPath
  <1> QED
    BY <1>3, <1>4 DEF ListingInv

LEMMA ListingReloaded ==
  ASSUME ListingInv, filesHook' = AsyncReload(filesHook) PROVE ListingInv'
  BY ListingRuns DEF AsyncReload

LEMMA ListingServed ==
  ASSUME ListingInv, NEW c \in filesHook.calls, FilesServeListing(c)
  PROVE  ListingInv'
  <1>1. PICK res \in {FilesBrowse(filesDisk, c.deps), Failed} : filesHook' = AsyncServe(filesHook, c, res)
    BY DEF FilesServeListing
  <1>2. c.deps = filesHook.deps /\ c = [deps |-> filesHook.deps, ans |-> c.ans]
    BY DEF ListingInv, HookOfDirectory
  <1>3. ListsDirectory(res, filesHook.deps)
    BY <1>2, BrowseListsDirectory DEF ListsDirectory
  <1> DEFINE served == [c EXCEPT !.ans = res]
  <1>4. served = [deps |-> filesHook.deps, ans |-> res] /\ served.ans = res
    BY <1>2
  <1>5. filesHook' = [filesHook EXCEPT !.calls = (filesHook.calls \ {c}) \cup {served}]
    BY <1>1 DEF AsyncServe
  <1> HIDE DEF served
  <1>6. /\ filesHook' = [deps |-> filesHook.deps, data |-> filesHook.data, failed |-> filesHook.failed,
                         calls |-> (filesHook.calls \ {c}) \cup {served}]
    BY <1>5 DEF ListingInv, HookOfDirectory
  <1>7. HookOfDirectory(filesHook)'
    BY <1>3, <1>4, <1>6 DEF ListingInv, HookOfDirectory
  <1>8. RowsOfThisDirectory'
    BY <1>6 DEF ListingInv, RowsOfThisDirectory, FilesCurrentPath
  <1> QED
    BY <1>7, <1>8 DEF ListingInv

LEMMA ListingAnswered ==
  ASSUME ListingInv, NEW c \in filesHook.calls, FilesListingArrives(c)
  PROVE  ListingInv'
  <1>1. c.ans # Waiting /\ filesHook' = AsyncDeliver(filesHook, c)
    BY DEF FilesListingArrives
  <1>2. ListsDirectory(c.ans, filesHook.deps)
    BY DEF ListingInv, HookOfDirectory
  <1>3. filesHook' = [deps |-> filesHook.deps, data |-> IF c.ans = Failed THEN filesHook.data ELSE c.ans,
                      failed |-> c.ans = Failed, calls |-> filesHook.calls \ {c}]
    BY <1>1 DEF AsyncDeliver, ListingInv, HookOfDirectory
  <1>4. HookOfDirectory(filesHook)'
    BY <1>3 DEF ListingInv, HookOfDirectory
  <1>5. RowsOfThisDirectory'
    BY <1>1, <1>2, <1>3 DEF ListingInv, RowsOfThisDirectory, FilesCurrentPath, ListsDirectory
  <1> QED
    BY <1>4, <1>5 DEF ListingInv

LEMMA ListingInit == FilesInit => ListingInv
  BY DEF FilesInit, AsyncMount, ListingInv, HookOfDirectory, ListsDirectory, RowsOfThisDirectory

LEMMA ListingNext == ListingInv /\ [FilesNext]_filesVars => ListingInv'
  <1> SUFFICES ASSUME ListingInv, [FilesNext]_filesVars PROVE ListingInv'
    OBVIOUS
  <1>1. CASE UNCHANGED filesHook
    BY <1>1 DEF ListingInv, RowsOfThisDirectory, FilesCurrentPath
  <1>2. ASSUME NEW d \in FilesPaths, FilesNavigate(d) PROVE ListingInv'
    BY <1>2, ListingRuns DEF FilesNavigate
  <1>3. CASE FilesReload
    BY <1>3, ListingReloaded DEF FilesReload
  <1>4. ASSUME NEW c \in filesHook.calls, FilesServeListing(c) \/ FilesListingArrives(c) PROVE ListingInv'
    BY <1>4, ListingServed, ListingAnswered
  <1>5. ASSUME NEW p \in FilesPaths, TickRow(p) \/ OpenEntry(p) \/ DeleteEntry(p) PROVE ListingInv'
    BY <1>1, <1>5 DEF TickRow, OpenEntry, DeleteEntry
  <1>6. CASE FilesCloseViewer \/ SaveSelected \/ RunBatchSave \/ RunBatchDelete \/ FilesCloseModal
    BY <1>1, <1>6 DEF FilesCloseViewer, SaveSelected, RunBatchSave, RunBatchDelete, FilesCloseModal, filesPageVars
  <1>7. ASSUME NEW text, FilesType(text) PROVE ListingInv'
    BY <1>1, <1>7 DEF FilesType
  <1>8. ASSUME NEW op, SelectedToParent(op) PROVE ListingInv'
    BY <1>1, <1>8 DEF SelectedToParent
  <1>9. ASSUME NEW p, NEW q, MoveDroppedPath(p, q) \/ FilesOpenModal(p, q) \/ UploadDropped(p) \/ FilesOther(p, q)
        PROVE  ListingInv'
    BY <1>1, <1>9 DEF MoveDroppedPath, FilesOpenModal, UploadDropped, FilesOther
  <1>10. ASSUME NEW dst, FilesSubmitModal(dst) PROVE ListingInv'
    BY <1>1, <1>10, ListingReloaded DEF FilesSubmitModal
  <1>11. ASSUME NEW i, FilesServeStat(i) \/ FilesServeCall(i) \/ FilesServeRead(i) \/ FilesCallLost(i)
                       \/ FilesCallFails(i) \/ FilesReadArrives(i)
         PROVE  ListingInv'
    BY <1>1, <1>11 DEF FilesServeStat, FilesServeCall, FilesServeRead, FilesCallLost, FilesCallFails, FilesReadArrives
  <1>12. ASSUME NEW i, FilesCallArrives(i) PROVE ListingInv'
    BY <1>12, ListingReloaded, Zenon DEF FilesCallArrives, HookAfter
  <1>13. CASE UNCHANGED filesVars
    BY <1>1, <1>13 DEF filesVars
  <1> QED
    BY <1>2, <1>3, <1>4, <1>5, <1>6, <1>7, <1>8, <1>9, <1>10, <1>11, <1>12, <1>13 DEF FilesNext

\* useAsync and the Files page: the rows on show are those of the directory named
\* above them, whatever order listings are answered in and however many of them,
\* with reloads, navigations and changes by others in between.
THEOREM ListingIsOfThisDirectory == FilesSpec => []RowsOfThisDirectory
  <1>1. ListingInv => RowsOfThisDirectory
    BY DEF ListingInv
  <1> QED
    BY <1>1, ListingInit, ListingNext, PTL DEF FilesSpec
-----------------------------------------------------------------------------
(* What a draft and a request in flight have to do with the disk.          *)

FilesDisks == [FilesPaths -> {None, Dir} \cup FilesTexts]
FilesItem == FilesPaths \X (FilesTexts \cup {""})

FilesOps ==
    Dialogs \cup {"read", "save", "batchSave", "delete", "batchDelete", "copyUp", "moveUp", "drop", "dropUpload"}

FilesAnswer == {Waiting, Failed} \cup {Value(x) : x \in FilesTexts \cup {""}}

FilesRequest ==
    [op : FilesOps,
     path : FilesPaths \cup {NoPath}, to : FilesPaths \cup {NoPath},
     items : SUBSET FilesItem, todo : SUBSET FilesItem, found : SUBSET FilesItem, there : BOOLEAN,
     mine : BOOLEAN, ans : FilesAnswer]

Draft == [text : FilesTexts, dirty : BOOLEAN, raced : BOOLEAN]

FilesPageOK ==
    /\ filesHook.deps \in FilesPaths
    /\ filesViewer \in FilesPaths \cup {NoPath}
    /\ filesSelected \in FilesPaths \cup {NoPath}
    /\ filesChecked \subseteq FilesPaths
    /\ filesModal \in Dialogs \cup {NoModal}
    /\ filesOthers \in Nat

\* The texts on a disk, at their paths.
OnDisk(disk) == {<<p, disk[p]>> : p \in {q \in FilesEditable : IsFile(disk, q)}}

FilesDiskOK == filesDisk \in FilesDisks /\ OnDisk(filesDisk) \subseteq filesWritten

\* W: what has been on the disk.  What a read found has been there, and so have
\* the items that a save is through with; a save is about to write what it found.
AnswerStored(W, c) ==
    /\ c.found # {} => c.there
    /\ c.op = "read" =>
         /\ c.path \in FilesEditable
         /\ c.ans \notin {Waiting, Failed} => c.ans[2] \in FilesTexts /\ <<c.path, c.ans[2]>> \in W
    /\ c.op = "save" => \E t \in FilesTexts : c.items = {<<c.path, t>>}
    /\ c.op \in {"save", "batchSave"} =>
         /\ c.items \subseteq FilesEditable \X FilesTexts
         /\ c.todo \subseteq c.items /\ c.items \ c.todo \subseteq W
         /\ c.ans = Value("") => c.todo = {}
         /\ c.ans = Waiting => c.found \subseteq c.todo

FilesCallsOK ==
    /\ filesCalls \in Seq(FilesRequest) /\ Len(filesCalls) <= FilesMaxCalls
    /\ \A i \in DOMAIN filesCalls : AnswerStored(filesWritten, filesCalls[i])

\* C: the requests in flight.  A draft that was not edited under way is dirty or
\* stored, a batch save under way knows it, a save under way was sent with its
\* text, and no read is to come.
DraftKept(W, C, p, d) ==
    \/ d.raced
    \/ /\ d.dirty \/ <<p, d.text>> \in W
       /\ \A i \in DOMAIN C :
            /\ C[i].op = "batchSave" => <<p, d.text>> \in W \cup C[i].items
            /\ d.dirty /\ C[i].path = p =>
                 /\ C[i].op # "read"
                 /\ C[i].op = "save" => C[i].items = {<<p, d.text>>}

DraftsKept ==
    /\ DOMAIN filesDrafts \subseteq FilesEditable
    /\ \A p \in DOMAIN filesDrafts :
         filesDrafts[p] \in Draft /\ DraftKept(filesWritten, filesCalls, p, filesDrafts[p])

\* The inductive invariant.
EditInv == ListingInv /\ FilesPageOK /\ FilesDiskOK /\ FilesCallsOK /\ DraftsKept

-----------------------------------------------------------------------------
(* Every outcome of the service leaves a disk.                             *)

LEMMA DiskFacts ==
  ASSUME NEW disk \in FilesDisks, NEW p
  PROVE  /\ \A x \in {None, Dir} \cup FilesTexts : [disk EXCEPT ![p] = x] \in FilesDisks
         /\ MkdirAll(disk, p).disk \in FilesDisks
         /\ IsFile(disk, p) => disk[p] \in FilesTexts
  <1>1. \A x \in {None, Dir} \cup FilesTexts : [disk EXCEPT ![p] = x] \in FilesDisks
    BY DEF FilesDisks
  <1>2. MkdirAll(disk, p).disk \in FilesDisks
    <2>1. CASE \E r \in FilesPaths : IsPrefix(r, p) /\ IsFile(disk, r)
      BY <2>1 DEF MkdirAll, Refused
    <2>2. CASE ~\E r \in FilesPaths : IsPrefix(r, p) /\ IsFile(disk, r)
      <3>1. [r \in FilesPaths |-> IF IsPrefix(r, p) THEN Dir ELSE disk[r]] \in FilesDisks
        BY DEF FilesDisks
      <3> QED
        BY <2>2, <3>1 DEF MkdirAll, Fulfilled
    <2> QED
      BY <2>1, <2>2
  <1>3. IsFile(disk, p) => disk[p] \in FilesTexts
    BY DEF IsFile, FilesDisks
  <1> QED
    BY <1>1, <1>2, <1>3

LEMMA WriteLeavesADisk ==
  ASSUME NEW disk \in FilesDisks, NEW p, NEW t \in FilesTexts
  PROVE  WriteFile(disk, p, t).disk \in FilesDisks
  BY DiskFacts DEF WriteFile, Fulfilled, Refused

LEMMA DeleteLeavesADisk ==
  ASSUME NEW disk \in FilesDisks, NEW p
  PROVE  FilesDelete(disk, p).disk \in FilesDisks
  <1>1. [q \in FilesPaths |-> IF IsPrefix(p, q) THEN None ELSE disk[q]] \in FilesDisks
    BY DEF FilesDisks
  <1> QED
    BY <1>1 DEF FilesDelete, Fulfilled

\* What is put at a path lay at another one.
LEMMA MovedIsThere ==
  ASSUME NEW disk \in FilesDisks, NEW src, NEW dst, NEW q \in FilesCovered(disk, src, dst)
  PROVE  FilesMoved(disk, src, dst, q) \in {None, Dir} \cup FilesTexts
  BY DEF FilesCovered, FilesMoved, FilesDisks

LEMMA CopyLeavesADisk ==
  ASSUME NEW disk \in FilesDisks, NEW src, NEW dst, NEW out \in CopyPath(disk, src, dst)
  PROVE  out.disk \in FilesDisks
  <1> DEFINE parents == MkdirAll(disk, IF disk[src] = Dir THEN dst ELSE parentPath(dst))
             clash == {q \in FilesCovered(disk, src, dst) :
                         parents.disk[q] # None /\ (parents.disk[q] = Dir) # (FilesMoved(disk, src, dst, q) = Dir)}
             put(S) == [q \in FilesPaths |-> IF q \in S THEN FilesMoved(disk, src, dst, q) ELSE parents.disk[q]]
             free == FilesCovered(disk, src, dst) \ UNION {FilesUnder(q) : q \in clash}
  <1>1. parents.disk \in FilesDisks
    BY DiskFacts
  <1> HIDE DEF parents
  <1>2. ASSUME NEW S \in SUBSET FilesCovered(disk, src, dst) PROVE put(S) \in FilesDisks
    <2>1. \A q \in FilesPaths : parents.disk[q] \in {None, Dir} \cup FilesTexts
      BY <1>1 DEF FilesDisks
    <2>2. \A q \in S : FilesMoved(disk, src, dst, q) \in {None, Dir} \cup FilesTexts
      BY MovedIsThere
    <2> QED
      BY <2>1, <2>2 DEF FilesDisks
  <1>3. \/ out = Refused(parents.disk) \/ out = Refused(disk)
        \/ out = Fulfilled(put(FilesCovered(disk, src, dst)))
        \/ \E S \in SUBSET free : out = Refused(put(S))
    BY DEF CopyPath, parents
  <1>4. CASE out = Refused(parents.disk) \/ out = Refused(disk)
    BY <1>1, <1>4 DEF Refused
  <1>5. CASE out = Fulfilled(put(FilesCovered(disk, src, dst)))
    BY <1>2, <1>5 DEF Fulfilled
  <1>6. ASSUME NEW S \in SUBSET free, out = Refused(put(S)) PROVE out.disk \in FilesDisks
    <2>1. S \in SUBSET FilesCovered(disk, src, dst)
      OBVIOUS
    <2> HIDE DEF put
    <2> QED
      BY <1>2, <1>6, <2>1 DEF Refused
  <1> QED
    BY <1>3, <1>4, <1>5, <1>6
LEMMA MoveLeavesADisk ==
  ASSUME NEW disk \in FilesDisks, NEW src, NEW dst
  PROVE  MovePath(disk, src, dst).disk \in FilesDisks
  <1> DEFINE here == MkdirAll(disk, parentPath(dst)).disk
             moved == [q \in FilesPaths |-> IF q \in FilesCovered(here, src, dst) THEN FilesMoved(here, src, dst, q)
                                           ELSE IF IsPrefix(src, q) THEN None ELSE here[q]]
  <1>1. here \in FilesDisks
    BY DiskFacts
  <1> HIDE DEF here
  <1>2. moved \in FilesDisks
    <2>1. \A q \in FilesPaths : here[q] \in {None, Dir} \cup FilesTexts
      BY <1>1 DEF FilesDisks
    <2>2. \A q \in FilesCovered(here, src, dst) : FilesMoved(here, src, dst, q) \in {None, Dir} \cup FilesTexts
      BY <1>1, MovedIsThere
    <2> QED
      BY <2>1, <2>2 DEF FilesDisks
  <1> HIDE DEF moved
  <1>3. MovePath(disk, src, dst) \in {Refused(here), Fulfilled(here), Fulfilled(moved)}
    BY DEF MovePath, here, moved
  <1> QED
    BY <1>1, <1>2, <1>3 DEF Refused, Fulfilled

LEMMA ExtractLeavesADisk ==
  ASSUME NEW disk \in FilesDisks, NEW p, NEW dst, NEW out \in ExtractArchive(disk, p, dst)
  PROVE  out.disk \in FilesDisks
  <1> DEFINE made == MkdirAll(disk, dst)
  <1>1. made.disk \in FilesDisks
    BY DiskFacts
  <1> HIDE DEF made
  <1>2. \/ out = Refused(disk) \/ out = Refused(made.disk)
        \/ \E q \in FilesPaths, t \in FilesTexts : out = Fulfilled([made.disk EXCEPT ![q] = t])
    BY DEF ExtractArchive, made, FilesUnder
  <1>3. CASE out = Refused(disk) \/ out = Refused(made.disk)
    BY <1>1, <1>3 DEF Refused
  <1>4. ASSUME NEW q \in FilesPaths, NEW t \in FilesTexts, out = Fulfilled([made.disk EXCEPT ![q] = t])
        PROVE  out.disk \in FilesDisks
    BY <1>1, <1>4, DiskFacts DEF Fulfilled
  <1> QED
    BY <1>2, <1>3, <1>4

LEMMA ActionLeavesADisk ==
  ASSUME NEW disk \in FilesDisks, NEW act \in Dialogs, NEW src, NEW dst, NEW out \in FilesAction(disk, act, src, dst)
  PROVE  out.disk \in FilesDisks
  <1>1. act \in {"copy", "move", "chmod", "extract", "file", "folder", "upload"}
    BY DEF Dialogs, RowDialogs
  <1>2. CASE act = "copy"
    BY <1>2, CopyLeavesADisk DEF FilesAction
  <1>3. CASE act = "move"
    BY <1>3, MoveLeavesADisk DEF FilesAction
  <1>4. CASE act = "chmod"
    BY <1>4 DEF FilesAction
  <1>5. CASE act = "extract"
    BY <1>5, ExtractLeavesADisk DEF FilesAction
  <1>6. CASE act \in {"file", "upload"}
    <2>1. \E t \in FilesTexts : out = WriteFile(disk, dst, t)
      BY <1>6 DEF FilesAction
    <2> QED
      BY <2>1, WriteLeavesADisk
  <1>7. CASE act = "folder"
    BY <1>7, DiskFacts DEF FilesAction
  <1> QED
    BY <1>1, <1>2, <1>3, <1>4, <1>5, <1>6, <1>7

LEMMA OutcomesAreDisks ==
  ASSUME filesDisk \in FilesDisks, NEW c \in FilesRequest, c.op # "read", NEW item,
         c.op \in {"save", "batchSave"} => item[2] \in FilesTexts,
         NEW out \in FilesOutcomes(c, item)
  PROVE  out.disk \in FilesDisks
  <1>1. \/ c.op \in {"save", "batchSave"} \/ c.op \in {"delete", "batchDelete"}
        \/ c.op = "copyUp" \/ c.op = "moveUp" \/ c.op = "drop" \/ c.op = "dropUpload" \/ c.op \in Dialogs
    BY DEF FilesRequest, FilesOps
  <1>2. CASE c.op \in {"save", "batchSave"}
    <2>1. out = WriteFile(filesDisk, item[1], item[2])
      BY <1>2 DEF FilesOutcomes, FilesSaves, Dialogs, RowDialogs
    <2> QED
      BY <1>2, <2>1, WriteLeavesADisk
  <1>3. CASE c.op \in {"delete", "batchDelete"}
    <2>1. out = FilesDelete(filesDisk, item[1])
      BY <1>3 DEF FilesOutcomes, Dialogs, RowDialogs
    <2> QED
      BY <2>1, DeleteLeavesADisk
  <1>4. CASE c.op = "copyUp"
    <2>1. out \in CopyPath(filesDisk, item[1], joinPath(c.to, item[1]))
      BY <1>4 DEF FilesOutcomes, Dialogs, RowDialogs
    <2> QED
      BY <2>1, CopyLeavesADisk
  <1>5. CASE c.op = "moveUp"
    <2>1. out = MovePath(filesDisk, item[1], joinPath(c.to, item[1]))
      BY <1>5 DEF FilesOutcomes, Dialogs, RowDialogs
    <2> QED
      BY <2>1, MoveLeavesADisk
  <1>6. CASE c.op = "drop"
    <2>1. out = MovePath(filesDisk, c.path, c.to)
      BY <1>6 DEF FilesOutcomes, Dialogs, RowDialogs
    <2> QED
      BY <2>1, MoveLeavesADisk
  <1>7. CASE c.op = "dropUpload"
    <2>1. out \in FilesAction(filesDisk, "upload", c.path, c.to)
      BY <1>7 DEF FilesOutcomes, Dialogs, RowDialogs
    <2>2. "upload" \in Dialogs
      BY DEF Dialogs
    <2> QED
      BY <2>1, <2>2, ActionLeavesADisk
  <1>8. CASE c.op \in Dialogs
    <2>1. out \in FilesAction(filesDisk, c.op, c.path, c.to)
      BY <1>8 DEF FilesOutcomes, Dialogs, RowDialogs
    <2> QED
      BY <1>8, <2>1, ActionLeavesADisk
  <1> QED
    BY <1>1, <1>2, <1>3, <1>4, <1>5, <1>6, <1>7, <1>8

\* A save that succeeds has stored the text it was given.
LEMMA SavedIsOnDisk ==
  ASSUME NEW disk \in FilesDisks, NEW p \in FilesEditable, NEW t \in FilesTexts, WriteFile(disk, p, t).ok
  PROVE  <<p, t>> \in OnDisk(WriteFile(disk, p, t).disk)
  <1>1. WriteFile(disk, p, t).disk = [disk EXCEPT ![p] = t]
    BY DEF WriteFile, Fulfilled, Refused
  <1>2. p \in FilesPaths /\ [disk EXCEPT ![p] = t][p] = t
    BY FilesAssumption DEF FilesDisks
  <1>3. t \notin {None, Dir}
    BY FilesAssumption DEF Dir
  <1> QED
    BY <1>1, <1>2, <1>3 DEF OnDisk, IsFile
-----------------------------------------------------------------------------
(* The requests and the drafts after a step.                               *)

\* Without its i-th element a sequence has only others of its elements.
LEMMA ForgetTakes ==
  ASSUME NEW S, NEW q \in Seq(S), NEW i \in DOMAIN q
  PROVE  /\ Forget(q, i) \in Seq(S)
         /\ Len(Forget(q, i)) <= Len(q)
         /\ \A k \in DOMAIN Forget(q, i) : \E j \in DOMAIN q \ {i} : Forget(q, i)[k] = q[j]
  <1> DEFINE a == SubSeq(q, 1, i - 1)
             b == SubSeq(q, i + 1, Len(q))
  <1>1. Len(q) \in Nat /\ DOMAIN q = 1 .. Len(q) /\ i \in 1 .. Len(q) /\ \A j \in 1 .. Len(q) : q[j] \in S
    BY LenProperties, ElementOfSeq
  <1>2. a \in Seq(S) /\ Len(a) = i - 1 /\ \A j \in 1 .. i - 1 : a[j] = q[j]
    <2>1. \A j \in 1 .. i - 1 : q[j] \in S
      BY <1>1
    <2> QED
      BY <1>1, <2>1, SubSeqProperties
  <1>3. b \in Seq(S) /\ Len(b) = Len(q) - i /\ \A j \in 1 .. Len(q) - i : b[j] = q[i + j]
    <2>1. \A j \in i + 1 .. Len(q) : q[j] \in S
      BY <1>1
    <2>2. /\ b \in Seq(S)
          /\ Len(b) = IF i + 1 <= Len(q) THEN Len(q) - (i + 1) + 1 ELSE 0
          /\ \A j \in 1 .. Len(q) - (i + 1) + 1 : b[j] = q[(i + 1) + j - 1]
      BY <1>1, <2>1, SubSeqProperties
    <2>3. Len(q) - (i + 1) + 1 = Len(q) - i /\ \A j \in 1 .. Len(q) - i : (i + 1) + j - 1 = i + j
      BY <1>1
    <2> QED
      BY <1>1, <2>2, <2>3
  <1> HIDE DEF a, b
  <1>4. Forget(q, i) = a \o b
    BY DEF Forget, RemoveAt, a, b
  <1>5. /\ a \o b \in Seq(S)
        /\ Len(a \o b) = Len(a) + Len(b)
        /\ \A k \in 1 .. Len(a) + Len(b) : (a \o b)[k] = IF k <= Len(a) THEN a[k] ELSE b[k - Len(a)]
    BY <1>2, <1>3, ConcatProperties
  <1>6. Len(a \o b) = Len(q) - 1 /\ DOMAIN (a \o b) = 1 .. Len(q) - 1
    <2>1. Len(a) + Len(b) = Len(q) - 1
      BY <1>1, <1>2, <1>3
    <2>2. DOMAIN (a \o b) = 1 .. Len(a \o b)
      BY <1>5, LenProperties
    <2> QED
      BY <1>5, <2>1, <2>2
  <1>7. ASSUME NEW k \in 1 .. Len(q) - 1 PROVE \E j \in DOMAIN q \ {i} : (a \o b)[k] = q[j]
    <2>1. (a \o b)[k] = IF k <= i - 1 THEN a[k] ELSE b[k - (i - 1)]
      <3>1. Len(a) = i - 1 /\ k \in 1 .. Len(a) + Len(b)
        BY <1>1, <1>2, <1>3
      <3> QED
        BY <1>5, <3>1
    <2>2. CASE k <= i - 1
      <3>1. k \in 1 .. i - 1 /\ k \in DOMAIN q \ {i}
        BY <1>1, <2>2
      <3> QED
        BY <1>2, <2>1, <2>2, <3>1
    <2>3. CASE ~(k <= i - 1)
      <3>1. k - (i - 1) \in 1 .. Len(q) - i /\ i + (k - (i - 1)) = k + 1 /\ k + 1 \in DOMAIN q \ {i}
        BY <1>1, <2>3
      <3>2. b[k - (i - 1)] = q[k + 1]
        BY <1>3, <3>1
      <3> QED
        BY <2>1, <2>3, <3>1, <3>2
    <2> QED
      BY <2>2, <2>3
  <1>8. Len(q) - 1 <= Len(q)
    BY <1>1
  <1> QED
    BY <1>4, <1>5, <1>6, <1>7, <1>8

\* c asks for the same as d.
SameRequest(c, d) == c.op = d.op /\ c.path = d.path /\ c.items = d.items

LEMMA AnswerStays ==
  ASSUME NEW W, NEW U, W \subseteq U, NEW c, AnswerStored(W, c) PROVE AnswerStored(U, c)
  BY Zenon DEF AnswerStored

\* A draft stays what it is while more gets stored and nothing new is sent.
LEMMA DraftStays ==
  ASSUME NEW W, NEW U, W \subseteq U, NEW C, NEW D, NEW p, NEW d, DraftKept(W, C, p, d),
         \A k \in DOMAIN D : \E j \in DOMAIN C : SameRequest(D[k], C[j])
  PROVE  DraftKept(U, D, p, d)
  <1> SUFFICES ASSUME ~d.raced PROVE DraftKept(U, D, p, d)
    BY DEF DraftKept
  <1>1. /\ d.dirty \/ <<p, d.text>> \in U
        /\ \A i \in DOMAIN C :
             /\ C[i].op = "batchSave" => <<p, d.text>> \in U \cup C[i].items
             /\ d.dirty /\ C[i].path = p =>
                  /\ C[i].op # "read"
                  /\ C[i].op = "save" => C[i].items = {<<p, d.text>>}
    BY DEF DraftKept
  <1>2. ASSUME NEW k \in DOMAIN D
        PROVE  /\ D[k].op = "batchSave" => <<p, d.text>> \in U \cup D[k].items
               /\ d.dirty /\ D[k].path = p =>
                    /\ D[k].op # "read"
                    /\ D[k].op = "save" => D[k].items = {<<p, d.text>>}
    <2>1. PICK j \in DOMAIN C : SameRequest(D[k], C[j])
      OBVIOUS
    <2> QED
      BY <1>1, <2>1 DEF SameRequest
  <1> QED
    BY <1>1, <1>2 DEF DraftKept

\* A text that is on the disk, in a draft nobody else is about to write.
LEMMA StoredIsKept ==
  ASSUME NEW W, NEW C, NEW p, NEW d, <<p, d.text>> \in W,
         \/ d.raced \/ ~d.dirty
         \/ \A i \in DOMAIN C : C[i].path = p => C[i].op \notin {"read", "save"}
  PROVE  DraftKept(W, C, p, d)
  BY DEF DraftKept

\* What has been on the disk stays known.
LEMMA DiskStep ==
  ASSUME FilesDiskOK, filesDisk' \in FilesDisks, filesWritten' = FilesStored(filesDisk')
  PROVE  FilesDiskOK' /\ filesWritten \subseteq filesWritten'
  BY DEF FilesDiskOK, FilesStored, OnDisk

LEMMA SameDisk ==
  ASSUME FilesDiskOK, UNCHANGED <<filesDisk, filesWritten>> PROVE FilesDiskOK'
  BY DEF FilesDiskOK

LEMMA SameCalls ==
  ASSUME FilesCallsOK, UNCHANGED <<filesCalls, filesWritten>> PROVE FilesCallsOK'
  BY DEF FilesCallsOK

\* The drafts are as they were, and so are the requests, or fewer.
LEMMA SameDrafts ==
  ASSUME DraftsKept, UNCHANGED filesDrafts, filesWritten \subseteq filesWritten',
         \A k \in DOMAIN filesCalls' : \E j \in DOMAIN filesCalls : SameRequest(filesCalls'[k], filesCalls[j])
  PROVE  DraftsKept'
  <1>1. ASSUME NEW p \in DOMAIN filesDrafts
        PROVE  DraftKept(filesWritten', filesCalls', p, filesDrafts[p])
    BY DraftStays DEF DraftsKept
  <1> QED
    BY <1>1 DEF DraftsKept

\* A request is sent.
LEMMA SentRequest ==
  ASSUME FilesCallsOK, NEW c \in FilesRequest, c.ans = Waiting, FilesSend(c), UNCHANGED filesWritten,
         AnswerStored(filesWritten, c)
  PROVE  /\ FilesCallsOK'
         /\ \A k \in DOMAIN filesCalls' :
              filesCalls'[k] = c \/ \E j \in DOMAIN filesCalls : filesCalls'[k] = filesCalls[j]
  <1>1. [c EXCEPT !.ans = Waiting] = c
    BY DEF FilesRequest
  <1>2. filesCalls' = Append(filesCalls, c) /\ filesCalls \in Seq(FilesRequest) /\ Len(filesCalls) < FilesMaxCalls
    BY <1>1 DEF FilesSend, Send, FilesCallsOK
  <1>3. /\ filesCalls' \in Seq(FilesRequest)
        /\ Len(filesCalls') = Len(filesCalls) + 1
        /\ filesCalls'[Len(filesCalls) + 1] = c
        /\ \A i \in 1 .. Len(filesCalls) : filesCalls'[i] = filesCalls[i]
    BY <1>2, AppendProperties
  <1>4. Len(filesCalls) \in Nat /\ DOMAIN filesCalls = 1 .. Len(filesCalls)
    BY <1>2, LenProperties
  <1>5. DOMAIN filesCalls' = 1 .. Len(filesCalls) + 1
    BY <1>3, LenProperties
  <1>6. Len(filesCalls') <= FilesMaxCalls
    <2>1. FilesMaxCalls \in Nat
      BY FilesAssumption
    <2> QED
      BY <1>2, <1>3, <1>4, <2>1
  <1>7. \A k \in DOMAIN filesCalls' :
          filesCalls'[k] = c \/ (k \in DOMAIN filesCalls /\ filesCalls'[k] = filesCalls[k])
    BY <1>3, <1>4, <1>5
  <1>8. \A k \in DOMAIN filesCalls' : AnswerStored(filesWritten', filesCalls'[k])
    BY <1>7 DEF FilesCallsOK
  <1> QED
    BY <1>3, <1>6, <1>7, <1>8 DEF FilesCallsOK
-----------------------------------------------------------------------------
(* The gestures of the user.                                               *)

\* All but the listing.
DraftInv == FilesDiskOK /\ FilesCallsOK /\ DraftsKept

\* Neither the disk nor the drafts nor the requests change.
LEMMA QuietStep ==
  ASSUME DraftInv, UNCHANGED <<filesDisk, filesWritten, filesDrafts, filesCalls>>
  PROVE  DraftInv'
  <1>1. \A k \in DOMAIN filesCalls' : \E j \in DOMAIN filesCalls : SameRequest(filesCalls'[k], filesCalls[j])
    BY DEF SameRequest
  <1> QED
    BY <1>1, SameDisk, SameCalls, SameDrafts DEF DraftInv

LEMMA SamePage ==
  ASSUME FilesPageOK, UNCHANGED <<filesHook, filesPageVars, filesOthers>> PROVE FilesPageOK'
  BY DEF FilesPageOK, filesPageVars

\* The hook moves, the directory stays or becomes d.
LEMMA HookMoves ==
  ASSUME ListingInv, FilesPageOK, UNCHANGED <<filesViewer, filesSelected, filesModal, filesOthers>>,
         filesChecked' \subseteq FilesPaths,
         \/ \E d \in FilesPaths : filesHook' = AsyncRun(filesHook, d)
         \/ filesHook' = AsyncReload(filesHook)
         \/ \E c \in filesHook.calls : \E res : filesHook' = AsyncServe(filesHook, c, res)
         \/ \E c \in filesHook.calls : filesHook' = AsyncDeliver(filesHook, c)
  PROVE  FilesPageOK'
  <1>1. filesHook'.deps \in FilesPaths
    <2>1. filesHook.deps \in FilesPaths
      BY DEF FilesPageOK
    <2>2. filesHook = [deps |-> filesHook.deps, data |-> filesHook.data, failed |-> filesHook.failed,
                       calls |-> filesHook.calls]
      BY DEF ListingInv, HookOfDirectory
    <2>3. ASSUME NEW d \in FilesPaths, filesHook' = AsyncRun(filesHook, d) PROVE filesHook'.deps \in FilesPaths
      BY <2>3 DEF AsyncRun
    <2>4. CASE filesHook' = AsyncReload(filesHook)
      BY <2>1, <2>4 DEF AsyncRun, AsyncReload
    <2>5. ASSUME NEW c, NEW res, filesHook' = AsyncServe(filesHook, c, res) PROVE filesHook'.deps \in FilesPaths
      BY <2>1, <2>2, <2>5 DEF AsyncServe
    <2>6. ASSUME NEW c, filesHook' = AsyncDeliver(filesHook, c) PROVE filesHook'.deps \in FilesPaths
      BY <2>1, <2>2, <2>6, Zenon DEF AsyncDeliver
    <2> QED
      BY <2>3, <2>4, <2>5, <2>6
  <1> QED
    BY <1>1 DEF FilesPageOK

LEMMA PageSteps ==
  ASSUME ListingInv, FilesPageOK, DraftInv,
         \/ FilesReload \/ FilesCloseViewer
         \/ \E c \in filesHook.calls : FilesServeListing(c) \/ FilesListingArrives(c)
         \/ \E p \in FilesPaths : FilesNavigate(p) \/ TickRow(p)
         \/ \E act \in Dialogs, p \in FilesPaths : FilesOpenModal(act, p)
         \/ UNCHANGED filesVars
  PROVE  FilesPageOK' /\ DraftInv'
  <1>1. UNCHANGED <<filesDisk, filesWritten, filesDrafts, filesCalls>>
    BY DEF FilesReload, FilesCloseViewer, FilesServeListing, FilesListingArrives, FilesNavigate, TickRow,
           FilesOpenModal, filesVars, filesPageVars, filesHistory
  <1> SUFFICES FilesPageOK'
    BY <1>1, QuietStep
  <1>2. ASSUME NEW c \in filesHook.calls, FilesServeListing(c) \/ FilesListingArrives(c) PROVE FilesPageOK'
    <2>1. UNCHANGED <<filesViewer, filesSelected, filesModal, filesOthers, filesChecked>>
      BY <1>2 DEF FilesServeListing, FilesListingArrives, filesPageVars, filesHistory
    <2>2. \/ \E res : filesHook' = AsyncServe(filesHook, c, res)
          \/ filesHook' = AsyncDeliver(filesHook, c)
      BY <1>2 DEF FilesServeListing, FilesListingArrives
    <2>3. filesChecked' \subseteq FilesPaths
      BY <2>1 DEF FilesPageOK
    <2> QED
      BY <2>1, <2>2, <2>3, HookMoves
  <1>3. ASSUME NEW d \in FilesPaths, FilesNavigate(d) PROVE FilesPageOK'
    BY <1>3, HookMoves DEF FilesNavigate, filesHistory
  <1>4. CASE FilesReload
    <2>1. UNCHANGED <<filesViewer, filesSelected, filesModal, filesOthers, filesChecked>>
      BY <1>4 DEF FilesReload, filesPageVars, filesHistory
    <2>2. filesHook' = AsyncReload(filesHook) /\ filesChecked' \subseteq FilesPaths
      BY <1>4, <2>1 DEF FilesReload, FilesPageOK
    <2> QED
      BY <2>1, <2>2, HookMoves
  <1>5. ASSUME NEW p \in FilesPaths, TickRow(p) PROVE FilesPageOK'
    BY <1>5 DEF TickRow, FilesPageOK, filesHistory
  <1>6. CASE FilesCloseViewer
    <2>1. /\ UNCHANGED <<filesHook, filesSelected, filesModal, filesOthers, filesChecked>>
          /\ filesViewer' = NoPath
      BY <1>6 DEF FilesCloseViewer, filesHistory
    <2> QED
      BY <2>1 DEF FilesPageOK
  <1>7. ASSUME NEW act \in Dialogs, NEW p \in FilesPaths, FilesOpenModal(act, p) PROVE FilesPageOK'
    BY <1>7 DEF FilesOpenModal, FilesRarely, FilesPageOK
  <1>8. CASE UNCHANGED filesVars
    <2>1. UNCHANGED <<filesHook, filesPageVars, filesOthers>>
      BY <1>8 DEF filesVars, filesPageVars
    <2> QED
      BY <2>1, SamePage
  <1> QED
    BY <1>2, <1>3, <1>4, <1>5, <1>6, <1>7, <1>8

\* A keystroke in the editor.
LEMMA TypeStep ==
  ASSUME FilesPageOK, DraftInv, NEW text \in FilesTexts, FilesType(text)
  PROVE  FilesPageOK' /\ DraftInv'
  <1>1. /\ UNCHANGED <<filesDisk, filesHook, filesViewer, filesChecked, filesSelected, filesModal, filesCalls,
                       filesOthers, filesWritten>>
        /\ filesViewer \in DOMAIN filesDrafts
    BY DEF FilesType, filesHistory, EditorShown
  <1>2. FilesPageOK'
    BY <1>1 DEF FilesPageOK
  <1> DEFINE raced == FilesConcerned(DOMAIN filesCalls, filesViewer)
             d == [text |-> text, dirty |-> TRUE, raced |-> raced]
  <1>3. filesDrafts' = [filesDrafts EXCEPT ![filesViewer] = d]
    BY DEF FilesType
  <1>4. d \in Draft
    <2>1. raced \in BOOLEAN
      BY DEF FilesConcerned
    <2> HIDE DEF raced
    <2> QED
      BY <2>1 DEF Draft
  <1>5. DraftKept(filesWritten, filesCalls, filesViewer, d)
    BY DEF DraftKept, FilesConcerned
  <1> HIDE DEF d
  <1>6. DraftsKept'
    BY <1>1, <1>3, <1>4, <1>5 DEF DraftInv, DraftsKept
  <1> QED
    BY <1>1, <1>2, <1>6, SameDisk, SameCalls DEF DraftInv

\* What a new request has to say about a draft.
Knows(W, c, p, d) ==
    /\ c.op = "batchSave" => d.raced \/ <<p, d.text>> \in W \cup c.items
    /\ d.dirty /\ ~d.raced /\ c.path = p =>
         c.op # "read" /\ (c.op = "save" => c.items = {<<p, d.text>>})

LEMMA RequestStep ==
  ASSUME DraftInv, NEW c \in FilesRequest, c.ans = Waiting, FilesSend(c), UNCHANGED <<filesDisk, filesWritten, filesDrafts>>,
         AnswerStored(filesWritten, c),
         \A p \in DOMAIN filesDrafts : Knows(filesWritten, c, p, filesDrafts[p])
  PROVE  DraftInv'
  <1>1. /\ FilesCallsOK'
        /\ \A k \in DOMAIN filesCalls' :
              filesCalls'[k] = c \/ \E j \in DOMAIN filesCalls : filesCalls'[k] = filesCalls[j]
    BY SentRequest DEF DraftInv
  <1>2. ASSUME NEW p \in DOMAIN filesDrafts PROVE DraftKept(filesWritten, filesCalls', p, filesDrafts[p])
    <2> DEFINE d == filesDrafts[p]
    <2>1. DraftKept(filesWritten, filesCalls, p, d) /\ Knows(filesWritten, c, p, d)
      BY DEF DraftInv, DraftsKept
    <2> HIDE DEF d
    <2>2. d.raced => DraftKept(filesWritten, filesCalls', p, d)
      BY DEF DraftKept
    <2>3. ASSUME ~d.raced, NEW k \in DOMAIN filesCalls'
          PROVE  /\ filesCalls'[k].op = "batchSave" => <<p, d.text>> \in filesWritten \cup filesCalls'[k].items
                 /\ d.dirty /\ filesCalls'[k].path = p =>
                      /\ filesCalls'[k].op # "read"
                      /\ filesCalls'[k].op = "save" => filesCalls'[k].items = {<<p, d.text>>}
      <3>1. CASE filesCalls'[k] = c
        BY <2>1, <2>3, <3>1 DEF Knows
      <3>2. ASSUME NEW j \in DOMAIN filesCalls, filesCalls'[k] = filesCalls[j]
            PROVE  /\ filesCalls'[k].op = "batchSave" => <<p, d.text>> \in filesWritten \cup filesCalls'[k].items
                   /\ d.dirty /\ filesCalls'[k].path = p =>
                        /\ filesCalls'[k].op # "read"
                        /\ filesCalls'[k].op = "save" => filesCalls'[k].items = {<<p, d.text>>}
        BY <2>1, <2>3, <3>2 DEF DraftKept
      <3> QED
        BY <1>1, <3>1, <3>2
    <2>4. ~d.raced => d.dirty \/ <<p, d.text>> \in filesWritten
      BY <2>1 DEF DraftKept
    <2>5. DraftKept(filesWritten, filesCalls', p, d)
      BY <2>2, <2>3, <2>4 DEF DraftKept
    <2> QED
      BY <2>5 DEF d
  <1>3. DraftsKept'
    BY <1>2 DEF DraftInv, DraftsKept
  <1> QED
    BY <1>1, <1>3, SameDisk DEF DraftInv
LEMMA NewRequest ==
  ASSUME NEW op \in FilesOps, NEW path \in FilesPaths \cup {NoPath}, NEW to \in FilesPaths \cup {NoPath},
         NEW items \in SUBSET FilesItem
  PROVE  /\ FilesCall(op, path, to, items) \in FilesRequest
         /\ FilesCall(op, path, to, items).op = op
         /\ FilesCall(op, path, to, items).path = path
         /\ FilesCall(op, path, to, items).items = items
         /\ FilesCall(op, path, to, items).todo = items
         /\ FilesCall(op, path, to, items).found = {}
         /\ FilesCall(op, path, to, items).ans = Waiting
  <1> DEFINE c == [op |-> op, path |-> path, to |-> to, items |-> items, todo |-> items, found |-> {}, there |-> FALSE,
                   mine |-> TRUE, ans |-> Waiting]
  <1>1. c \in FilesRequest
    <2>1. Waiting \in FilesAnswer
      BY DEF FilesAnswer
    <2> QED
      BY <2>1 DEF FilesRequest
  <1>2. c.op = op /\ c.path = path /\ c.items = items /\ c.todo = items /\ c.found = {} /\ c.ans = Waiting
    OBVIOUS
  <1> HIDE DEF c
  <1>3. FilesCall(op, path, to, items) = c
    BY DEF FilesCall, c
  <1> QED
    BY <1>1, <1>2, <1>3

LEMMA PlainItems ==
  ASSUME NEW S \in SUBSET FilesPaths PROVE FilesPlain(S) \in SUBSET FilesItem
  <1>1. \A p \in S : <<p, "">> \in FilesItem
    BY Zenon DEF FilesItem
  <1> QED
    BY <1>1, Zenon DEF FilesPlain

\* A request that has nothing to do with drafts.
LEMMA PlainSend ==
  ASSUME DraftInv, NEW op, NEW path \in FilesPaths \cup {NoPath}, NEW to \in FilesPaths \cup {NoPath}, NEW S \in SUBSET FilesPaths,
         op \in Dialogs \cup {"delete", "batchDelete", "copyUp", "moveUp", "drop", "dropUpload"},
         FilesSend(FilesCall(op, path, to, FilesPlain(S))), UNCHANGED <<filesDisk, filesWritten, filesDrafts>>
  PROVE  DraftInv'
  <1> DEFINE items == FilesPlain(S)
             c == FilesCall(op, path, to, items)
  <1>1. c \in FilesRequest /\ c.op = op /\ c.ans = Waiting /\ c.found = {}
    <2>1. items \in SUBSET FilesItem /\ op \in FilesOps
      BY PlainItems DEF FilesOps
    <2> HIDE DEF items
    <2> QED
      BY <2>1, NewRequest
  <1>2. op \notin {"read", "save", "batchSave"}
    BY DEF Dialogs, RowDialogs
  <1>3. FilesSend(c)
    OBVIOUS
  <1> HIDE DEF c
  <1>4. AnswerStored(filesWritten, c)
    BY <1>1, <1>2, Zenon DEF AnswerStored
  <1>5. \A p \in DOMAIN filesDrafts : Knows(filesWritten, c, p, filesDrafts[p])
    BY <1>1, <1>2 DEF Knows
  <1> QED
    BY <1>1, <1>3, <1>4, <1>5, RequestStep

LEMMA OpenStep ==
  ASSUME FilesPageOK, DraftInv, NEW p \in FilesPaths, OpenEntry(p)
  PROVE  FilesPageOK' /\ DraftInv'
  <1>1. /\ UNCHANGED <<filesDisk, filesHook, filesDrafts, filesChecked, filesSelected, filesModal, filesOthers, filesWritten>>
        /\ filesViewer' = p
    BY DEF OpenEntry, filesHistory
  <1>2. FilesPageOK'
    BY <1>1 DEF FilesPageOK
  <1> DEFINE items == FilesPlain({p})
             c == FilesCall("read", p, p, items)
  <1>3. c \in FilesRequest /\ c.op = "read" /\ c.path = p /\ c.ans = Waiting /\ c.found = {}
    <2>1. items \in SUBSET FilesItem /\ "read" \in FilesOps
      BY PlainItems DEF FilesOps
    <2> HIDE DEF items
    <2> QED
      BY <2>1, NewRequest
  <1>4. CASE p \in FilesEditable \ DOMAIN filesDrafts
    <2>1. FilesSend(c)
      BY <1>4 DEF OpenEntry
    <2> HIDE DEF c
    <2>2. AnswerStored(filesWritten, c)
      BY <1>3, <1>4 DEF AnswerStored
    <2>3. \A q \in DOMAIN filesDrafts : Knows(filesWritten, c, q, filesDrafts[q])
      BY <1>3, <1>4 DEF Knows
    <2> QED
      BY <1>1, <1>2, <1>3, <2>1, <2>2, <2>3, RequestStep
  <1>5. CASE p \notin FilesEditable \ DOMAIN filesDrafts
    <2>1. UNCHANGED filesCalls
      BY <1>5 DEF OpenEntry
    <2> QED
      BY <1>1, <1>2, <2>1, QuietStep
  <1> QED
    BY <1>4, <1>5

LEMMA SaveStep ==
  ASSUME FilesPageOK, DraftInv, SaveSelected
  PROVE  FilesPageOK' /\ DraftInv'
  <1> DEFINE p == filesViewer
             items == {<<p, filesDrafts[p].text>>}
             c == FilesCall("save", p, p, items)
  <1>1. /\ UNCHANGED <<filesDisk, filesHook, filesPageVars, filesOthers, filesWritten, filesDrafts>>
        /\ p \in DOMAIN filesDrafts /\ FilesSend(c)
    BY DEF SaveSelected, SaveEnabled, dirtyDrafts, filesHistory, filesPageVars
  <1>2. p \in FilesEditable /\ p \in FilesPaths /\ filesDrafts[p].text \in FilesTexts
    BY <1>1, FilesAssumption DEF DraftInv, DraftsKept, Draft
  <1>3. /\ c \in FilesRequest /\ c.op = "save" /\ c.path = p /\ c.items = items /\ c.todo = items
        /\ c.ans = Waiting /\ c.found = {}
    <2>1. items \in SUBSET FilesItem /\ "save" \in FilesOps
      <3>1. <<p, filesDrafts[p].text>> \in FilesItem
        BY <1>2, Zenon DEF FilesItem
      <3> QED
        BY <3>1 DEF FilesOps
    <2> HIDE DEF items
    <2> QED
      BY <1>2, <2>1, NewRequest
  <1>4. AnswerStored(filesWritten, c)
    <2>1. Waiting # Value("")
      BY DEF Waiting, Value
    <2>2. items \subseteq FilesEditable \X FilesTexts
      BY <1>2
    <2> HIDE DEF c
    <2> QED
      BY <1>2, <1>3, <2>1, <2>2, Zenon DEF AnswerStored
  <1>5. \A q \in DOMAIN filesDrafts : Knows(filesWritten, c, q, filesDrafts[q])
    <2> HIDE DEF c
    <2> QED
      BY <1>3 DEF Knows
  <1> HIDE DEF c
  <1> QED
    BY <1>1, <1>3, <1>4, <1>5, SamePage, RequestStep

LEMMA BatchSaveStep ==
  ASSUME FilesPageOK, DraftInv, RunBatchSave
  PROVE  FilesPageOK' /\ DraftInv'
  <1> DEFINE items == {<<p, filesDrafts[p].text>> : p \in dirtyDrafts}
             c == FilesCall("batchSave", <<>>, <<>>, items)
  <1>1. /\ UNCHANGED <<filesDisk, filesHook, filesPageVars, filesOthers, filesWritten, filesDrafts>>
        /\ FilesSend(c)
    BY DEF RunBatchSave, filesHistory, filesPageVars
  <1>2. \A p \in DOMAIN filesDrafts :
          p \in FilesEditable /\ p \in FilesPaths /\ filesDrafts[p].text \in FilesTexts
    BY FilesAssumption DEF DraftInv, DraftsKept, Draft
  <1>3. items \subseteq FilesEditable \X FilesTexts /\ items \in SUBSET FilesItem
    <2>1. \A p \in dirtyDrafts :
            <<p, filesDrafts[p].text>> \in FilesEditable \X FilesTexts /\ <<p, filesDrafts[p].text>> \in FilesItem
      BY <1>2, Zenon DEF dirtyDrafts, FilesItem
    <2> QED
      BY <2>1
  <1>4. \A p \in DOMAIN filesDrafts : filesDrafts[p].dirty => <<p, filesDrafts[p].text>> \in items
    BY DEF dirtyDrafts
  <1> HIDE DEF items
  <1>5. /\ c \in FilesRequest /\ c.op = "batchSave" /\ c.path = <<>> /\ c.items = items /\ c.todo = items
        /\ c.ans = Waiting /\ c.found = {}
    <2>1. <<>> \in FilesPaths /\ "batchSave" \in FilesOps
      BY FilesAssumption DEF FilesOps
    <2> QED
      BY <1>3, <2>1, NewRequest
  <1> HIDE DEF c
  <1>6. AnswerStored(filesWritten, c)
    <2>1. Waiting # Value("")
      BY DEF Waiting, Value
    <2> QED
      BY <1>3, <1>5, <2>1, Zenon DEF AnswerStored
  <1>7. \A p \in DOMAIN filesDrafts : Knows(filesWritten, c, p, filesDrafts[p])
    BY <1>4, <1>5 DEF Knows, DraftInv, DraftsKept, DraftKept
  <1> QED
    BY <1>1, <1>5, <1>6, <1>7, SamePage, RequestStep

\* The other gestures that send a request.
LEMMA SendSteps ==
  ASSUME ListingInv, FilesPageOK, DraftInv,
         \/ RunBatchDelete
         \/ \E p \in FilesPaths : DeleteEntry(p) \/ UploadDropped(p) \/ FilesSubmitModal(p)
         \/ \E op \in {"copyUp", "moveUp"} : SelectedToParent(op)
         \/ \E p, d \in FilesPaths : MoveDroppedPath(p, d)
  PROVE  FilesPageOK' /\ DraftInv'
  <1>1. CASE RunBatchDelete
    <2>1. FilesSend(FilesCall("batchDelete", <<>>, <<>>, FilesPlain(filesChecked)))
      BY <1>1 DEF RunBatchDelete
    <2>2. UNCHANGED <<filesDisk, filesHook, filesPageVars, filesOthers, filesWritten, filesDrafts>>
      BY <1>1 DEF RunBatchDelete, filesHistory, filesPageVars
    <2>3. <<>> \in FilesPaths /\ filesChecked \in SUBSET FilesPaths
      BY FilesAssumption DEF FilesPageOK
    <2> QED
      BY <2>1, <2>2, <2>3, PlainSend, SamePage
  <1>2. ASSUME NEW p \in FilesPaths, DeleteEntry(p) PROVE FilesPageOK' /\ DraftInv'
    <2>1. FilesSend(FilesCall("delete", p, filesSelected, FilesPlain({p}))) /\ filesSelected \in FilesPaths \cup {NoPath}
      BY <1>2 DEF DeleteEntry, FilesPageOK
    <2>2. UNCHANGED <<filesDisk, filesHook, filesPageVars, filesOthers, filesWritten, filesDrafts>>
      BY <1>2 DEF DeleteEntry, filesHistory, filesPageVars
    <2> QED
      BY <2>1, <2>2, PlainSend, SamePage
  <1>3. ASSUME NEW p \in FilesPaths, UploadDropped(p) PROVE FilesPageOK' /\ DraftInv'
    <2>1. FilesSend(FilesCall("dropUpload", NoPath, p, FilesPlain({p})))
      BY <1>3 DEF UploadDropped
    <2>2. UNCHANGED <<filesDisk, filesHook, filesPageVars, filesWritten, filesDrafts>> /\ filesOthers' = filesOthers + 1
      BY <1>3 DEF UploadDropped, filesPageVars, FilesRarely
    <2>3. FilesPageOK'
      BY <2>2 DEF FilesPageOK, filesPageVars
    <2> QED
      BY <2>1, <2>2, <2>3, PlainSend
  <1>4. ASSUME NEW op \in {"copyUp", "moveUp"}, SelectedToParent(op) PROVE FilesPageOK' /\ DraftInv'
    <2> DEFINE to == parentPath(FilesCurrentPath)
               S == FilesRows \cap filesChecked
    <2>1. FilesSend(FilesCall(op, <<>>, to, FilesPlain(S)))
      BY <1>4 DEF SelectedToParent
    <2>2. UNCHANGED <<filesDisk, filesHook, filesPageVars, filesOthers, filesWritten, filesDrafts>>
      BY <1>4 DEF SelectedToParent, filesHistory, filesPageVars
    <2>3. <<>> \in FilesPaths /\ S \in SUBSET FilesPaths
      BY FilesAssumption DEF FilesPageOK
    <2>4. to \in FilesPaths
      BY FilesAssumption DEF FilesPageOK, FilesCurrentPath, parentPath
    <2> HIDE DEF to, S
    <2> QED
      BY <2>1, <2>2, <2>3, <2>4, PlainSend, SamePage
  <1>5. ASSUME NEW p \in FilesPaths, NEW d \in FilesPaths, MoveDroppedPath(p, d) PROVE FilesPageOK' /\ DraftInv'
    <2>1. FilesSend(FilesCall("drop", p, joinPath(d, p), FilesPlain({p}))) /\ joinPath(d, p) \in FilesPaths
      BY <1>5 DEF MoveDroppedPath, joinPath
    <2>2. UNCHANGED <<filesDisk, filesHook, filesPageVars, filesOthers, filesWritten, filesDrafts>>
      BY <1>5 DEF MoveDroppedPath, filesHistory, filesPageVars
    <2> QED
      BY <2>1, <2>2, PlainSend, SamePage
  <1>6. ASSUME NEW dst \in FilesPaths, FilesSubmitModal(dst) PROVE FilesPageOK' /\ DraftInv'
    <2>1. UNCHANGED <<filesDisk, filesViewer, filesDrafts, filesChecked, filesSelected, filesOthers, filesWritten>>
      BY <1>6 DEF FilesSubmitModal, filesHistory
    <2>2. CASE filesModal' = NoModal /\ filesHook' = AsyncReload(filesHook) /\ UNCHANGED filesCalls
      <3>1. filesHook'.deps = filesHook.deps
        BY <2>2 DEF AsyncReload, AsyncRun
      <3> QED
        BY <2>1, <2>2, <3>1, QuietStep DEF FilesPageOK
    <2>3. CASE FilesSend(FilesCall(filesModal, filesSelected, dst, FilesPlain({dst}))) /\ UNCHANGED <<filesModal, filesHook>>
      <3>1. filesModal \in Dialogs /\ filesSelected \in FilesPaths \cup {NoPath}
        BY <1>6 DEF FilesPageOK, FilesSubmitModal
      <3>2. FilesPageOK'
        BY <2>1, <2>3 DEF FilesPageOK
      <3> QED
        BY <2>1, <2>3, <3>1, <3>2, PlainSend
    <2> QED
      BY <1>6, <2>2, <2>3 DEF FilesSubmitModal
  <1> QED
    BY <1>1, <1>2, <1>3, <1>4, <1>5, <1>6

\* A dialog is closed; its requests go on.
LEMMA CloseStep ==
  ASSUME FilesPageOK, DraftInv, FilesCloseModal
  PROVE  FilesPageOK' /\ DraftInv'
  <1>1. UNCHANGED <<filesDisk, filesHook, filesViewer, filesDrafts, filesChecked, filesSelected, filesOthers, filesWritten>>
    BY DEF FilesCloseModal, filesHistory
  <1>2. FilesPageOK'
    BY <1>1 DEF FilesCloseModal, FilesPageOK
  <1>3. filesCalls' = [i \in DOMAIN filesCalls |-> [filesCalls[i] EXCEPT !.mine = FALSE]]
    BY DEF FilesCloseModal
  <1>4. filesCalls \in Seq(FilesRequest) /\ Len(filesCalls) \in Nat /\ DOMAIN filesCalls = 1 .. Len(filesCalls)
    BY LenProperties DEF DraftInv, FilesCallsOK
  <1>5. ASSUME NEW i \in DOMAIN filesCalls
        PROVE  /\ filesCalls'[i] \in FilesRequest
               /\ SameRequest(filesCalls'[i], filesCalls[i])
               /\ AnswerStored(filesWritten', filesCalls'[i])
    <2> DEFINE c == filesCalls[i]
               d == [c EXCEPT !.mine = FALSE]
    <2>1. c \in FilesRequest /\ AnswerStored(filesWritten, c)
      BY <1>4, ElementOfSeq DEF DraftInv, FilesCallsOK
    <2>2. filesCalls'[i] = d
      BY <1>3
    <2> HIDE DEF c
    <2>3. /\ d \in FilesRequest /\ d.op = c.op /\ d.path = c.path /\ d.items = c.items /\ d.todo = c.todo
          /\ d.ans = c.ans /\ d.found = c.found /\ d.there = c.there
      BY <2>1 DEF FilesRequest
    <2> HIDE DEF d
    <2>4. AnswerStored(filesWritten', d)
      BY <1>1, <2>1, <2>3, Zenon DEF AnswerStored
    <2> QED
      BY <2>2, <2>3, <2>4 DEF SameRequest, c
  <1>6. filesCalls' \in Seq(FilesRequest) /\ Len(filesCalls') <= Len(filesCalls) /\ DOMAIN filesCalls' = DOMAIN filesCalls
    <2>1. filesCalls' \in [1 .. Len(filesCalls) -> FilesRequest]
      BY <1>3, <1>4, <1>5
    <2>2. filesCalls' \in Seq(FilesRequest)
      BY <1>4, <2>1, SeqDef
    <2>3. Len(filesCalls') \in Nat /\ 1 .. Len(filesCalls') = 1 .. Len(filesCalls)
      BY <1>3, <1>4, <2>2, LenProperties
    <2>4. Len(filesCalls') # 0 => Len(filesCalls') \in 1 .. Len(filesCalls')
      BY <2>3
    <2>5. Len(filesCalls') <= Len(filesCalls)
      BY <1>4, <2>3, <2>4
    <2> QED
      BY <1>3, <2>2, <2>5
  <1>7. FilesCallsOK'
    <2>1. FilesMaxCalls \in Nat /\ Len(filesCalls') \in Nat /\ Len(filesCalls) <= FilesMaxCalls
      BY <1>6, LenProperties, FilesAssumption DEF DraftInv, FilesCallsOK
    <2>2. Len(filesCalls') <= FilesMaxCalls
      BY <1>4, <1>6, <2>1
    <2> QED
      BY <1>5, <1>6, <2>2 DEF FilesCallsOK
  <1>8. DraftsKept'
    BY <1>1, <1>5, <1>6, SameDrafts DEF DraftInv
  <1> QED
    BY <1>1, <1>2, <1>7, <1>8, SameDisk DEF DraftInv
-----------------------------------------------------------------------------
(* The service, and the answers.                                           *)

\* A request gets on.
LEMMA AnsweredRequest ==
  ASSUME FilesCallsOK, NEW i \in DOMAIN filesCalls, NEW d \in FilesRequest,
         filesCalls' = [filesCalls EXCEPT ![i] = d], filesWritten \subseteq filesWritten',
         SameRequest(d, filesCalls[i]), AnswerStored(filesWritten', d)
  PROVE  /\ FilesCallsOK'
         /\ \A k \in DOMAIN filesCalls' : \E j \in DOMAIN filesCalls : SameRequest(filesCalls'[k], filesCalls[j])
  <1>1. filesCalls \in Seq(FilesRequest) /\ i \in 1 .. Len(filesCalls) /\ DOMAIN filesCalls = 1 .. Len(filesCalls)
    BY LenProperties DEF FilesCallsOK
  <1>2. /\ filesCalls' \in Seq(FilesRequest)
        /\ Len(filesCalls') = Len(filesCalls)
        /\ \A j \in 1 .. Len(filesCalls) : filesCalls'[j] = IF j = i THEN d ELSE filesCalls[j]
    BY <1>1, ExceptSeq
  <1>3. DOMAIN filesCalls' = DOMAIN filesCalls
    BY <1>1, <1>2, LenProperties
  <1>4. ASSUME NEW k \in DOMAIN filesCalls'
        PROVE  SameRequest(filesCalls'[k], filesCalls[k]) /\ AnswerStored(filesWritten', filesCalls'[k])
    <2>1. CASE k = i
      BY <1>1, <1>2, <1>3, <2>1
    <2>2. CASE k # i
      <3>1. filesCalls'[k] = filesCalls[k] /\ AnswerStored(filesWritten, filesCalls[k])
        BY <1>1, <1>2, <1>3, <2>2 DEF FilesCallsOK
      <3> QED
        BY <3>1, AnswerStays DEF SameRequest
    <2> QED
      BY <2>1, <2>2
  <1>5. Len(filesCalls') <= FilesMaxCalls
    BY <1>2 DEF FilesCallsOK
  <1> QED
    BY <1>2, <1>3, <1>4, <1>5 DEF FilesCallsOK

LEMMA CallIs ==
  ASSUME DraftInv, NEW i \in DOMAIN filesCalls
  PROVE  filesCalls[i] \in FilesRequest /\ AnswerStored(filesWritten, filesCalls[i])
  <1>1. filesCalls \in Seq(FilesRequest) /\ i \in 1 .. Len(filesCalls)
    BY LenProperties DEF DraftInv, FilesCallsOK
  <1> QED
    BY <1>1, ElementOfSeq DEF DraftInv, FilesCallsOK

LEMMA RequestWith ==
  ASSUME NEW c \in FilesRequest, NEW left \in SUBSET FilesItem, NEW f \in SUBSET FilesItem, NEW was \in BOOLEAN,
         NEW own \in BOOLEAN, NEW res \in FilesAnswer, NEW d,
         d = [op |-> c.op, path |-> c.path, to |-> c.to, items |-> c.items, todo |-> left, found |-> f, there |-> was,
              mine |-> own, ans |-> res]
  PROVE  d \in FilesRequest /\ SameRequest(d, c) /\ d.todo = left /\ d.found = f /\ d.there = was /\ d.ans = res
  <1>1. d \in FilesRequest
    BY DEF FilesRequest
  <1>2. /\ d.op = c.op /\ d.path = c.path /\ d.items = c.items /\ d.todo = left
        /\ d.found = f /\ d.there = was /\ d.ans = res
    OBVIOUS
  <1> QED
    BY <1>1, <1>2 DEF SameRequest

\* An item is done, and stored if it is a save's, or it failed.
LEMMA ItemDone ==
  ASSUME NEW c \in FilesRequest, c.op # "read", c.ans = Waiting, NEW V, AnswerStored(V, c),
         NEW item \in c.todo, NEW ok, NEW W, V \subseteq W,
         c.op \in FilesSaves /\ ok => item \in W
  PROVE  /\ FilesAfterItem(c, item, ok) \in FilesRequest
         /\ SameRequest(FilesAfterItem(c, item, ok), c)
         /\ AnswerStored(W, FilesAfterItem(c, item, ok))
  <1> DEFINE d == FilesAfterItem(c, item, ok)
  <1>1. PICK left, f, res :
          /\ d = [op |-> c.op, path |-> c.path, to |-> c.to, items |-> c.items, todo |-> left, found |-> f,
                  there |-> c.there, mine |-> c.mine, ans |-> res]
          /\ \/ ~ok /\ res = Failed /\ left = c.todo /\ f = c.found
             \/ ok /\ res = Value("") /\ left = {} /\ c.todo \subseteq {item} /\ f = c.found
             \/ ok /\ res = Waiting /\ left = c.todo \ {item} /\ f = {}
    <2>1. c = [op |-> c.op, path |-> c.path, to |-> c.to, items |-> c.items, todo |-> c.todo, found |-> c.found,
               there |-> c.there, mine |-> c.mine, ans |-> Waiting]
      BY DEF FilesRequest
    <2> QED
      BY <2>1, Zenon DEF FilesAfterItem
  <1> HIDE DEF d
  <1>2. c.todo \in SUBSET FilesItem /\ c.found \in SUBSET FilesItem /\ c.there \in BOOLEAN /\ c.mine \in BOOLEAN
    BY DEF FilesRequest
  <1>3. left \in SUBSET FilesItem /\ f \in SUBSET FilesItem /\ res \in FilesAnswer
    BY <1>1, <1>2, Zenon DEF FilesAnswer
  <1>4. d \in FilesRequest /\ SameRequest(d, c) /\ d.todo = left /\ d.found = f /\ d.there = c.there /\ d.ans = res
    <2>1. d = [op |-> c.op, path |-> c.path, to |-> c.to, items |-> c.items, todo |-> left, found |-> f,
               there |-> c.there, mine |-> c.mine, ans |-> res]
      BY <1>1, Zenon
    <2> QED
      BY <1>2, <1>3, <2>1, RequestWith
  <1> SUFFICES AnswerStored(W, d)
    BY <1>4 DEF d
  <1>a. d.found # {} => d.there
    BY <1>1, <1>4, Zenon DEF AnswerStored
  <1>5. CASE c.op \notin {"save", "batchSave"}
    BY <1>4, <1>5, <1>a, Zenon DEF AnswerStored, SameRequest
  <1>6. CASE c.op \in {"save", "batchSave"}
    <2>1. /\ c.items \subseteq FilesEditable \X FilesTexts
          /\ c.todo \subseteq c.items /\ c.items \ c.todo \subseteq V
          /\ c.op = "save" => \E t \in FilesTexts : c.items = {<<c.path, t>>}
      BY <1>6, Zenon DEF AnswerStored
    <2>4. ok => item \in W
      BY <1>6 DEF FilesSaves
    <2>5. d.todo \subseteq c.items /\ c.items \ d.todo \subseteq W
      BY <1>1, <1>4, <2>1, <2>4, Zenon
    <2>6. Waiting # Value("") /\ Failed # Value("")
      BY DEF Waiting, Failed, Value
    <2>7. d.op = c.op /\ d.path = c.path /\ d.items = c.items
      BY <1>4 DEF SameRequest
    <2>8. d.ans = Value("") => d.todo = {}
      BY <1>1, <1>4, <2>6, Zenon
    <2>9. d.ans = Waiting => d.found = {}
      <3>1. Waiting # Value("") /\ Waiting # Failed
        BY DEF Waiting, Failed, Value
      <3> QED
        BY <1>1, <1>4, <3>1, Zenon
    <2> QED
      BY <1>6, <1>a, <2>1, <2>5, <2>7, <2>8, <2>9, Zenon DEF AnswerStored
  <1> QED
    BY <1>5, <1>6

\* The service looks for the file of a save's next item.
LEMMA StatStep ==
  ASSUME FilesPageOK, DraftInv, NEW i \in DOMAIN filesCalls, FilesServeStat(i)
  PROVE  FilesPageOK' /\ DraftInv'
  <1> DEFINE c == filesCalls[i]
  <1>1. /\ c.op \in FilesSaves /\ c.op # "read" /\ c.ans = Waiting /\ c.found = {}
        /\ UNCHANGED <<filesDisk, filesHook, filesPageVars, filesOthers, filesWritten, filesDrafts>>
    BY DEF FilesServeStat, FilesSaves, Unserved, filesHistory, filesPageVars
  <1>2. c \in FilesRequest /\ AnswerStored(filesWritten, c)
    BY CallIs
  <1> DEFINE at(item) == [c EXCEPT !.found = {item}, !.there = IsFile(filesDisk, item[1])]
  <1>3. PICK item \in c.todo :
          filesCalls' = [filesCalls EXCEPT ![i] = IF FilesStat(filesDisk, item[1]) THEN at(item)
                                                  ELSE FilesAfterItem(c, item, FALSE)]
    BY DEF FilesServeStat
  <1> DEFINE d == IF FilesStat(filesDisk, item[1]) THEN at(item) ELSE FilesAfterItem(c, item, FALSE)
  <1>4. d \in FilesRequest /\ SameRequest(d, c) /\ AnswerStored(filesWritten, d)
    <2> HIDE DEF c
    <2>1. CASE ~FilesStat(filesDisk, item[1])
      BY <1>1, <1>2, <2>1, ItemDone
    <2>2. CASE FilesStat(filesDisk, item[1])
      <3> DEFINE f == {item}
                 e == [c EXCEPT !.found = f, !.there = TRUE]
      <3>1. d = e
        BY <2>2 DEF FilesStat
      <3>2. f \in SUBSET FilesItem
        BY <1>2 DEF FilesRequest
      <3> HIDE DEF d, f
      <3>3. /\ d \in FilesRequest /\ SameRequest(d, c) /\ d.todo = c.todo /\ d.found = f /\ d.there = TRUE
            /\ d.ans = c.ans
        <4>1. /\ e \in FilesRequest /\ e.op = c.op /\ e.path = c.path /\ e.items = c.items /\ e.todo = c.todo
              /\ e.found = f /\ e.there = TRUE /\ e.ans = c.ans
          BY <1>2, <3>2 DEF FilesRequest
        <4> HIDE DEF e
        <4> QED
          BY <3>1, <4>1 DEF SameRequest
      <3>4. Waiting # Value("")
        BY DEF Waiting, Value
      <3>5. {item} \subseteq c.todo
        OBVIOUS
      <3>6. AnswerStored(filesWritten, d)
        BY <1>1, <1>2, <3>3, <3>4, <3>5, Zenon DEF AnswerStored, SameRequest, f
      <3> QED
        BY <3>3, <3>6
    <2> QED
      BY <2>1, <2>2
  <1>5. filesCalls' = [filesCalls EXCEPT ![i] = d]
    BY <1>3
  <1> HIDE DEF d
  <1>6. /\ FilesCallsOK'
        /\ \A k \in DOMAIN filesCalls' : \E j \in DOMAIN filesCalls : SameRequest(filesCalls'[k], filesCalls[j])
    BY <1>1, <1>4, <1>5, AnsweredRequest DEF DraftInv
  <1> QED
    BY <1>1, <1>6, SamePage, SameDisk, SameDrafts DEF DraftInv

\* The service handles requests; a connection fails; others write.
LEMMA ServeStep ==
  ASSUME FilesPageOK, DraftInv, NEW i \in DOMAIN filesCalls, FilesServeCall(i)
  PROVE  FilesPageOK' /\ DraftInv'
  <1> DEFINE c == filesCalls[i]
  <1>1. c.op # "read" /\ c.ans = Waiting
    BY DEF FilesServeCall, Unserved
  <1>2. c \in FilesRequest /\ AnswerStored(filesWritten, c)
    BY CallIs
  <1>3. PICK item \in FilesInHand(c) : \E out \in FilesOutcomes(c, item) :
          /\ filesDisk' = out.disk
          /\ filesCalls' = [filesCalls EXCEPT ![i] = FilesAfterItem(c, item, out.ok)]
          /\ filesWritten' = FilesStored(out.disk)
    BY DEF FilesServeCall
  <1>4. PICK out \in FilesOutcomes(c, item) :
          /\ filesDisk' = out.disk
          /\ filesCalls' = [filesCalls EXCEPT ![i] = FilesAfterItem(c, item, out.ok)]
          /\ filesWritten' = FilesStored(out.disk)
    BY <1>3
  <1>5. UNCHANGED <<filesHook, filesPageVars, filesOthers, filesDrafts>>
    BY DEF FilesServeCall, filesPageVars
  <1> HIDE DEF c
  <1>a. item \in c.todo
    BY <1>1, <1>2, Zenon DEF FilesInHand, FilesSaves, AnswerStored
  <1>b. ASSUME c.op \in FilesSaves
        PROVE  /\ item[1] \in FilesEditable /\ item[2] \in FilesTexts /\ item = <<item[1], item[2]>>
               /\ out = WriteFile(filesDisk, item[1], item[2])
    <2>1. c.items \subseteq FilesEditable \X FilesTexts /\ c.todo \subseteq c.items
      BY <1>2, <1>b, Zenon DEF AnswerStored, FilesSaves
    <2>2. item \in FilesEditable \X FilesTexts
      BY <1>a, <2>1, Zenon
    <2>3. out = WriteFile(filesDisk, item[1], item[2])
      BY <1>b DEF FilesOutcomes, FilesSaves, Dialogs, RowDialogs
    <2> QED
      BY <2>2, <2>3
  <1>6. out.disk \in FilesDisks
    <2>1. c.op \in {"save", "batchSave"} => item[2] \in FilesTexts
      BY <1>b DEF FilesSaves
    <2> QED
      BY <1>1, <1>2, <2>1, OutcomesAreDisks DEF DraftInv, FilesDiskOK
  <1>7. FilesDiskOK' /\ filesWritten \subseteq filesWritten' /\ OnDisk(out.disk) \subseteq filesWritten'
    <2>1. FilesDiskOK' /\ filesWritten \subseteq filesWritten'
      BY <1>4, <1>6, DiskStep DEF DraftInv
    <2> QED
      BY <1>4, <2>1 DEF FilesStored, OnDisk
  <1>c. c.op \in FilesSaves /\ out.ok => item \in filesWritten'
    <2> SUFFICES ASSUME c.op \in FilesSaves, out.ok PROVE item \in filesWritten'
      OBVIOUS
    <2>1. filesDisk \in FilesDisks
      BY DEF DraftInv, FilesDiskOK
    <2>2. <<item[1], item[2]>> \in OnDisk(out.disk)
      BY <1>b, <2>1, SavedIsOnDisk
    <2> QED
      BY <1>b, <1>7, <2>2
  <1> DEFINE d == FilesAfterItem(c, item, out.ok)
  <1>8. d \in FilesRequest /\ SameRequest(d, c) /\ AnswerStored(filesWritten', d)
    BY <1>1, <1>2, <1>7, <1>a, <1>c, ItemDone
  <1>9. filesCalls' = [filesCalls EXCEPT ![i] = d]
    BY <1>4
  <1> HIDE DEF d
  <1>10. /\ FilesCallsOK'
         /\ \A k \in DOMAIN filesCalls' : \E j \in DOMAIN filesCalls : SameRequest(filesCalls'[k], filesCalls[j])
    BY <1>7, <1>8, <1>9, AnsweredRequest DEF DraftInv, c
  <1> QED
    BY <1>5, <1>7, <1>10, SamePage, SameDrafts DEF DraftInv

\* A request is answered and nothing else changes.
LEMMA AnswerStep ==
  ASSUME DraftInv, NEW i \in DOMAIN filesCalls, NEW res \in FilesAnswer, filesCalls' = Answer(filesCalls, i, res),
         UNCHANGED <<filesDisk, filesWritten, filesDrafts>>,
         \/ res = Failed
         \/ /\ filesCalls[i].op = "read"
            /\ res[2] \in FilesTexts /\ <<filesCalls[i].path, res[2]>> \in filesWritten
  PROVE  DraftInv'
  <1> DEFINE c == filesCalls[i]
             d == [op |-> c.op, path |-> c.path, to |-> c.to, items |-> c.items, todo |-> c.todo, found |-> c.found,
                   there |-> c.there, mine |-> c.mine, ans |-> res]
  <1>1. c \in FilesRequest /\ AnswerStored(filesWritten, c)
    BY CallIs
  <1>2. filesCalls' = [filesCalls EXCEPT ![i] = d]
    <2>1. [c EXCEPT !.ans = res] = d
      BY <1>1 DEF FilesRequest
    <2> QED
      BY <2>1 DEF Answer
  <1>3. c.todo \in SUBSET FilesItem /\ c.found \in SUBSET FilesItem /\ c.there \in BOOLEAN /\ c.mine \in BOOLEAN
    BY <1>1 DEF FilesRequest
  <1>4. /\ d \in FilesRequest /\ SameRequest(d, c) /\ d.todo = c.todo /\ d.found = c.found /\ d.there = c.there
        /\ d.ans = res
    BY <1>1, <1>3, RequestWith
  <1> HIDE DEF d
  <1>5. AnswerStored(filesWritten, d)
    <2>1. Failed # Value("") /\ Failed # Waiting
      BY DEF Failed, Waiting, Value
    <2> QED
      BY <1>1, <1>4, <2>1, Zenon DEF AnswerStored, SameRequest
  <1>6. /\ FilesCallsOK'
        /\ \A k \in DOMAIN filesCalls' : \E j \in DOMAIN filesCalls : SameRequest(filesCalls'[k], filesCalls[j])
    BY <1>2, <1>4, <1>5, AnsweredRequest DEF DraftInv
  <1> QED
    BY <1>6, SameDisk, SameDrafts DEF DraftInv

LEMMA ServiceSteps ==
  ASSUME FilesPageOK, DraftInv,
         \/ \E i \in DOMAIN filesCalls : FilesServeRead(i) \/ FilesCallLost(i)
         \/ \E p \in FilesPaths, x \in FilesTexts \cup {None} : FilesOther(p, x)
  PROVE  FilesPageOK' /\ DraftInv'
  <1>1. ASSUME NEW i \in DOMAIN filesCalls, FilesServeRead(i) PROVE FilesPageOK' /\ DraftInv'
    <2> DEFINE p == filesCalls[i].path
               res == IF IsFile(filesDisk, p) THEN Value(filesDisk[p]) ELSE Failed
    <2>1. /\ filesCalls[i].op = "read" /\ filesCalls' = Answer(filesCalls, i, res)
          /\ UNCHANGED <<filesDisk, filesHook, filesPageVars, filesOthers, filesWritten, filesDrafts>>
      BY <1>1 DEF FilesServeRead, filesHistory, filesPageVars
    <2>2. p \in FilesEditable
      BY <2>1, CallIs, Zenon DEF AnswerStored
    <2>3. CASE ~IsFile(filesDisk, p)
      <3>1. res = Failed /\ res \in FilesAnswer
        BY <2>3 DEF FilesAnswer
      <3> HIDE DEF res
      <3> QED
        BY <2>1, <3>1, AnswerStep, SamePage
    <2>4. CASE IsFile(filesDisk, p)
      <3> DEFINE x == filesDisk[p]
      <3>1. x \in FilesTexts /\ <<p, x>> \in filesWritten
        BY <2>2, <2>4, DiskFacts DEF DraftInv, FilesDiskOK, OnDisk
      <3>2. res = Value(x)
        BY <2>4
      <3> HIDE DEF x, res
      <3>3. res \in FilesAnswer /\ res[2] = x
        BY <3>1, <3>2, Zenon DEF FilesAnswer, Value
      <3> QED
        BY <2>1, <3>1, <3>3, AnswerStep, SamePage
    <2> QED
      BY <2>3, <2>4
  <1>2. ASSUME NEW i \in DOMAIN filesCalls, FilesCallLost(i) PROVE FilesPageOK' /\ DraftInv'
    <2>1. /\ filesCalls' = Answer(filesCalls, i, Failed)
          /\ UNCHANGED <<filesDisk, filesHook, filesPageVars, filesOthers, filesWritten, filesDrafts>>
      BY <1>2 DEF FilesCallLost, filesHistory, filesPageVars
    <2>2. Failed \in FilesAnswer
      BY DEF FilesAnswer
    <2> QED
      BY <2>1, <2>2, AnswerStep, SamePage
  <1>3. ASSUME NEW p \in FilesPaths, NEW x \in FilesTexts \cup {None}, FilesOther(p, x) PROVE FilesPageOK' /\ DraftInv'
    <2>1. /\ UNCHANGED <<filesHook, filesPageVars, filesCalls, filesDrafts>> /\ filesOthers' = filesOthers + 1
          /\ filesDisk' = [filesDisk EXCEPT ![p] = x] /\ filesWritten' = FilesStored(filesDisk')
      BY <1>3 DEF FilesOther, FilesRarely, filesPageVars
    <2>2. FilesPageOK'
      BY <2>1 DEF FilesPageOK, filesPageVars
    <2>3. filesDisk' \in FilesDisks
      <3>1. [filesDisk EXCEPT ![p] = x] \in FilesDisks
        BY DiskFacts DEF DraftInv, FilesDiskOK
      <3> QED
        BY <2>1, <3>1
    <2>4. FilesDiskOK' /\ filesWritten \subseteq filesWritten'
      BY <2>1, <2>3, DiskStep DEF DraftInv
    <2>5. FilesCallsOK'
      <3>1. \A i \in DOMAIN filesCalls : AnswerStored(filesWritten', filesCalls[i])
        BY <2>4, AnswerStays DEF DraftInv, FilesCallsOK
      <3> QED
        BY <2>1, <3>1 DEF DraftInv, FilesCallsOK
    <2>6. \A k \in DOMAIN filesCalls' : \E j \in DOMAIN filesCalls : SameRequest(filesCalls'[k], filesCalls[j])
      BY <2>1 DEF SameRequest
    <2> QED
      BY <2>1, <2>2, <2>4, <2>5, <2>6, SameDrafts DEF DraftInv
  <1> QED
    BY <1>1, <1>2, <1>3
\* An answer has arrived.
LEMMA ForgottenRequest ==
  ASSUME FilesCallsOK, NEW i \in DOMAIN filesCalls, filesCalls' = Forget(filesCalls, i), UNCHANGED filesWritten
  PROVE  /\ FilesCallsOK'
         /\ \A k \in DOMAIN filesCalls' : \E j \in DOMAIN filesCalls \ {i} : filesCalls'[k] = filesCalls[j]
         /\ \A k \in DOMAIN filesCalls' : \E j \in DOMAIN filesCalls : SameRequest(filesCalls'[k], filesCalls[j])
  <1>1. filesCalls \in Seq(FilesRequest) /\ Len(filesCalls) <= FilesMaxCalls /\ Len(filesCalls) \in Nat
    BY LenProperties DEF FilesCallsOK
  <1>2. /\ filesCalls' \in Seq(FilesRequest)
        /\ Len(filesCalls') <= Len(filesCalls)
        /\ \A k \in DOMAIN filesCalls' : \E j \in DOMAIN filesCalls \ {i} : filesCalls'[k] = filesCalls[j]
    BY <1>1, ForgetTakes
  <1>3. Len(filesCalls') <= FilesMaxCalls
    <2>1. FilesMaxCalls \in Nat /\ Len(filesCalls') \in Nat
      BY <1>2, LenProperties, FilesAssumption
    <2> QED
      BY <1>1, <1>2, <2>1
  <1>4. \A k \in DOMAIN filesCalls' : AnswerStored(filesWritten', filesCalls'[k])
    BY <1>2 DEF FilesCallsOK
  <1>5. \A k \in DOMAIN filesCalls' : \E j \in DOMAIN filesCalls : SameRequest(filesCalls'[k], filesCalls[j])
    BY <1>2 DEF SameRequest
  <1> QED
    BY <1>2, <1>3, <1>4, <1>5 DEF FilesCallsOK

\* The answer becomes the draft of p.
LEMMA PutDraftStep ==
  ASSUME DraftInv, NEW i \in DOMAIN filesCalls, NEW p \in FilesEditable, NEW text \in FilesTexts,
         <<p, text>> \in filesWritten, filesCalls' = Forget(filesCalls, i),
         filesDrafts' = FilesPutDraft(i, p, text), UNCHANGED <<filesDisk, filesWritten>>
  PROVE  DraftInv'
  <1> DEFINE synced == EditorSyncs(p, text)
             others == DOMAIN filesCalls \ {i}
             raced == synced /\ FilesConcerned(others, p)
             draft == [text |-> text, dirty |-> synced, raced |-> raced]
  <1>1. filesDrafts' = [q \in DOMAIN filesDrafts \cup {p} |-> IF q = p THEN draft ELSE filesDrafts[q]]
    BY DEF FilesPutDraft
  <1>2. /\ FilesCallsOK'
        /\ \A k \in DOMAIN filesCalls' : \E j \in others : filesCalls'[k] = filesCalls[j]
        /\ \A k \in DOMAIN filesCalls' : \E j \in DOMAIN filesCalls : SameRequest(filesCalls'[k], filesCalls[j])
    BY ForgottenRequest DEF DraftInv
  <1>3. synced \in BOOLEAN /\ raced \in BOOLEAN
    BY DEF EditorSyncs
  <1>4. synced /\ ~raced => \A k \in DOMAIN filesCalls' : filesCalls'[k].path = p => filesCalls'[k].op \notin {"read", "save"}
    BY <1>2 DEF FilesConcerned
  <1> HIDE DEF synced, raced, others
  <1>5. draft \in Draft /\ draft.text = text /\ draft.dirty = synced /\ draft.raced = raced
    BY <1>3 DEF Draft
  <1> HIDE DEF draft
  <1>6. DraftKept(filesWritten', filesCalls', p, draft)
    BY <1>4, <1>5, StoredIsKept
  <1>7. ASSUME NEW q \in DOMAIN filesDrafts
        PROVE  filesDrafts[q] \in Draft /\ DraftKept(filesWritten', filesCalls', q, filesDrafts[q])
    BY <1>2, DraftStays DEF DraftInv, DraftsKept
  <1>8. DraftsKept'
    BY <1>1, <1>5, <1>6, <1>7 DEF DraftInv, DraftsKept
  <1> QED
    BY <1>2, <1>8, SameDisk DEF DraftInv

\* A save that was answered has stored all its items.
LEMMA SavesAreDone ==
  ASSUME DraftInv, NEW i \in DOMAIN filesCalls, filesCalls[i].op \in {"save", "batchSave"}, filesCalls[i].ans = Value("")
  PROVE  /\ filesCalls[i].items \subseteq filesWritten
         /\ filesCalls[i].op = "save" =>
              \E t \in FilesTexts : /\ filesCalls[i].items = {<<filesCalls[i].path, t>>}
                                   /\ (CHOOSE item \in filesCalls[i].items : TRUE)[2] = t
                                   /\ filesCalls[i].path \in FilesEditable
  <1> DEFINE c == filesCalls[i]
  <1>1. AnswerStored(filesWritten, c)
    BY CallIs, Zenon
  <1>2. c.items \subseteq filesWritten /\ c.items \subseteq FilesEditable \X FilesTexts
    BY <1>1, Zenon DEF AnswerStored
  <1>3. ASSUME NEW t \in FilesTexts, c.items = {<<c.path, t>>}
        PROVE  (CHOOSE item \in c.items : TRUE)[2] = t /\ c.path \in FilesEditable
    <2>1. (CHOOSE item \in c.items : TRUE) = <<c.path, t>>
      BY <1>3, Zenon
    <2>2. <<c.path, t>> \in FilesEditable \X FilesTexts
      BY <1>2, <1>3, Zenon
    <2> HIDE DEF c
    <2>3. <<c.path, t>>[2] = t
      OBVIOUS
    <2>4. c.path \in FilesEditable
      BY <2>2, Zenon
    <2>5. (CHOOSE item \in c.items : TRUE)[2] = t
      BY <2>1, <2>3, Zenon
    <2> QED
      BY <2>4, <2>5, Zenon
  <1> QED
    BY <1>1, <1>2, <1>3, Zenon DEF AnswerStored

LEMMA ArrivalSteps ==
  ASSUME FilesPageOK, DraftInv, NEW i \in DOMAIN filesCalls,
         FilesCallFails(i) \/ FilesReadArrives(i) \/ FilesCallArrives(i)
  PROVE  FilesPageOK' /\ DraftInv'
  <1> DEFINE c == filesCalls[i]
  <1>1. filesCalls' = Forget(filesCalls, i) /\ UNCHANGED <<filesDisk, filesWritten, filesOthers>>
    BY Zenon DEF FilesCallFails, FilesReadArrives, FilesCallArrives, filesHistory
  <1>2. /\ FilesCallsOK'
        /\ \A k \in DOMAIN filesCalls' : \E j \in DOMAIN filesCalls : SameRequest(filesCalls'[k], filesCalls[j])
    BY <1>1, ForgottenRequest DEF DraftInv
  <1>3. CASE FilesCallFails(i)
    <2>1. UNCHANGED <<filesHook, filesPageVars, filesOthers, filesDrafts>>
      BY <1>3 DEF FilesCallFails, filesPageVars
    <2> QED
      BY <1>1, <1>2, <2>1, SamePage, SameDisk, SameDrafts DEF DraftInv
  <1>4. CASE FilesReadArrives(i)
    <2>1. UNCHANGED <<filesHook, filesViewer, filesChecked, filesSelected, filesModal>>
      BY <1>4 DEF FilesReadArrives
    <2>2. FilesPageOK'
      BY <1>1, <2>1 DEF FilesPageOK
    <2>3. c.op = "read" /\ c.ans \notin {Waiting, Failed} /\ filesDrafts' = FilesPutDraft(i, c.path, c.ans[2])
      BY <1>4 DEF FilesReadArrives
    <2>4. c.path \in FilesEditable /\ c.ans[2] \in FilesTexts /\ <<c.path, c.ans[2]>> \in filesWritten
      BY <2>3, CallIs, Zenon DEF AnswerStored
    <2> QED
      BY <1>1, <2>2, <2>3, <2>4, PutDraftStep
  <1>5. CASE FilesCallArrives(i)
    <2>1. c.ans = Value("") /\ filesDrafts' = FilesDraftsAfter(i)
      BY <1>5, Zenon DEF FilesCallArrives
    <2>2. FilesPageOK'
      <3>1. filesHook'.deps = filesHook.deps
        BY <1>5, Zenon DEF FilesCallArrives, HookAfter, AsyncReload, AsyncRun
      <3>2. /\ filesViewer' \in {filesViewer, NoPath} /\ filesSelected' \in {filesSelected, NoPath}
            /\ filesChecked' \in {filesChecked, {}} /\ filesModal' \in {filesModal, NoModal}
        BY <1>5, Zenon DEF FilesCallArrives
      <3> QED
        BY <1>1, <3>1, <3>2 DEF FilesPageOK
    <2>3. CASE c.op = "save"
      <3>1. PICK t \in FilesTexts : /\ c.items = {<<c.path, t>>}
                                   /\ (CHOOSE item \in c.items : TRUE)[2] = t
                                   /\ c.path \in FilesEditable
        BY <2>1, <2>3, SavesAreDone, Zenon
      <3>2. <<c.path, t>> \in filesWritten
        BY <2>1, <2>3, <3>1, SavesAreDone, Zenon
      <3>3. filesDrafts' = FilesPutDraft(i, c.path, t)
        BY <2>1, <2>3, <3>1, Zenon DEF FilesDraftsAfter
      <3> QED
        BY <1>1, <2>2, <3>1, <3>2, <3>3, PutDraftStep
    <2>4. CASE c.op = "batchSave"
      <3>1. filesDrafts' = [p \in DOMAIN filesDrafts |-> [filesDrafts[p] EXCEPT !.dirty = FALSE]]
        BY <2>1, <2>4, Zenon DEF FilesDraftsAfter
      <3>2. c.items \subseteq filesWritten
        BY <2>1, <2>4, SavesAreDone, Zenon
      <3>3. ASSUME NEW p \in DOMAIN filesDrafts
            PROVE  filesDrafts'[p] \in Draft /\ DraftKept(filesWritten', filesCalls', p, filesDrafts'[p])
        <4> DEFINE d == filesDrafts[p]
                   e == [d EXCEPT !.dirty = FALSE]
        <4>1. d \in Draft /\ DraftKept(filesWritten, filesCalls, p, d)
          BY DEF DraftInv, DraftsKept
        <4>2. filesDrafts'[p] = e
          BY <3>1
        <4> HIDE DEF d
        <4>3. e \in Draft /\ e.text = d.text /\ e.dirty = FALSE /\ e.raced = d.raced
          BY <4>1 DEF Draft
        <4> HIDE DEF e
        <4>4. d.raced \/ <<p, d.text>> \in filesWritten
          BY <2>4, <3>2, <4>1 DEF DraftKept
        <4>5. DraftKept(filesWritten', filesCalls', p, e)
          BY <1>1, <4>3, <4>4 DEF DraftKept
        <4> QED
          BY <4>2, <4>3, <4>5
      <3>4. DraftsKept'
        BY <3>1, <3>3 DEF DraftInv, DraftsKept
      <3> QED
        BY <1>1, <1>2, <2>2, <3>4, SameDisk DEF DraftInv
    <2>5. CASE c.op \notin {"save", "batchSave"}
      <3>1. UNCHANGED filesDrafts
        BY <2>1, <2>5, Zenon DEF FilesDraftsAfter
      <3> QED
        BY <1>1, <1>2, <2>2, <3>1, SameDisk, SameDrafts DEF DraftInv
    <2> QED
      BY <2>3, <2>4, <2>5
  <1> QED
    BY <1>3, <1>4, <1>5
-----------------------------------------------------------------------------
(* The file manager.                                                       *)

LEMMA EditInit == FilesInit => EditInv
  <1> SUFFICES ASSUME FilesInit PROVE EditInv
    OBVIOUS
  <1>1. FilesPageOK
    BY FilesAssumption DEF FilesInit, AsyncMount, FilesPageOK
  <1>2. FilesDiskOK
    BY FilesAssumption DEF FilesInit, FilesDiskOK, FilesDisks, OnDisk, Dir
  <1>3. filesCalls \in Seq(FilesRequest) /\ Len(filesCalls) = 0
    BY EmptySeq DEF FilesInit
  <1>4. DOMAIN filesCalls = {}
    BY <1>3, LenProperties
  <1>5. FilesCallsOK
    BY <1>3, <1>4, FilesAssumption DEF FilesCallsOK
  <1>6. DraftsKept
    BY <1>4 DEF FilesInit, DraftsKept
  <1> QED
    BY <1>1, <1>2, <1>5, <1>6, ListingInit DEF EditInv

LEMMA EditNext == EditInv /\ [FilesNext]_filesVars => EditInv'
  <1> SUFFICES ASSUME EditInv, [FilesNext]_filesVars PROVE FilesPageOK' /\ DraftInv'
    BY ListingNext DEF EditInv, DraftInv
  <1>1. ListingInv /\ FilesPageOK /\ DraftInv
    BY DEF EditInv, DraftInv
  <1>2. CASE \/ FilesReload \/ FilesCloseViewer
             \/ \E c \in filesHook.calls : FilesServeListing(c) \/ FilesListingArrives(c)
             \/ \E p \in FilesPaths : FilesNavigate(p) \/ TickRow(p)
             \/ \E act \in Dialogs, p \in FilesPaths : FilesOpenModal(act, p)
             \/ UNCHANGED filesVars
    BY <1>1, <1>2, PageSteps
  <1>3. ASSUME NEW text \in FilesTexts, FilesType(text) PROVE FilesPageOK' /\ DraftInv'
    BY <1>1, <1>3, TypeStep
  <1>4. ASSUME NEW p \in FilesPaths, OpenEntry(p) PROVE FilesPageOK' /\ DraftInv'
    BY <1>1, <1>4, OpenStep
  <1>5. CASE SaveSelected \/ RunBatchSave
    BY <1>1, <1>5, SaveStep, BatchSaveStep
  <1>6. CASE \/ RunBatchDelete
             \/ \E p \in FilesPaths : DeleteEntry(p) \/ UploadDropped(p) \/ FilesSubmitModal(p)
             \/ \E op \in {"copyUp", "moveUp"} : SelectedToParent(op)
             \/ \E p, d \in FilesPaths : MoveDroppedPath(p, d)
    BY <1>1, <1>6, SendSteps
  <1>7. CASE FilesCloseModal
    BY <1>1, <1>7, CloseStep
  <1>8. ASSUME NEW i \in DOMAIN filesCalls, FilesServeStat(i) \/ FilesServeCall(i) PROVE FilesPageOK' /\ DraftInv'
    BY <1>1, <1>8, StatStep, ServeStep
  <1>9. CASE \/ \E i \in DOMAIN filesCalls : FilesServeRead(i) \/ FilesCallLost(i)
             \/ \E p \in FilesPaths, x \in FilesTexts \cup {None} : FilesOther(p, x)
    BY <1>1, <1>9, ServiceSteps
  <1>10. ASSUME NEW i \in DOMAIN filesCalls, FilesCallFails(i) \/ FilesReadArrives(i) \/ FilesCallArrives(i)
         PROVE  FilesPageOK' /\ DraftInv'
    BY <1>1, <1>10, ArrivalSteps
  <1> QED
    BY <1>2, <1>3, <1>4, <1>5, <1>6, <1>7, <1>8, <1>9, <1>10 DEF FilesNext

LEMMA EditTyped == EditInv => FilesTypeOK
  BY DEF EditInv, FilesPageOK, FilesDiskOK, FilesDisks, FilesCallsOK, DraftsKept, Draft, FilesTypeOK, FilesCurrentPath

\* The file manager has the types its code gives it, whatever others do to the disk.
THEOREM FilesPageTyped == FilesSpec => []FilesTypeOK
  BY EditInit, EditNext, EditTyped, PTL DEF FilesSpec

LEMMA CleanIsStored == EditInv => CleanMeansStored
  BY DEF EditInv, DraftsKept, DraftKept, CleanMeansStored

\* The page and the service: a draft that the page calls clean holds a text that
\* has been on the disk at its path, unless it was edited while an answer that
\* writes it was on its way.  So for any number of requests under way, batches
\* that fail half-way, lost connections and changes made by others.
THEOREM DraftsAreHonest == FilesSpec => []CleanMeansStored
  BY EditInit, EditNext, CleanIsStored, PTL DEF FilesSpec

-----------------------------------------------------------------------------
(* No step loses an edit or brings back a file.                            *)

\* An answer that is put into the draft of another path, or that is the draft.
LEMMA PutLeavesDraft ==
  ASSUME NEW i, NEW p, NEW text, filesDrafts' = FilesPutDraft(i, p, text),
         NEW q \in DOMAIN filesDrafts, q = p => text = filesDrafts[q].text
  PROVE  filesDrafts'[q].text = filesDrafts[q].text
  <1> DEFINE draft == [text |-> text, dirty |-> EditorSyncs(p, text),
                       raced |-> EditorSyncs(p, text) /\ FilesConcerned(DOMAIN filesCalls \ {i}, p)]
  <1>1. filesDrafts' = [r \in DOMAIN filesDrafts \cup {p} |-> IF r = p THEN draft ELSE filesDrafts[r]]
    BY DEF FilesPutDraft
  <1>2. draft.text = text
    OBVIOUS
  <1> HIDE DEF draft
  <1> QED
    BY <1>1, <1>2

LEMMA StepKeepsEdits ==
  ASSUME EditInv, [FilesNext]_filesVars,
         NEW p \in DOMAIN filesDrafts, filesDrafts[p].dirty, ~filesDrafts[p].raced
  PROVE  filesDrafts'[p].text = filesDrafts[p].text \/ filesCalls' = filesCalls
  <1> DEFINE d == filesDrafts[p]
  <1>1. \A i \in DOMAIN filesCalls :
          filesCalls[i].path = p => /\ filesCalls[i].op # "read"
                                    /\ filesCalls[i].op = "save" => filesCalls[i].items = {<<p, d.text>>}
    BY DEF EditInv, DraftsKept, DraftKept
  <1>2. CASE UNCHANGED filesDrafts \/ UNCHANGED filesCalls
    BY <1>2
  <1>3. ASSUME NEW i \in DOMAIN filesCalls, FilesReadArrives(i)
        PROVE  filesDrafts'[p].text = d.text
    <2>1. /\ filesCalls[i].op = "read"
          /\ filesDrafts' = FilesPutDraft(i, filesCalls[i].path, filesCalls[i].ans[2])
      BY <1>3 DEF FilesReadArrives
    <2> QED
      BY <1>1, <2>1, PutLeavesDraft
  <1>4. ASSUME NEW i \in DOMAIN filesCalls, FilesCallArrives(i)
        PROVE  filesDrafts'[p].text = d.text
    <2>1. filesCalls[i].ans = Value("") /\ filesDrafts' = FilesDraftsAfter(i)
      BY <1>4, Zenon DEF FilesCallArrives
    <2>2. CASE filesCalls[i].op = "save"
      <3>1. PICK t \in FilesTexts : /\ filesCalls[i].items = {<<filesCalls[i].path, t>>}
                                   /\ (CHOOSE item \in filesCalls[i].items : TRUE)[2] = t
        BY <2>1, <2>2, SavesAreDone, Zenon DEF EditInv, DraftInv
      <3>2. filesDrafts' = FilesPutDraft(i, filesCalls[i].path, t)
        BY <2>1, <2>2, <3>1, Zenon DEF FilesDraftsAfter
      <3>3. ASSUME p = filesCalls[i].path PROVE t = d.text
        <4>1. <<p, t>> \in {<<p, d.text>>}
          BY <1>1, <2>2, <3>1, <3>3
        <4> HIDE DEF d
        <4> QED
          BY <4>1
      <3> QED
        BY <3>2, <3>3, PutLeavesDraft
    <2>3. CASE filesCalls[i].op = "batchSave"
      <3>1. filesDrafts' = [q \in DOMAIN filesDrafts |-> [filesDrafts[q] EXCEPT !.dirty = FALSE]]
        BY <2>1, <2>3, Zenon DEF FilesDraftsAfter
      <3>2. filesDrafts'[p] = [d EXCEPT !.dirty = FALSE] /\ d \in Draft
        BY <3>1 DEF EditInv, DraftsKept
      <3> HIDE DEF d
      <3> QED
        BY <3>2 DEF Draft
    <2>4. CASE filesCalls[i].op \notin {"save", "batchSave"}
      BY <2>1, <2>4, Zenon DEF FilesDraftsAfter
    <2> QED
      BY <2>2, <2>3, <2>4
  <1>5. ASSUME NEW q, FilesNavigate(q) \/ TickRow(q) \/ OpenEntry(q) \/ DeleteEntry(q) \/ UploadDropped(q)
                      \/ FilesSubmitModal(q) \/ SelectedToParent(q)
        PROVE  UNCHANGED filesDrafts
    BY <1>5 DEF FilesNavigate, TickRow, OpenEntry, DeleteEntry, UploadDropped, FilesSubmitModal, SelectedToParent,
                filesPageVars
  <1>6. ASSUME NEW q, FilesType(q) PROVE UNCHANGED filesCalls
    BY <1>6 DEF FilesType
  <1>7. ASSUME NEW q, NEW r, MoveDroppedPath(q, r) \/ FilesOpenModal(q, r) \/ FilesOther(q, r)
        PROVE  UNCHANGED filesDrafts
    BY <1>7 DEF MoveDroppedPath, FilesOpenModal, FilesOther, filesPageVars
  <1>8. CASE FilesReload \/ FilesCloseViewer \/ SaveSelected \/ RunBatchSave \/ RunBatchDelete \/ FilesCloseModal
    BY <1>2, <1>8 DEF FilesReload, FilesCloseViewer, SaveSelected, RunBatchSave, RunBatchDelete, FilesCloseModal,
                      filesPageVars
  <1>9. ASSUME NEW q, FilesServeListing(q) \/ FilesListingArrives(q) \/ FilesServeStat(q) \/ FilesServeCall(q)
                      \/ FilesServeRead(q) \/ FilesCallLost(q) \/ FilesCallFails(q)
        PROVE  UNCHANGED filesDrafts
    BY <1>9 DEF FilesServeListing, FilesListingArrives, FilesServeStat, FilesServeCall, FilesServeRead, FilesCallLost,
                FilesCallFails, filesPageVars
  <1>10. CASE UNCHANGED filesVars
    BY <1>2, <1>10 DEF filesVars
  <1> QED
    BY <1>2, <1>3, <1>4, <1>5, <1>6, <1>7, <1>8, <1>9, <1>10 DEF FilesNext

\* A request that makes a file is no save, or one that had found it, and is not
\* what it was.
LEMMA ServingCreates ==
  ASSUME EditInv, NEW i \in DOMAIN filesCalls, FilesServeCall(i),
         NEW p \in FilesPaths, filesDisk[p] = None, filesDisk'[p] # None
  PROVE  /\ filesCalls'[i] # filesCalls[i]
         /\ \/ filesCalls[i].op \notin {"read", "save", "batchSave"}
            \/ filesCalls[i].there /\ \E item \in filesCalls[i].found : item[1] = p
  <1> DEFINE c == filesCalls[i]
  <1>1. c.op # "read" /\ c.ans = Waiting
    BY DEF FilesServeCall, Unserved
  <1>2. PICK item \in FilesInHand(c) : \E out \in FilesOutcomes(c, item) :
          /\ filesDisk' = out.disk
          /\ filesCalls' = [filesCalls EXCEPT ![i] = FilesAfterItem(c, item, out.ok)]
    BY DEF FilesServeCall
  <1>3. PICK out \in FilesOutcomes(c, item) :
          /\ filesDisk' = out.disk
          /\ filesCalls' = [filesCalls EXCEPT ![i] = FilesAfterItem(c, item, out.ok)]
    BY <1>2
  <1>4. c \in FilesRequest /\ AnswerStored(filesWritten, c)
    BY CallIs DEF EditInv, DraftInv
  <1>5. ASSUME c.op \in FilesSaves PROVE c.there /\ item \in c.found /\ item[1] = p
    <2> HIDE DEF c
    <2>1. item \in c.found /\ c.there
      BY <1>4, <1>5, Zenon DEF FilesInHand, AnswerStored
    <2>2. out = WriteFile(filesDisk, item[1], item[2])
      BY <1>3, <1>5 DEF FilesOutcomes, FilesSaves, Dialogs, RowDialogs
    <2>3. filesDisk' = filesDisk \/ filesDisk' = [filesDisk EXCEPT ![item[1]] = item[2]]
      BY <1>3, <2>2 DEF WriteFile, Fulfilled, Refused
    <2>4. item[1] = p
      BY <2>3 DEF EditInv, FilesDiskOK, FilesDisks
    <2> QED
      BY <2>1, <2>4
  <1>a. item \in c.todo
    BY <1>1, <1>4, Zenon DEF FilesInHand, FilesSaves, AnswerStored
  <1> DEFINE d == FilesAfterItem(c, item, out.ok)
  <1>6. filesCalls'[i] = d
    BY <1>3 DEF EditInv, FilesCallsOK
  <1>7. d # c
    <2> HIDE DEF c
    <2>1. CASE ~out.ok
      <3>1. d.ans = Failed
        BY <1>4, <2>1 DEF FilesAfterItem, FilesRequest
      <3> QED
        BY <1>1, <3>1 DEF Waiting, Failed
    <2>2. CASE out.ok
      <3>1. item \notin d.todo
        BY <1>4, <2>2 DEF FilesAfterItem, FilesRequest
      <3> QED
        BY <1>a, <3>1
    <2> QED
      BY <2>1, <2>2
  <1> QED
    BY <1>1, <1>5, <1>6, <1>7 DEF FilesSaves

LEMMA StepCreates ==
  ASSUME EditInv, [FilesNext]_filesVars,
         NEW p \in FilesPaths, filesDisk[p] = None, filesDisk'[p] # None
  PROVE  \/ filesOthers' # filesOthers
         \/ \E i \in DOMAIN filesCalls :
              /\ filesCalls'[i] # filesCalls[i]
              /\ \/ filesCalls[i].op \notin {"read", "save", "batchSave"}
                 \/ filesCalls[i].there /\ \E item \in filesCalls[i].found : item[1] = p
  <1>1. ASSUME UNCHANGED filesDisk PROVE FALSE
    BY <1>1
  <1>2. ASSUME NEW q, FilesNavigate(q) \/ TickRow(q) \/ OpenEntry(q) \/ DeleteEntry(q) \/ UploadDropped(q)
                      \/ FilesSubmitModal(q) \/ SelectedToParent(q) \/ FilesType(q)
        PROVE  UNCHANGED filesDisk
    BY <1>2 DEF FilesNavigate, TickRow, OpenEntry, DeleteEntry, UploadDropped, FilesSubmitModal, SelectedToParent,
                FilesType
  <1>3. ASSUME NEW q, NEW r, MoveDroppedPath(q, r) \/ FilesOpenModal(q, r)
        PROVE  UNCHANGED filesDisk
    BY <1>3 DEF MoveDroppedPath, FilesOpenModal
  <1>4. ASSUME NEW q, NEW r, FilesOther(q, r) PROVE filesOthers' # filesOthers
    <2>1. filesOthers \in Nat /\ filesOthers' = filesOthers + 1
      BY <1>4 DEF FilesOther, FilesRarely, EditInv, FilesPageOK
    <2> QED
      BY <2>1
  <1>5. CASE FilesReload \/ FilesCloseViewer \/ SaveSelected \/ RunBatchSave \/ RunBatchDelete \/ FilesCloseModal
    BY <1>1, <1>5 DEF FilesReload, FilesCloseViewer, SaveSelected, RunBatchSave, RunBatchDelete, FilesCloseModal
  <1>6. ASSUME NEW q, FilesServeListing(q) \/ FilesListingArrives(q) \/ FilesServeStat(q) \/ FilesServeRead(q)
                      \/ FilesCallLost(q) \/ FilesCallFails(q) \/ FilesReadArrives(q) \/ FilesCallArrives(q)
        PROVE  UNCHANGED filesDisk
    BY <1>6, Zenon DEF FilesServeListing, FilesListingArrives, FilesServeStat, FilesServeRead, FilesCallLost, FilesCallFails,
                FilesReadArrives, FilesCallArrives
  <1>7. CASE UNCHANGED filesVars
    BY <1>1, <1>7 DEF filesVars
  <1> QED
    BY <1>1, <1>2, <1>3, <1>4, <1>5, <1>6, <1>7, ServingCreates DEF FilesNext

LEMMA StepIsSafe ==
  ASSUME EditInv, [FilesNext]_filesVars
  PROVE  /\ [\A p \in DOMAIN filesDrafts :
               filesDrafts[p].dirty /\ ~filesDrafts[p].raced
                   => \/ filesDrafts'[p].text = filesDrafts[p].text
                      \/ filesCalls' = filesCalls]_filesVars
         /\ [\A p \in FilesPaths :
               filesDisk[p] = None /\ filesDisk'[p] # None
                 => \/ filesOthers' # filesOthers
                    \/ \E i \in DOMAIN filesCalls :
                         /\ filesCalls'[i] # filesCalls[i]
                         /\ \/ filesCalls[i].op \notin {"read", "save", "batchSave"}
                            \/ filesCalls[i].there /\ \E item \in filesCalls[i].found : item[1] = p
            ]_filesVars
  BY StepKeepsEdits, StepCreates

\* The page and the service, one step at a time: an answer replaces an edit only if
\* one that writes the draft was already on its way when the edit was made, and a
\* save brings back no file that was deleted or moved away while the draft was
\* open, unless it had found that file before it went and was about to write it.
THEOREM EditsAreKept == FilesSpec => EditsAreSafe
  BY EditInit, EditNext, StepIsSafe, PTL DEF FilesSpec, EditsAreSafe, EditsSurvive, SaveCreatesNothing
=============================================================================
