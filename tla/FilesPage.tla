------------------------------ MODULE FilesPage ------------------------------
(***************************************************************************)
(* The file manager: the Files page (listing, drafts, viewer, dialogs) and *)
(* the file service whose requests it has in flight.  The disk is shared   *)
(* with the shell, with cron jobs and with other tabs (FilesOther).        *)
(*                                                                         *)
(* A path is a sequence of names; <<>> is the root the page starts in.  A  *)
(* file is one of a few texts.                                             *)
(***************************************************************************)
EXTENDS AsyncHook, FiniteSets

CONSTANTS
    FilesPaths,       \* the paths that may ever exist, closed under parents
    FilesEditable,    \* the paths whose extension the editor takes
    FilesTexts,       \* contents of a file
    FilesDisk0,       \* the disk when the page is opened
    FilesMaxCalls,    \* bound: requests of the page in flight at once
    FilesMaxOther,    \* bound: changes made by others, dialogs opened and files dropped in
    FilesMaxGestures  \* bound: gestures of the user

\* The disk is a tree, and the editor takes files of it.
ASSUME FilesAssumption ==
    /\ <<>> \in FilesPaths /\ \A p \in FilesPaths \ {<<>>} : Front(p) \in FilesPaths
    /\ FilesEditable \subseteq FilesPaths
    /\ FilesTexts \cap {None, "dir"} = {}
    /\ FilesDisk0 \in [FilesPaths -> {None, "dir"} \cup FilesTexts]
    /\ FilesMaxCalls \in Nat

VARIABLES
    filesDisk,        \* path -> None, Dir or the text of the file
    filesHook,        \* useAsync: deps is the current directory
    filesViewer,      \* the file open in the viewer dialog, or NoPath
    filesDrafts,      \* the paths with a draft -> [text, dirty, raced]
    filesChecked,     \* ticked rows
    filesSelected,    \* the row a row dialog was opened for, or NoPath
    filesModal,       \* the open dialog, or NoModal
    filesCalls,       \* requests in flight other than the listing
    filesOthers,      \* changes made by others, dialogs and drops so far
    filesGestures,    \* gestures of the user so far
    filesWritten,     \* history: <<path, text>> that has been on the disk
    filesUnseen       \* history: the disk changed with no reload to follow

filesVars == <<filesDisk, filesHook, filesViewer, filesDrafts, filesChecked, filesSelected,
               filesModal, filesCalls, filesOthers, filesGestures, filesWritten, filesUnseen>>
filesHistory == <<filesOthers, filesWritten, filesUnseen>>
filesPageVars == <<filesViewer, filesDrafts, filesChecked, filesSelected, filesModal>>

Dir == "dir"
NoPath == <<"noPath">>
NoModal == "noModal"
RowDialogs == {"copy", "move", "chmod", "extract"}
Dialogs == RowDialogs \cup {"file", "folder", "upload"}

(***************************************************************************)
(* The disk and the operations of the file service on it.  Each operation  *)
(* is the set of its outcomes [disk, ok].                                  *)
(***************************************************************************)
parentPath(p) == IF p = <<>> THEN p ELSE Front(p)
joinPath(d, p) == Append(d, Last(p))
FilesUnder(d) == {p \in FilesPaths : IsPrefix(d, p)}
IsFile(disk, p) == p \in FilesPaths /\ disk[p] \notin {None, Dir}
Fulfilled(disk) == [disk |-> disk, ok |-> TRUE]
Refused(disk) == [disk |-> disk, ok |-> FALSE]

\* Browse: the children of a directory, or an error.
FilesBrowse(disk, d) ==
    IF disk[d] = Dir
    THEN LET children == {p \in FilesPaths \ {<<>>} : parentPath(p) = d /\ disk[p] # None}
         IN  Value([dir |-> d, dirs |-> {p \in children : disk[p] = Dir},
                   files |-> {p \in children : disk[p] # Dir}])
    ELSE Failed

MkdirAll(disk, d) ==
    IF \E p \in FilesPaths : IsPrefix(p, d) /\ IsFile(disk, p)
    THEN Refused(disk)
    ELSE Fulfilled([p \in FilesPaths |-> IF IsPrefix(p, d) THEN Dir ELSE disk[p]])

\* os.WriteFile: truncates what is there, needs the directory.
WriteFile(disk, p, text) ==
    IF disk[parentPath(p)] = Dir /\ disk[p] # Dir THEN Fulfilled([disk EXCEPT ![p] = text]) ELSE Refused(disk)

\* Save's os.Stat skipped.
FilesStatSkipped(disk, p) == TRUE

\* Save: os.Stat finds a file, or nothing is written.
FilesStat(disk, p) == IsFile(disk, p)

\* Delete: os.RemoveAll, no error when there is nothing.
FilesDelete(disk, p) == Fulfilled([q \in FilesPaths |-> IF IsPrefix(p, q) THEN None ELSE disk[q]])

\* What lies at q once src has been put at dst.
FilesMoved(disk, src, dst, q) == disk[src \o SubSeq(q, Len(dst) + 1, Len(q))]
FilesFits(disk, src, dst) ==
    \A p \in FilesUnder(src) : disk[p] # None => dst \o SubSeq(p, Len(src) + 1, Len(p)) \in FilesPaths
FilesCovered(disk, src, dst) ==
    {q \in FilesUnder(dst) : /\ src \o SubSeq(q, Len(dst) + 1, Len(q)) \in FilesPaths
                        /\ FilesMoved(disk, src, dst, q) # None}

\* copyPath: a file over a file, or a tree merged into a tree; an entry of the
\* other kind in the way stops the walk, and what it already copied stays.
CopyPath(disk, src, dst) ==
    LET parents == MkdirAll(disk, IF disk[src] = Dir THEN dst ELSE parentPath(dst))
        clash == {q \in FilesCovered(disk, src, dst) :
                    parents.disk[q] # None /\ (parents.disk[q] = Dir) # (FilesMoved(disk, src, dst, q) = Dir)}
        put(S) == [q \in FilesPaths |-> IF q \in S THEN FilesMoved(disk, src, dst, q) ELSE parents.disk[q]]
    IN  IF \/ disk[src] = None
           \/ disk[src] = Dir /\ IsPrefix(src, dst)
           \/ ~parents.ok
        THEN {Refused(IF disk[src] # None /\ disk[src] # Dir THEN parents.disk ELSE disk)}
        ELSE IF clash = {} THEN {Fulfilled(put(FilesCovered(disk, src, dst)))}
        ELSE {Refused(put(S)) : S \in SUBSET (FilesCovered(disk, src, dst) \ UNION {FilesUnder(q) : q \in clash})}

\* movePath: the directories of the destination are made, then os.Rename.
MovePath(disk, src, dst) ==
    LET parents == MkdirAll(disk, parentPath(dst))
        here == parents.disk
        renames == /\ parents.ok
                   /\ here[src] # None
                   /\ ~(here[src] = Dir /\ IsStrictPrefix(src, dst))
                   /\ \/ here[dst] = None
                      \/ here[src] # Dir /\ here[dst] # Dir
                      \/ /\ here[src] = Dir /\ here[dst] = Dir
                         /\ src = dst \/ \A q \in FilesUnder(dst) \ {dst} : here[q] = None
    IN  IF ~renames THEN Refused(here)
        ELSE IF src = dst THEN Fulfilled(here)
        ELSE Fulfilled([q \in FilesPaths |->
                   IF q \in FilesCovered(here, src, dst) THEN FilesMoved(here, src, dst, q)
                   ELSE IF IsPrefix(src, q) THEN None ELSE here[q]])

\* extractArchive: the destination is made, the tool fails or adds a file.
ExtractArchive(disk, p, dst) ==
    LET made == MkdirAll(disk, dst)
    IN  IF ~IsFile(disk, p) \/ ~made.ok THEN {Refused(disk)}
        ELSE {Refused(made.disk)} \cup
             {Fulfilled([made.disk EXCEPT ![q] = t]) :
                q \in {x \in FilesUnder(dst) \ {dst} : parentPath(x) = dst /\ made.disk[x] # Dir},
                t \in FilesTexts}

\* Action
FilesAction(disk, act, src, dst) ==
    CASE act = "copy" -> CopyPath(disk, src, dst)
      [] act = "move" -> {MovePath(disk, src, dst)}
      [] act = "chmod" -> {[disk |-> disk, ok |-> disk[src] # None]}
      [] act = "extract" -> ExtractArchive(disk, src, dst)
      [] act = "file" -> {WriteFile(disk, dst, t) : t \in FilesTexts}
      [] act = "upload" -> {WriteFile(disk, dst, t) : t \in FilesTexts}
      [] act = "folder" -> {MkdirAll(disk, dst)}

(***************************************************************************)
(* The page.                                                               *)
(***************************************************************************)
FilesInit ==
    /\ filesDisk = FilesDisk0
    /\ filesHook = AsyncMount(<<>>)
    /\ filesViewer = NoPath
    /\ filesDrafts = <<>>
    /\ filesChecked = {}
    /\ filesSelected = NoPath
    /\ filesModal = NoModal
    /\ filesCalls = <<>>
    /\ filesOthers = 0
    /\ filesGestures = 0
    /\ filesWritten = {<<p, FilesDisk0[p]>> : p \in {q \in FilesEditable : IsFile(FilesDisk0, q)}}
    /\ filesUnseen = FALSE

FilesCurrentPath == filesHook.deps
FilesFileRows == IF AsyncShown(filesHook) THEN filesHook.data[2].files ELSE {}
FilesRows == IF AsyncShown(filesHook) THEN filesHook.data[2].dirs \cup filesHook.data[2].files ELSE {}
dirtyDrafts == {p \in DOMAIN filesDrafts : filesDrafts[p].dirty}

\* An open dialog makes the page behind it inert.
FilesBackground == filesViewer = NoPath /\ filesModal = NoModal
\* To leave the directory, reload or open a dialog counts for two.
FilesGestures(n) == filesGestures + n <= FilesMaxGestures /\ filesGestures' = filesGestures + n
FilesGesture == FilesGestures(1)
FilesRarely == filesOthers < FilesMaxOther /\ filesOthers' = filesOthers + 1
FilesPending(op) == \E i \in DOMAIN filesCalls : filesCalls[i].op = op

\* The editor is there once the draft is (a spinner before), Save is enabled while
\* the draft is dirty and no save is running.
EditorShown == filesViewer \in DOMAIN filesDrafts
SaveEnabled == filesViewer \in dirtyDrafts /\ ~FilesPending("save")

\* The buttons of the toolbar and what disables them.
Toolbar(op) ==
    /\ FilesBackground
    /\ CASE op \in {"copyUp", "moveUp"} -> FilesRows \cap filesChecked # {} /\ FilesCurrentPath # <<>>
         [] op = "batchSave" -> dirtyDrafts # {} /\ ~FilesPending("batchSave")
         [] op = "batchDelete" -> filesChecked # {} /\ ~FilesPending("batchDelete")
         [] op = "reload" -> TRUE

\* The gestures on a row of the table.
RowGesture(p) == FilesBackground /\ p \in FilesRows

\* A call of the page: op, the path and destination it is about, the items it
\* was sent with and those the service (or the loop) has still to do; for a save
\* the item whose file it found and (history) whether the file was there then.
FilesCall(op, path, to, items) ==
    [op |-> op, path |-> path, to |-> to, items |-> items, todo |-> items, found |-> {}, there |-> FALSE,
     mine |-> TRUE, ans |-> Waiting]
FilesPlain(S) == {<<p, "">> : p \in S}
FilesSend(c) == Len(filesCalls) < FilesMaxCalls /\ filesCalls' = Send(filesCalls, c)

\* One of these requests will write the draft of p when it is answered: a read or
\* a save of p, and a batch save, which marks every draft clean.
FilesConcerned(S, p) ==
    \E i \in S : \/ filesCalls[i].op \in {"read", "save"} /\ filesCalls[i].path = p
               \/ filesCalls[i].op = "batchSave"

\* navigate('/files', ...): a crumb, a root, the path box, a directory row, or
\* the history of the browser.
FilesNavigate(d) ==
    /\ FilesGestures(2)
    /\ d # FilesCurrentPath
    /\ filesHook' = AsyncRun(filesHook, d)
    /\ filesChecked' = {}
    /\ UNCHANGED <<filesDisk, filesViewer, filesDrafts, filesSelected, filesModal, filesCalls,
                   filesHistory>>

FilesReload ==
    /\ FilesGestures(2)
    /\ Toolbar("reload")
    /\ filesHook' = AsyncReload(filesHook)
    /\ UNCHANGED <<filesDisk, filesPageVars, filesCalls, filesHistory>>

\* The service lists the directory.
FilesServeListing(c) ==
    /\ c.ans = Waiting
    /\ \E res \in {FilesBrowse(filesDisk, c.deps), Failed} : filesHook' = AsyncServe(filesHook, c, res)
    /\ filesUnseen' = FALSE
    /\ UNCHANGED <<filesGestures, filesDisk, filesPageVars, filesCalls, filesOthers, filesWritten>>

FilesListingArrives(c) ==
    /\ c.ans # Waiting
    /\ filesHook' = AsyncDeliver(filesHook, c)
    /\ UNCHANGED <<filesGestures, filesDisk, filesPageVars, filesCalls, filesHistory>>

TickRow(p) ==
    /\ FilesGesture
    /\ RowGesture(p)
    /\ filesChecked' = (filesChecked \ {p}) \cup ({p} \ filesChecked)
    /\ UNCHANGED <<filesDisk, filesHook, filesViewer, filesDrafts, filesSelected, filesModal,
                   filesCalls, filesHistory>>

\* openEntry on a file: the viewer opens, and a draft is read unless there is one.
OpenEntry(p) ==
    /\ FilesGesture
    /\ RowGesture(p) /\ p \in FilesFileRows
    /\ filesViewer' = p
    /\ IF p \in FilesEditable \ DOMAIN filesDrafts
       THEN FilesSend(FilesCall("read", p, p, FilesPlain({p})))
       ELSE UNCHANGED filesCalls
    /\ UNCHANGED <<filesDisk, filesHook, filesDrafts, filesChecked, filesSelected, filesModal,
                   filesHistory>>

FilesCloseViewer ==
    /\ FilesGesture
    /\ filesViewer # NoPath
    /\ filesViewer' = NoPath
    /\ UNCHANGED <<filesDisk, filesHook, filesDrafts, filesChecked, filesSelected, filesModal,
                   filesCalls, filesHistory>>

\* onDraft: a keystroke in the editor; formatSelected also ends here.
FilesType(text) ==
    /\ FilesGesture
    /\ EditorShown
    /\ filesDrafts' = [filesDrafts EXCEPT
                         ![filesViewer] = [text |-> text, dirty |-> TRUE,
                                           raced |-> FilesConcerned(DOMAIN filesCalls, filesViewer)]]
    /\ UNCHANGED <<filesDisk, filesHook, filesViewer, filesChecked, filesSelected, filesModal,
                   filesCalls, filesHistory>>

\* CodeEditor: when the text changes under a mounted editor its value effect
\* dispatches the change, which comes back through onDraft as an edit.
EditorSyncs(p, text) == EditorShown /\ filesViewer = p /\ filesDrafts[p].text # text

\* setDrafts from the answer of the i-th request.
FilesPutDraft(i, p, text) ==
    LET synced == EditorSyncs(p, text)
        others == DOMAIN filesCalls \ {i}
        draft == [text |-> text, dirty |-> synced, raced |-> synced /\ FilesConcerned(others, p)]
    IN  [q \in DOMAIN filesDrafts \cup {p} |-> IF q = p THEN draft ELSE filesDrafts[q]]

\* saveSelected: the draft of this moment is sent.
SaveSelected ==
    /\ FilesGesture
    /\ SaveEnabled
    /\ FilesSend(FilesCall("save", filesViewer, filesViewer, {<<filesViewer, filesDrafts[filesViewer].text>>}))
    /\ UNCHANGED <<filesDisk, filesHook, filesPageVars, filesHistory>>

RunBatchSave ==
    /\ FilesGesture
    /\ Toolbar("batchSave")
    /\ FilesSend(FilesCall("batchSave", <<>>, <<>>, {<<p, filesDrafts[p].text>> : p \in dirtyDrafts}))
    /\ UNCHANGED <<filesDisk, filesHook, filesPageVars, filesHistory>>

\* deleteEntry: its continuation knows the row selected at the click (and no viewer).
DeleteEntry(p) ==
    /\ FilesGesture
    /\ RowGesture(p)
    /\ FilesSend(FilesCall("delete", p, filesSelected, FilesPlain({p})))
    /\ UNCHANGED <<filesDisk, filesHook, filesPageVars, filesHistory>>

RunBatchDelete ==
    /\ FilesGesture
    /\ Toolbar("batchDelete")
    /\ FilesSend(FilesCall("batchDelete", <<>>, <<>>, FilesPlain(filesChecked)))
    /\ UNCHANGED <<filesDisk, filesHook, filesPageVars, filesHistory>>

\* copySelectedToParent, moveSelectedToParent: a loop that awaits each path.
SelectedToParent(op) ==
    /\ FilesGesture
    /\ Toolbar(op)
    /\ FilesSend(FilesCall(op, <<>>, parentPath(FilesCurrentPath), FilesPlain(FilesRows \cap filesChecked)))
    /\ UNCHANGED <<filesDisk, filesHook, filesPageVars, filesHistory>>

\* moveDroppedPath: a row dropped on a directory, a root or a crumb.
MoveDroppedPath(p, d) ==
    /\ FilesGesture
    /\ RowGesture(p)
    /\ p # d /\ parentPath(p) # d
    /\ Append(d, Last(p)) \in FilesPaths
    /\ FilesSend(FilesCall("drop", p, joinPath(d, p), FilesPlain({p})))
    /\ UNCHANGED <<filesDisk, filesHook, filesPageVars, filesHistory>>

\* uploadDropped, dropExternalOnDirectory: files dragged in from the desktop land
\* in the directory on show or in the row or root they are dropped on.
UploadDropped(dst) ==
    /\ FilesGesture
    /\ FilesBackground
    /\ FilesRarely
    /\ dst # <<>> /\ parentPath(dst) \in FilesRows \cup {FilesCurrentPath, <<>>}
    /\ FilesSend(FilesCall("dropUpload", NoPath, dst, FilesPlain({dst})))
    /\ UNCHANGED <<filesDisk, filesHook, filesPageVars, filesWritten, filesUnseen>>

\* The buttons that open a dialog; a row dialog selects its row.
FilesOpenModal(act, p) ==
    /\ FilesGestures(2)
    /\ FilesRarely
    /\ FilesBackground
    /\ act \in RowDialogs => p \in FilesRows
    /\ filesModal' = act
    /\ filesSelected' = IF act \in RowDialogs THEN p ELSE filesSelected
    /\ UNCHANGED <<filesDisk, filesHook, filesViewer, filesDrafts, filesChecked, filesCalls,
                   filesWritten, filesUnseen>>

\* Closing unmounts the dialog; its request goes on.
FilesCloseModal ==
    /\ FilesGesture
    /\ filesModal # NoModal
    /\ filesModal' = NoModal
    /\ filesCalls' = [i \in DOMAIN filesCalls |-> [filesCalls[i] EXCEPT !.mine = FALSE]]
    /\ UNCHANGED <<filesDisk, filesHook, filesViewer, filesDrafts, filesChecked, filesSelected,
                   filesHistory>>

\* FileActionModal.submit.  A row dialog whose row was deselected meanwhile
\* resolves at once: nothing is sent.
FilesSubmitModal(dst) ==
    /\ FilesGesture
    /\ filesModal # NoModal
    /\ ~\E i \in DOMAIN filesCalls : filesCalls[i].op \in Dialogs /\ filesCalls[i].mine
    /\ IF filesModal \in RowDialogs /\ filesSelected = NoPath
       THEN /\ filesModal' = NoModal
            /\ filesHook' = AsyncReload(filesHook)
            /\ UNCHANGED filesCalls
       ELSE /\ filesModal \in {"file", "folder", "upload"} => dst # <<>> /\ parentPath(dst) = FilesCurrentPath
            /\ filesModal \in {"copy", "move"} => FilesFits(filesDisk, filesSelected, dst)
            /\ FilesSend(FilesCall(filesModal, filesSelected, dst, FilesPlain({dst})))
            /\ UNCHANGED <<filesModal, filesHook>>
    /\ UNCHANGED <<filesDisk, filesViewer, filesDrafts, filesChecked, filesSelected, filesHistory>>

(***************************************************************************)
(* The service handles a request: one step for each item of a batch, two   *)
(* for a save, which looks for the file and then writes it.                *)
(***************************************************************************)
FilesStored(disk) == filesWritten \cup {<<p, disk[p]>> : p \in {q \in FilesEditable : IsFile(disk, q)}}

\* A batch that goes on after an error and reports success.
FilesAfterItemKeepsGoing(c, item, ok) ==
    IF c.todo \subseteq {item} THEN [c EXCEPT !.todo = {}, !.ans = Value("")]
    ELSE [c EXCEPT !.todo = @ \ {item}, !.found = {}]

\* One item done: the rest of the batch remains, an error ends it.
FilesAfterItem(c, item, ok) ==
    IF ~ok THEN [c EXCEPT !.ans = Failed]
    ELSE IF c.todo \subseteq {item} THEN [c EXCEPT !.todo = {}, !.ans = Value("")]
    ELSE [c EXCEPT !.todo = @ \ {item}, !.found = {}]

FilesSaves == {"save", "batchSave"}
FilesInHand(c) == IF c.op \in FilesSaves THEN c.found ELSE c.todo

FilesOutcomes(c, item) ==
    CASE c.op \in FilesSaves -> {WriteFile(filesDisk, item[1], item[2])}
      [] c.op \in {"delete", "batchDelete"} -> {FilesDelete(filesDisk, item[1])}
      [] c.op = "copyUp" -> CopyPath(filesDisk, item[1], joinPath(c.to, item[1]))
      [] c.op = "moveUp" -> {MovePath(filesDisk, item[1], joinPath(c.to, item[1]))}
      [] c.op = "drop" -> {MovePath(filesDisk, c.path, c.to)}
      [] c.op = "dropUpload" -> FilesAction(filesDisk, "upload", c.path, c.to)
      [] c.op \in Dialogs -> FilesAction(filesDisk, c.op, c.path, c.to)

\* Save's os.Stat, for the next item.
FilesServeStat(i) ==
    LET c == filesCalls[i] IN
    /\ Unserved(filesCalls, i)
    /\ c.op \in FilesSaves /\ c.found = {}
    /\ \E item \in c.todo :
         filesCalls' = [filesCalls EXCEPT ![i] =
             IF FilesStat(filesDisk, item[1]) THEN [c EXCEPT !.found = {item}, !.there = IsFile(filesDisk, item[1])]
             ELSE FilesAfterItem(c, item, FALSE)]
    /\ UNCHANGED <<filesGestures, filesDisk, filesHook, filesPageVars, filesHistory>>

\* The operation on an item; a save writes the file, which makes it if it is gone.
FilesServeCall(i) ==
    /\ Unserved(filesCalls, i)
    /\ filesCalls[i].op # "read"
    /\ \E item \in FilesInHand(filesCalls[i]) : \E out \in FilesOutcomes(filesCalls[i], item) :
         /\ filesDisk' = out.disk
         /\ filesCalls' = [filesCalls EXCEPT ![i] = FilesAfterItem(@, item, out.ok)]
         /\ filesWritten' = FilesStored(out.disk)
    /\ UNCHANGED <<filesGestures, filesHook, filesPageVars, filesOthers, filesUnseen>>

FilesServeRead(i) ==
    /\ Unserved(filesCalls, i)
    /\ filesCalls[i].op = "read"
    /\ LET p == filesCalls[i].path
       IN  filesCalls' = Answer(filesCalls, i, IF IsFile(filesDisk, p) THEN Value(filesDisk[p]) ELSE Failed)
    /\ UNCHANGED <<filesGestures, filesDisk, filesHook, filesPageVars, filesHistory>>

\* The connection fails: the service may have done some of it, the page is told nothing.
FilesCallLost(i) ==
    /\ filesCalls[i].ans # Failed
    /\ filesCalls' = Answer(filesCalls, i, Failed)
    /\ UNCHANGED <<filesGestures, filesDisk, filesHook, filesPageVars, filesHistory>>

(***************************************************************************)
(* The answer arrives.                                                     *)
(***************************************************************************)
\* A rejected request: a toast or an unhandled rejection, and no reload.
FilesCallFails(i) ==
    /\ filesCalls[i].ans = Failed
    /\ filesCalls' = Forget(filesCalls, i)
    /\ filesUnseen' = (filesUnseen \/ filesCalls[i].op # "read")
    /\ UNCHANGED <<filesGestures, filesDisk, filesHook, filesPageVars, filesOthers, filesWritten>>

FilesReadArrives(i) ==
    /\ filesCalls[i].op = "read"
    /\ filesCalls[i].ans \notin {Waiting, Failed}
    /\ filesDrafts' = FilesPutDraft(i, filesCalls[i].path, filesCalls[i].ans[2])
    /\ filesCalls' = Forget(filesCalls, i)
    /\ UNCHANGED <<filesGestures, filesDisk, filesHook, filesViewer, filesChecked, filesSelected, filesModal,
                   filesHistory>>

\* saveSelected puts the draft it captured back, runBatchSave marks every draft clean.
FilesDraftsAfter(i) ==
    LET c == filesCalls[i]
    IN  CASE c.op = "save" -> FilesPutDraft(i, c.path, (CHOOSE item \in c.items : TRUE)[2])
          [] c.op = "batchSave" -> [p \in DOMAIN filesDrafts |-> [filesDrafts[p] EXCEPT !.dirty = FALSE]]
          [] OTHER -> filesDrafts

\* Every continuation ends with state.reload().
HookAfterNoReload(c) == IF c.op = "drop" THEN filesHook ELSE AsyncReload(filesHook)
HookAfter(c) == AsyncReload(filesHook)

\* What a continuation clears besides the drafts; all of them then reload.
FilesCallArrives(i) ==
    LET c == filesCalls[i]
    IN  /\ c.op # "read" /\ c.ans = Value("")
        /\ filesCalls' = Forget(filesCalls, i)
        /\ filesDrafts' = FilesDraftsAfter(i)
        /\ filesChecked' = IF c.op \in {"batchDelete", "moveUp"} THEN {} ELSE filesChecked
        /\ filesSelected' = IF c.op = "batchDelete" \/ (c.op = "delete" /\ c.to = c.path)
                            THEN NoPath ELSE filesSelected
        /\ filesViewer' = IF c.op = "batchDelete" THEN NoPath ELSE filesViewer
        /\ filesModal' = IF c.op \in Dialogs THEN NoModal ELSE filesModal
        /\ filesHook' = HookAfter(c)
        /\ UNCHANGED <<filesGestures, filesDisk, filesHistory>>

\* The shell, a cron job or another tab of the panel.
FilesOther(p, x) ==
    /\ FilesRarely
    /\ p # <<>> /\ filesDisk[parentPath(p)] = Dir /\ filesDisk[p] # Dir
    /\ filesDisk' = [filesDisk EXCEPT ![p] = x]
    /\ filesWritten' = FilesStored(filesDisk')
    /\ filesUnseen' = TRUE
    /\ UNCHANGED <<filesGestures, filesHook, filesPageVars, filesCalls>>

FilesNext ==
    \/ \E d \in FilesPaths : FilesNavigate(d)
    \/ FilesReload
    \/ \E c \in filesHook.calls : FilesServeListing(c) \/ FilesListingArrives(c)
    \/ \E p \in FilesPaths : TickRow(p) \/ OpenEntry(p) \/ DeleteEntry(p)
    \/ FilesCloseViewer
    \/ \E text \in FilesTexts : FilesType(text)
    \/ SaveSelected \/ RunBatchSave \/ RunBatchDelete
    \/ \E op \in {"copyUp", "moveUp"} : SelectedToParent(op)
    \/ \E p, d \in FilesPaths : MoveDroppedPath(p, d)
    \/ \E act \in Dialogs, p \in FilesPaths : FilesOpenModal(act, p)
    \/ FilesCloseModal
    \/ \E dst \in FilesPaths : UploadDropped(dst)
    \/ \E dst \in FilesPaths : FilesSubmitModal(dst)
    \/ \E i \in DOMAIN filesCalls :
         FilesServeStat(i) \/ FilesServeCall(i) \/ FilesServeRead(i) \/ FilesCallLost(i) \/ FilesCallFails(i) \/ FilesReadArrives(i) \/ FilesCallArrives(i)
    \/ \E p \in FilesPaths, x \in FilesTexts \cup {None} : FilesOther(p, x)

FilesSpec == FilesInit /\ [][FilesNext]_filesVars
(***************************************************************************)
(* Properties.                                                             *)
(***************************************************************************)

\* The variables have the types the code gives them.
FilesTypeOK ==
    /\ filesDisk \in [FilesPaths -> {None, Dir} \cup FilesTexts]
    /\ filesViewer \in FilesPaths \cup {NoPath}
    /\ filesSelected \in FilesPaths \cup {NoPath}
    /\ DOMAIN filesDrafts \subseteq FilesEditable
    /\ \A p \in DOMAIN filesDrafts :
         filesDrafts[p] \in [text : FilesTexts, dirty : BOOLEAN, raced : BOOLEAN]
    /\ filesChecked \subseteq FilesPaths
    /\ filesModal \in Dialogs \cup {NoModal}
    /\ Len(filesCalls) <= FilesMaxCalls
    /\ FilesCurrentPath \in FilesPaths

\* Whatever the order in which listings come back, the rows on show are the
\* rows of the directory named above them (useAsync drops the answer of a run
\* that is no longer the last), so "copy to parent" never takes rows of one
\* directory and the parent of another.
RowsOfThisDirectory ==
    filesHook.data # NoData => filesHook.data[2].dir = FilesCurrentPath

\* When nothing is in flight and no request failed, the rows are what is on the
\* disk: every operation that changes it reloads the listing once it is done.
RowsCurrent ==
    filesCalls = <<>> /\ AsyncSettled(filesHook) /\ AsyncShown(filesHook) /\ ~filesUnseen
        => filesHook.data = FilesBrowse(filesDisk, FilesCurrentPath)

\* A draft the page calls clean holds a text that has been on the disk at its
\* path, unless it was edited while an answer that writes the draft was on its way:
\* a batch save that fails half-way leaves all its drafts dirty.
CleanMeansStored ==
    \A p \in DOMAIN filesDrafts :
        ~filesDrafts[p].dirty
            => \/ <<p, filesDrafts[p].text>> \in filesWritten
               \/ filesDrafts[p].raced

\* An edit is replaced by an answer only if one that writes the draft was already
\* on its way when the edit was made: opening a file again never reads over the
\* draft, and other pages and directories leave it alone.
EditsSurvive ==
    [][\A p \in DOMAIN filesDrafts :
         filesDrafts[p].dirty /\ ~filesDrafts[p].raced
             => \/ filesDrafts'[p].text = filesDrafts[p].text
                \/ filesCalls' = filesCalls
      ]_filesVars

\* Saving a draft does not bring back a file: what was deleted or moved away
\* while the draft was open stays gone until a creation, a copy, a move or
\* somebody else brings it back, or a save that had found the file before it
\* went and was about to write it.
SaveCreatesNothing ==
    [][\A p \in FilesPaths :
         filesDisk[p] = None /\ filesDisk'[p] # None
            => \/ filesOthers' # filesOthers
               \/ \E i \in DOMAIN filesCalls :
                    /\ filesCalls'[i] # filesCalls[i]
                    /\ \/ filesCalls[i].op \notin {"read", "save", "batchSave"}
                       \/ filesCalls[i].there /\ \E item \in filesCalls[i].found : item[1] = p
      ]_filesVars

\* No operation loses an edit or undoes what happened to the files meanwhile.
EditsAreSafe == EditsSurvive /\ SaveCreatesNothing
=============================================================================
