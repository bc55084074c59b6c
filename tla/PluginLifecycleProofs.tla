----------------------- MODULE PluginLifecycleProofs -----------------------
(* Theorems about PluginLifecycle, for every set of plugins, versions and   *)
(* requests and every combination of faults: types, locks, enabled versions *)
(* and their files, the unique enabled version, and the refinement of the   *)
(* registry's documented state machine. Under the hypotheses they name: no  *)
(* version left half-enabled, and the dispatcher in step with the registry. *)
EXTENDS PluginLifecycle, TLAPS

USE DEF IsIdle, ThisKey, CurKey

\* The initial states satisfy the invariant.
LEMMA InitInv == Init => ArtifactInv
  <1> SUFFICES ASSUME Init PROVE ArtifactInv
    OBVIOUS
  <1> USE DEF Init, IdleRequest, IdleSup, NoTargets, NoVersion, NoRow
  <1>1. TypeOK
    <2>1. rows \in [Key -> Row]
      BY DEF Row, States, Classes
    <2>2. targets \in Target
      BY DEF Target
    <2>3. IdleRequest \in Request
      BY DEF Request, PCs, Ops, Afters, Target
    <2>4. req \in [Requests -> Request]
      BY <2>3
    <2>5. sup \in [pc : SupPC, todo : SUBSET Key, k : Key \cup {NoKey},
                   fails : [Key -> 0..MaxAttempts]]
      <3>1. 0 \in 0..MaxAttempts
        BY MaxAttemptsAssumption
      <3>2. [k \in Key |-> 0] \in [Key -> 0..MaxAttempts]
        BY <3>1
      <3> QED
        BY <3>2 DEF SupPC
    <2>6. boot \in [phase : {"seed", "auto", "serving"}, todo : SUBSET Bundled,
                    crashes : 0..MaxCrashes]
      <3>1. 0 \in 0..MaxCrashes
        BY MaxCrashesAssumption
      <3> QED
        BY <3>1
    <2> QED
      BY <2>1, <2>2, <2>4, <2>5, <2>6 DEF TypeOK
  <1>2. \A r \in Requests : req[r].pc = "idle"
    OBVIOUS
  <1>3. LockDiscipline /\ OperandsOK
    BY <1>2 DEF LockDiscipline, OperandsOK
  <1>4. SupOperandOK
    BY DEF SupOperandOK
  <1>5. EnabledHasArtifact /\ ArtifactHeld
    BY <1>2 DEF EnabledHasArtifact, ArtifactHeld
  <1> QED
    BY <1>1, <1>3, <1>4, <1>5 DEF ArtifactInv

-----------------------------------------------------------------------------
(* How a step of request r changes its record and the lock.                *)

\* The request returns: its lock, and only its lock, is released.
LEMMA ReturnStep ==
  ASSUME TypeOK, LockDiscipline, OperandsOK, NEW r \in Requests, ~IsIdle(r), Return(r)
  PROVE  /\ req' \in [Requests -> Request] /\ locks' \subseteq Plugins
         /\ LockDiscipline' /\ OperandsOK' /\ IsIdle(r)'
         /\ \A q \in Requests \ {r} : req'[q] = req[q]
  <1>1. IdleRequest \in Request
    BY DEF Request, PCs, Ops, Afters, Target, IdleRequest, NoTargets, NoVersion
  <1>2. req' = [req EXCEPT ![r] = IdleRequest] /\ req \in [Requests -> Request]
    BY DEF Return, TypeOK
  <1>3. /\ req' \in [Requests -> Request]
        /\ req'[r].pc = "idle"
        /\ \A q \in Requests \ {r} : req'[q] = req[q]
    BY <1>1, <1>2 DEF IdleRequest
  <1>4. LockDiscipline'
    BY <1>3 DEF LockDiscipline, Return
  <1>5. OperandsOK'
    BY <1>3 DEF OperandsOK, OperandOK
  <1> QED
    BY <1>3, <1>4, <1>5 DEF Return, TypeOK

\* The request goes on within its operation.
LEMMA MoveStep ==
  ASSUME TypeOK, LockDiscipline, OperandsOK, NEW r \in Requests, ~IsIdle(r),
         NEW rec \in Request, req' = [req EXCEPT ![r] = rec],
         rec.pc # "idle", rec.p = req[r].p,
         UNCHANGED locks, OperandOK(r)'
  PROVE  /\ req' \in [Requests -> Request] /\ locks' \subseteq Plugins
         /\ LockDiscipline' /\ OperandsOK' /\ req'[r] = rec
         /\ \A q \in Requests \ {r} : req'[q] = req[q]
  <1>1. req \in [Requests -> Request]
    BY DEF TypeOK
  <1>2. /\ req' \in [Requests -> Request] /\ req'[r] = rec
        /\ \A q \in Requests \ {r} : req'[q] = req[q]
    BY <1>1
  <1>3. LockDiscipline'
    BY <1>2 DEF LockDiscipline
  <1>4. ASSUME NEW q \in Requests \ {r}, ~IsIdle(q)'
        PROVE  OperandOK(q)'
    BY <1>2, <1>4 DEF OperandsOK, OperandOK
  <1>5. OperandsOK'
    BY <1>4 DEF OperandsOK
  <1> QED
    BY <1>2, <1>3, <1>5 DEF TypeOK

\* The other requests hold what they held: their plugins are different ones.
LEMMA OthersHold ==
  ASSUME TypeOK, LockDiscipline, OperandsOK, ArtifactHeld,
         NEW r \in Requests, ~IsIdle(r),
         \A q \in Requests \ {r} : req'[q] = req[q],
         \A k \in Key : k[1] # req[r].p =>
            rows'[k] = rows[k] /\ (k \in files => k \in files'),
         ~IsIdle(r)' => HoldsArtifact(r)'
  PROVE  ArtifactHeld'
  <1>1. ASSUME NEW q \in Requests \ {r}, ~IsIdle(q)'
        PROVE  HoldsArtifact(q)'
    <2>1. req'[q] = req[q] /\ ~IsIdle(q) /\ req[q].p # req[r].p
      BY <1>1 DEF LockDiscipline
    <2>2. OperandOK(q) /\ HoldsArtifact(q)
      BY <2>1 DEF OperandsOK, ArtifactHeld
    <2>3. ThisKey(q)' = ThisKey(q) /\ CurKey(q)' = CurKey(q)
      BY <2>1
    <2>4. CASE req[q].pc = "eCommit"
      <3>1. ThisKey(q) \in Key /\ ThisKey(q)[1] # req[r].p
        BY <2>1, <2>2, <2>4 DEF OperandOK, EnablePC, Key
      <3> QED
        BY <2>1, <2>2, <2>3, <2>4, <3>1 DEF HoldsArtifact, RefreshPC
    <2>5. CASE \/ req[q].pc \in {"dMark", "dHooks", "dStop", "dUndo", "dComp"}
               \/ req[q].pc \in RefreshPC /\ req[q].after = "undoDisable"
      <3>1. CurKey(q) \in Key /\ CurKey(q)[1] # req[r].p
        BY <2>1, <2>2, <2>5 DEF OperandOK, DisablePC, Key
      <3> QED
        BY <2>1, <2>2, <2>3, <2>5, <3>1 DEF HoldsArtifact, RefreshPC
    <2>6. CASE req[q].pc \in {"iFiles", "iCreate", "iValidate", "uStop", "uFiles", "uDone"}
      <3>1. ThisKey(q) \in Key /\ ThisKey(q)[1] # req[r].p
        BY <2>1, <2>2, <2>6 DEF OperandOK, InstallPC, UninstallPC, Key
      <3> QED
        BY <2>1, <2>2, <2>3, <2>6, <3>1 DEF HoldsArtifact, RefreshPC
    <2> QED
      BY <2>1, <2>4, <2>5, <2>6 DEF HoldsArtifact
  <1> QED
    BY <1>1 DEF ArtifactHeld

\* A step that ends the operation keeps the invariant if its effects on rows
\* and files stay within its plugin.
LEMMA ReturnKeeps ==
  ASSUME ArtifactInv, NEW r \in Requests, ~IsIdle(r), Return(r),
         UNCHANGED <<sup, boot>>,
         rows' \in [Key -> Row], files' \subseteq Key, running' \subseteq Key,
         orphans' \subseteq Key, targets' \in Target,
         \A k \in Key : k[1] # req[r].p =>
            rows'[k] = rows[k] /\ (k \in files => k \in files'),
         EnabledHasArtifact'
  PROVE  ArtifactInv'
  <1>1. /\ req' \in [Requests -> Request] /\ locks' \subseteq Plugins
        /\ LockDiscipline' /\ OperandsOK' /\ IsIdle(r)'
        /\ \A q \in Requests \ {r} : req'[q] = req[q]
    BY ReturnStep DEF ArtifactInv
  <1>2. ArtifactHeld'
    BY <1>1, OthersHold DEF ArtifactInv
  <1>3. TypeOK' /\ SupOperandOK'
    BY <1>1 DEF ArtifactInv, TypeOK, SupOperandOK
  <1> QED
    BY <1>1, <1>2, <1>3 DEF ArtifactInv

\* So does a step that goes on and holds what its next label needs.
LEMMA MoveKeeps ==
  ASSUME ArtifactInv, NEW r \in Requests, ~IsIdle(r),
         NEW rec \in Request, req' = [req EXCEPT ![r] = rec],
         rec.pc # "idle", rec.p = req[r].p, UNCHANGED <<locks, sup, boot>>,
         OperandOK(r)', HoldsArtifact(r)',
         rows' \in [Key -> Row], files' \subseteq Key, running' \subseteq Key,
         orphans' \subseteq Key, targets' \in Target,
         \A k \in Key : k[1] # req[r].p =>
            rows'[k] = rows[k] /\ (k \in files => k \in files'),
         EnabledHasArtifact'
  PROVE  ArtifactInv'
  <1>1. /\ req' \in [Requests -> Request] /\ locks' \subseteq Plugins
        /\ LockDiscipline' /\ OperandsOK'
        /\ \A q \in Requests \ {r} : req'[q] = req[q]
    BY MoveStep DEF ArtifactInv
  <1>2. ArtifactHeld'
    BY <1>1, OthersHold DEF ArtifactInv
  <1>3. TypeOK' /\ SupOperandOK'
    BY <1>1 DEF ArtifactInv, TypeOK, SupOperandOK
  <1> QED
    BY <1>1, <1>2, <1>3 DEF ArtifactInv

\* The three forms in which a request goes on.
LEMMA GotoRec ==
  ASSUME TypeOK, NEW r \in Requests, NEW pc \in PCs, Goto(r, pc)
  PROVE  \E rec \in Request :
            /\ req' = [req EXCEPT ![r] = rec] /\ req'[r] = rec
            /\ rec = [req[r] EXCEPT !.pc = pc]
            /\ rec.pc = pc /\ rec.p = req[r].p /\ rec.v = req[r].v
            /\ rec.cur = req[r].cur /\ rec.op = req[r].op /\ rec.after = req[r].after
            /\ UNCHANGED locks
  <1> DEFINE new == [req[r] EXCEPT !.pc = pc]
  <1>1. req \in [Requests -> Request] /\ req[r] \in Request
    BY DEF TypeOK
  <1>2. new \in Request
    BY <1>1 DEF Request
  <1>3. req' = [req EXCEPT ![r] = new] /\ UNCHANGED locks
    BY DEF Goto
  <1>4. req'[r] = new
    BY <1>1, <1>3
  <1>5. /\ new.pc = pc /\ new.p = req[r].p /\ new.v = req[r].v
        /\ new.cur = req[r].cur /\ new.op = req[r].op /\ new.after = req[r].after
    BY <1>1 DEF Request
  <1> QED
    BY <1>2, <1>3, <1>4, <1>5

LEMMA RefreshRec ==
  ASSUME TypeOK, NEW r \in Requests, NEW after \in Afters, Refresh(r, after)
  PROVE  \E rec \in Request :
            /\ req' = [req EXCEPT ![r] = rec] /\ req'[r] = rec
            /\ rec.pc = "rRead" /\ rec.p = req[r].p /\ rec.v = req[r].v
            /\ rec.cur = req[r].cur /\ rec.op = req[r].op /\ rec.after = after
            /\ UNCHANGED locks
  <1> DEFINE new == [req[r] EXCEPT !.pc = "rRead", !.after = after]
  <1>1. req \in [Requests -> Request] /\ req[r] \in Request
    BY DEF TypeOK
  <1>2. new \in Request
    BY <1>1 DEF Request, PCs, RefreshPC
  <1>3. req' = [req EXCEPT ![r] = new] /\ UNCHANGED locks
    BY <1>1 DEF Refresh
  <1>4. req'[r] = new
    BY <1>1, <1>3
  <1>5. /\ new.pc = "rRead" /\ new.p = req[r].p /\ new.v = req[r].v
        /\ new.cur = req[r].cur /\ new.op = req[r].op /\ new.after = after
    BY <1>1 DEF Request
  <1> QED
    BY <1>2, <1>3, <1>4, <1>5

\* A row that is written changes alone.
LEMMA SetStateRows ==
  ASSUME TypeOK, NEW k \in Key, NEW st \in States, NEW cl \in Classes
  PROVE  /\ SetState(k, st, cl) \in [Key -> Row]
         /\ SetState(k, st, cl)[k].state = st
         /\ \A j \in Key \ {k} : SetState(k, st, cl)[j] = rows[j]
  BY DEF TypeOK, SetState, Row

\* A statement changes at most its own row, and writes "enabled" only over a
\* version whose files are there.
LEMMA RowEffect ==
  ASSUME ArtifactInv, NEW r \in Requests, NEW k \in Key, k[1] = req[r].p,
         NEW st \in States, NEW cl \in Classes,
         rows' = SetState(k, st, cl) \/ rows' = rows,
         UNCHANGED files, st = "enabled" => k \in files
  PROVE  /\ rows' \in [Key -> Row] /\ files' \subseteq Key
         /\ \A j \in Key : j[1] # req[r].p =>
               rows'[j] = rows[j] /\ (j \in files => j \in files')
         /\ EnabledHasArtifact'
  <1>1. TypeOK /\ EnabledHasArtifact
    BY DEF ArtifactInv
  <1>2. CASE rows' = rows
    BY <1>1, <1>2 DEF TypeOK, EnabledHasArtifact
  <1>3. CASE rows' = SetState(k, st, cl)
    <2>1. /\ rows' \in [Key -> Row] /\ rows'[k].state = st
          /\ \A j \in Key \ {k} : rows'[j] = rows[j]
      BY <1>1, <1>3, SetStateRows
    <2> QED
      BY <1>1, <2>1 DEF TypeOK, EnabledHasArtifact
  <1> QED
    BY <1>2, <1>3

\* A statement after which the request returns.
LEMMA UpdateReturns ==
  ASSUME ArtifactInv, NEW r \in Requests, ~IsIdle(r),
         NEW k \in Key, k[1] = req[r].p, NEW st \in States, NEW cl \in Classes,
         st = "enabled" => k \in files,
         Update(r, k, st, cl, Return(r), Return(r)),
         UNCHANGED <<files, targets, sup, boot>>,
         running' \subseteq Key, orphans' \subseteq Key
  PROVE  ArtifactInv'
  <1>1. Return(r) /\ (rows' = SetState(k, st, cl) \/ rows' = rows)
    BY DEF Update
  <1>2. targets' \in Target
    BY DEF ArtifactInv, TypeOK
  <1> QED
    BY <1>1, <1>2, RowEffect, ReturnKeeps

\* A request that returns without an effect on rows and files.
LEMMA JustReturns ==
  ASSUME ArtifactInv, NEW r \in Requests, ~IsIdle(r), Return(r),
         UNCHANGED <<rows, files, sup, boot>>,
         running' \subseteq Key, orphans' \subseteq Key, targets' \in Target
  PROVE  ArtifactInv'
  BY ReturnKeeps DEF ArtifactInv, TypeOK, EnabledHasArtifact

\* A request that goes on without an effect on rows and files.
LEMMA JustMoves ==
  ASSUME ArtifactInv, NEW r \in Requests, ~IsIdle(r),
         NEW rec \in Request, req' = [req EXCEPT ![r] = rec],
         rec.pc # "idle", rec.p = req[r].p, UNCHANGED <<locks, sup, boot>>,
         OperandOK(r)', HoldsArtifact(r)', UNCHANGED <<rows, files>>,
         running' \subseteq Key, orphans' \subseteq Key, targets' \in Target
  PROVE  ArtifactInv'
  BY MoveKeeps DEF ArtifactInv, TypeOK, EnabledHasArtifact

\* What the invariant says of a request that is at a label of its own.
LEMMA AtLabel ==
  ASSUME ArtifactInv, NEW r \in Requests, req[r].pc # "idle"
  PROVE  /\ ~IsIdle(r) /\ OperandOK(r) /\ HoldsArtifact(r) /\ req[r] \in Request
         /\ rows \in [Key -> Row] /\ files \subseteq Key /\ running \subseteq Key
         /\ orphans \subseteq Key /\ targets \in Target /\ TypeOK
  BY DEF ArtifactInv, TypeOK, OperandsOK, ArtifactHeld

\* A request that goes on to label pc: what the label needs is there.
LEMMA GotoKeeps ==
  ASSUME ArtifactInv, NEW r \in Requests, req[r].pc # "idle",
         NEW pc \in PCs \ ({"idle"} \cup RefreshPC), Goto(r, pc),
         UNCHANGED <<sup, boot>>,
         rows' \in [Key -> Row], files' \subseteq Key, running' \subseteq Key,
         orphans' \subseteq Key, targets' \in Target,
         \A k \in Key : k[1] # req[r].p =>
            rows'[k] = rows[k] /\ (k \in files => k \in files'),
         EnabledHasArtifact',
         pc \in InstallPC \cup UninstallPC \cup SwitchPC \cup (EnablePC \ {"eFind"})
            => req[r].v \in Versions,
         pc \in DisablePC \ {"dFind"} => req[r].cur \in Versions,
         pc = "eCommit" => ThisKey(r) \in files',
         pc \in {"dMark", "dHooks", "dStop", "dUndo", "dComp"} => CurKey(r) \in files',
         pc \in {"iFiles", "iCreate", "iValidate", "uStop", "uFiles", "uDone"}
            => rows'[ThisKey(r)].state # "enabled"
  PROVE  ArtifactInv'
  <1>1. /\ ~IsIdle(r) /\ OperandOK(r) /\ TypeOK
    BY AtLabel
  <1>2. PICK rec \in Request :
            /\ req' = [req EXCEPT ![r] = rec] /\ req'[r] = rec
            /\ rec.pc = pc /\ rec.p = req[r].p /\ rec.v = req[r].v
            /\ rec.cur = req[r].cur /\ rec.op = req[r].op /\ rec.after = req[r].after
            /\ UNCHANGED locks
    BY <1>1, GotoRec
  <1>3. OperandOK(r)'
    BY <1>1, <1>2 DEF OperandOK
  <1>4. HoldsArtifact(r)'
    BY <1>2 DEF HoldsArtifact
  <1> QED
    BY <1>1, <1>2, <1>3, <1>4, MoveKeeps

\* The same without an effect on rows and files.
LEMMA JustGoes ==
  ASSUME ArtifactInv, NEW r \in Requests, req[r].pc # "idle",
         NEW pc \in PCs \ ({"idle"} \cup RefreshPC), Goto(r, pc),
         UNCHANGED <<rows, files, sup, boot>>,
         running' \subseteq Key, orphans' \subseteq Key, targets' \in Target,
         pc \in InstallPC \cup UninstallPC \cup SwitchPC \cup (EnablePC \ {"eFind"})
            => req[r].v \in Versions,
         pc \in DisablePC \ {"dFind"} => req[r].cur \in Versions,
         pc = "eCommit" => ThisKey(r) \in files,
         pc \in {"dMark", "dHooks", "dStop", "dUndo", "dComp"} => CurKey(r) \in files,
         pc \in {"iFiles", "iCreate", "iValidate", "uStop", "uFiles", "uDone"}
            => rows[ThisKey(r)].state # "enabled"
  PROVE  ArtifactInv'
  BY GotoKeeps DEF ArtifactInv, TypeOK, EnabledHasArtifact

\* A request that goes on to refreshEnabled.
LEMMA RefreshKeeps ==
  ASSUME ArtifactInv, NEW r \in Requests, req[r].pc # "idle",
         NEW after \in Afters, Refresh(r, after),
         UNCHANGED <<sup, boot>>,
         rows' \in [Key -> Row], files' \subseteq Key, running' \subseteq Key,
         orphans' \subseteq Key, targets' \in Target,
         \A k \in Key : k[1] # req[r].p =>
            rows'[k] = rows[k] /\ (k \in files => k \in files'),
         EnabledHasArtifact',
         after \in {"enabled", "undoEnable"} => req[r].v \in Versions,
         after \in {"disabled", "undoDisable"} => req[r].cur \in Versions,
         after = "undoDisable" => CurKey(r) \in files'
  PROVE  ArtifactInv'
  <1>1. /\ ~IsIdle(r) /\ OperandOK(r) /\ TypeOK
    BY AtLabel
  <1>2. PICK rec \in Request :
            /\ req' = [req EXCEPT ![r] = rec] /\ req'[r] = rec
            /\ rec.pc = "rRead" /\ rec.p = req[r].p /\ rec.v = req[r].v
            /\ rec.cur = req[r].cur /\ rec.op = req[r].op /\ rec.after = after
            /\ UNCHANGED locks
    BY <1>1, RefreshRec
  <1>3. OperandOK(r)'
    BY <1>1, <1>2 DEF OperandOK, InstallPC, UninstallPC, SwitchPC, EnablePC, DisablePC
  <1>4. HoldsArtifact(r)'
    BY <1>2 DEF HoldsArtifact
  <1> QED
    BY <1>1, <1>2, <1>3, <1>4, MoveKeeps

-----------------------------------------------------------------------------
(* The steps of each operation.                                            *)

\* Every step of Enable keeps the invariant: it writes "enabled" only after
\* its Start found the files, and its lock keeps them there.
LEMMA EnableSteps ==
  ASSUME ArtifactInv, NEW r \in Requests,
         \/ EnableFind(r) \/ EnableMark(r) \/ EnableStartOK(r) \/ EnableStartFails(r)
         \/ EnableCommit(r) \/ EnableUndoStop(r) \/ EnableUndoMark(r)
  PROVE  ArtifactInv'
  <1> USE DEF PCs, InstallPC, EnablePC, DisablePC, SwitchPC, UninstallPC, RefreshPC
  <1>1. req[r].pc \in EnablePC
    BY DEF EnableFind, EnableMark, EnableStartOK, EnableStartFails, EnableCommit,
           EnableUndoStop, EnableUndoMark
  <1>2. /\ ~IsIdle(r) /\ OperandOK(r) /\ HoldsArtifact(r) /\ req[r] \in Request
        /\ rows \in [Key -> Row] /\ files \subseteq Key /\ running \subseteq Key
        /\ orphans \subseteq Key /\ targets \in Target /\ TypeOK
    BY <1>1, AtLabel
  <1>3. req[r].pc # "eFind" =>
           req[r].v \in Versions /\ ThisKey(r) \in Key /\ ThisKey(r)[1] = req[r].p
    BY <1>1, <1>2 DEF OperandOK, Key
  <1>4. CASE EnableFind(r)
    <2>1. CASE Return(r)
      BY <1>2, <1>4, <2>1, JustReturns DEF EnableFind
    <2>2. CASE ~Return(r)
      <3>1. PICK v \in Versions :
               /\ req' = [req EXCEPT ![r].pc = "eMark", ![r].v = v]
               /\ UNCHANGED locks
        BY <1>2, <1>4, <2>2 DEF EnableFind, Latest, Installable, Request
      <3> DEFINE new == [req[r] EXCEPT !.pc = "eMark", !.v = v]
      <3>2. new \in Request /\ new.pc = "eMark" /\ new.v = v /\ new.p = req[r].p
            /\ new.cur = req[r].cur /\ new.op = req[r].op /\ new.after = req[r].after
        BY <1>2 DEF Request
      <3>3. req' = [req EXCEPT ![r] = new] /\ req'[r] = new
        BY <1>2, <3>1 DEF TypeOK
      <3>4. OperandOK(r)' /\ HoldsArtifact(r)'
        BY <1>1, <1>2, <3>2, <3>3 DEF OperandOK, HoldsArtifact
      <3> QED
        BY <1>2, <1>4, <3>1, <3>2, <3>3, <3>4, JustMoves DEF EnableFind
    <2> QED
      BY <2>1, <2>2
  <1>5. CASE EnableMark(r)
    <2>1. /\ rows' = SetState(ThisKey(r), "enabling", "none") \/ rows' = rows
          /\ Goto(r, "eStart") \/ Return(r)
          /\ UNCHANGED <<files, running, orphans, targets, sup, boot>>
      BY <1>5 DEF EnableMark, Update
    <2>2. /\ rows' \in [Key -> Row] /\ files' \subseteq Key /\ EnabledHasArtifact'
          /\ \A j \in Key : j[1] # req[r].p =>
                rows'[j] = rows[j] /\ (j \in files => j \in files')
      BY <1>3, <1>5, <2>1, RowEffect DEF EnableMark, States, Classes
    <2> QED
      BY <1>2, <1>3, <1>5, <2>1, <2>2, ReturnKeeps, GotoKeeps DEF EnableMark
  <1>6. CASE EnableStartOK(r)
    <2>1. Goto(r, "eCommit") /\ ThisKey(r) \in files /\ running' \subseteq Key
      BY <1>2, <1>3, <1>6 DEF EnableStartOK, StartOK
    <2> QED
      BY <1>2, <1>3, <1>6, <2>1, JustGoes DEF EnableStartOK
  <1>7. CASE EnableStartFails(r)
    <2>1. orphans' \subseteq Key
      BY <1>2, <1>3, <1>7 DEF EnableStartFails
    <2> QED
      BY <1>2, <1>3, <1>7, <2>1, UpdateReturns DEF EnableStartFails, States, Classes
  <1>8. CASE EnableCommit(r)
    <2>1. /\ rows' = SetState(ThisKey(r), "enabled", "none") \/ rows' = rows
          /\ Refresh(r, "enabled") \/ Return(r)
          /\ UNCHANGED <<files, running, orphans, targets, sup, boot>>
      BY <1>8 DEF EnableCommit, Update
    <2>2. ThisKey(r) \in files
      BY <1>2, <1>8 DEF HoldsArtifact, EnableCommit
    <2>3. /\ rows' \in [Key -> Row] /\ files' \subseteq Key /\ EnabledHasArtifact'
          /\ \A j \in Key : j[1] # req[r].p =>
                rows'[j] = rows[j] /\ (j \in files => j \in files')
      BY <1>3, <1>8, <2>1, <2>2, RowEffect DEF EnableCommit, States, Classes
    <2> QED
      BY <1>2, <1>3, <1>8, <2>1, <2>3, ReturnKeeps, RefreshKeeps DEF EnableCommit, Afters
  <1>9. CASE EnableUndoStop(r)
    <2>1. running' \subseteq Key /\ (Goto(r, "eUndoMark") \/ Goto(r, "eUndoComp"))
      BY <1>2, <1>9 DEF EnableUndoStop
    <2> QED
      BY <1>2, <1>3, <1>9, <2>1, JustGoes DEF EnableUndoStop
  <1>10. CASE EnableUndoMark(r)
    <2>1. CASE Return(r)
      <3>1. rows' = SetState(ThisKey(r), "enable_failed", "compensation_failed")
            \/ rows' = SetState(ThisKey(r), "enable_failed", "other") \/ rows' = rows
        BY <1>10 DEF EnableUndoMark, Update
      <3>2. /\ rows' \in [Key -> Row] /\ files' \subseteq Key /\ EnabledHasArtifact'
            /\ \A j \in Key : j[1] # req[r].p =>
                  rows'[j] = rows[j] /\ (j \in files => j \in files')
        BY <1>3, <1>10, <3>1, RowEffect DEF EnableUndoMark, States, Classes
      <3> QED
        BY <1>2, <1>10, <2>1, <3>2, ReturnKeeps DEF EnableUndoMark
    <2>2. CASE ~Return(r)
      <3>1. /\ rows' = SetState(ThisKey(r), "enable_failed", "other") \/ rows' = rows
            /\ Refresh(r, "undoEnable")
        BY <1>10, <2>2 DEF EnableUndoMark, Update
      <3>2. /\ rows' \in [Key -> Row] /\ files' \subseteq Key /\ EnabledHasArtifact'
            /\ \A j \in Key : j[1] # req[r].p =>
                  rows'[j] = rows[j] /\ (j \in files => j \in files')
        BY <1>3, <1>10, <3>1, RowEffect DEF EnableUndoMark, States, Classes
      <3> QED
        BY <1>2, <1>3, <1>10, <3>1, <3>2, RefreshKeeps DEF EnableUndoMark, Afters
    <2> QED
      BY <2>1, <2>2
  <1> QED
    BY <1>4, <1>5, <1>6, <1>7, <1>8, <1>9, <1>10

\* refreshEnabled reads rows and writes the dispatcher's map.
LEMMA RefreshSteps ==
  ASSUME ArtifactInv, NEW r \in Requests, RefreshRead(r) \/ RefreshApply(r)
  PROVE  ArtifactInv'
  <1> USE DEF PCs, InstallPC, EnablePC, DisablePC, SwitchPC, UninstallPC, RefreshPC
  <1>1. req[r].pc \in RefreshPC
    BY DEF RefreshRead, RefreshApply
  <1>2. /\ ~IsIdle(r) /\ OperandOK(r) /\ HoldsArtifact(r) /\ req[r] \in Request
        /\ rows \in [Key -> Row] /\ files \subseteq Key /\ running \subseteq Key
        /\ orphans \subseteq Key /\ targets \in Target /\ TypeOK
    BY <1>1, AtLabel
  <1>3. CASE RefreshRead(r)
    <2>1. CASE Return(r)
      BY <1>2, <1>3, <2>1, JustReturns DEF RefreshRead
    <2>2. CASE /\ req' = [req EXCEPT ![r].pc = "rApply", ![r].list = ListEnabled]
               /\ UNCHANGED locks
      <3> DEFINE new == [req[r] EXCEPT !.pc = "rApply", !.list = ListEnabled]
      <3>1. ListEnabled \in Target
        BY DEF ListEnabled, FindEnabled, EnabledVersions, Target
      <3>2. new \in Request /\ new.pc = "rApply" /\ new.v = req[r].v /\ new.p = req[r].p
            /\ new.cur = req[r].cur /\ new.op = req[r].op /\ new.after = req[r].after
        BY <1>2, <3>1 DEF Request
      <3>3. req' = [req EXCEPT ![r] = new] /\ req'[r] = new
        BY <1>2, <2>2 DEF TypeOK
      <3>4. OperandOK(r)' /\ HoldsArtifact(r)'
        BY <1>1, <1>2, <1>3, <3>2, <3>3 DEF OperandOK, HoldsArtifact, RefreshRead
      <3> QED
        BY <1>2, <1>3, <2>2, <3>2, <3>3, <3>4, JustMoves DEF RefreshRead
    <2>3. CASE req[r].after = "enabled" /\ Goto(r, "eUndoStop")
      BY <1>2, <1>3, <2>3, JustGoes DEF RefreshRead, OperandOK
    <2>4. CASE req[r].after = "disabled" /\ Goto(r, "dWarn")
      BY <1>2, <1>3, <2>4, JustGoes DEF RefreshRead, OperandOK
    <2>5. CASE req[r].after = "undoDisable" /\ Goto(r, "dComp")
      BY <1>1, <1>2, <1>3, <2>5, JustGoes DEF RefreshRead, OperandOK, HoldsArtifact
    <2> QED
      BY <1>3, <2>1, <2>2, <2>3, <2>4, <2>5 DEF RefreshRead
  <1>4. CASE RefreshApply(r)
    <2>1. targets' \in Target
      BY <1>2, <1>4 DEF RefreshApply, Request
    <2>2. Return(r) \/ Goto(r, "eFind")
      BY <1>4 DEF RefreshApply, AfterRefresh
    <2> QED
      BY <1>2, <1>4, <2>1, <2>2, JustReturns, JustGoes DEF RefreshApply
  <1> QED
    BY <1>3, <1>4

\* Install works on a version that is not enabled, and its lock keeps it so
\* until the row is written.
LEMMA InstallSteps ==
  ASSUME ArtifactInv, NEW r \in Requests,
         InstallFind(r) \/ InstallFiles(r) \/ InstallCreate(r) \/ InstallValidate(r)
  PROVE  ArtifactInv'
  <1> USE DEF PCs, InstallPC, EnablePC, DisablePC, SwitchPC, UninstallPC, RefreshPC
  <1>1. req[r].pc \in InstallPC
    BY DEF InstallFind, InstallFiles, InstallCreate, InstallValidate
  <1>2. /\ ~IsIdle(r) /\ OperandOK(r) /\ HoldsArtifact(r) /\ req[r] \in Request
        /\ rows \in [Key -> Row] /\ files \subseteq Key /\ running \subseteq Key
        /\ orphans \subseteq Key /\ targets \in Target /\ TypeOK
    BY <1>1, AtLabel
  <1>3. req[r].v \in Versions /\ ThisKey(r) \in Key /\ ThisKey(r)[1] = req[r].p
    BY <1>1, <1>2 DEF OperandOK, Key
  <1>4. EnabledHasArtifact
    BY DEF ArtifactInv
  <1>5. CASE InstallFind(r)
    <2>1. CASE Return(r) /\ UNCHANGED files
      BY <1>2, <1>5, <2>1, JustReturns DEF InstallFind
    <2>2. CASE /\ rows[ThisKey(r)].state \in MayInstallOver(req[r].op)
               /\ files' = files \/ files' = files \ {ThisKey(r)}
               /\ Goto(r, "iFiles")
      <3>1. rows[ThisKey(r)].state # "enabled"
        BY <2>2 DEF MayInstallOver
      <3>2. /\ rows' \in [Key -> Row] /\ files' \subseteq Key /\ EnabledHasArtifact'
            /\ \A j \in Key : j[1] # req[r].p =>
                  rows'[j] = rows[j] /\ (j \in files => j \in files')
        BY <1>2, <1>3, <1>4, <1>5, <2>2, <3>1 DEF InstallFind, EnabledHasArtifact
      <3> QED
        BY <1>2, <1>3, <1>5, <2>2, <3>1, <3>2, GotoKeeps DEF InstallFind
    <2> QED
      BY <1>5, <2>1, <2>2 DEF InstallFind
  <1>6. CASE InstallFiles(r)
    <2>1. /\ rows' \in [Key -> Row] /\ files' \subseteq Key /\ EnabledHasArtifact'
          /\ \A j \in Key : j[1] # req[r].p =>
                rows'[j] = rows[j] /\ (j \in files => j \in files')
      BY <1>2, <1>3, <1>4, <1>6 DEF InstallFiles, EnabledHasArtifact
    <2>2. rows'[ThisKey(r)].state # "enabled"
      BY <1>2, <1>6 DEF InstallFiles, HoldsArtifact
    <2>3. Return(r) \/ Goto(r, "iCreate")
      BY <1>6 DEF InstallFiles
    <2> QED
      BY <1>2, <1>3, <1>6, <2>1, <2>2, <2>3, ReturnKeeps, GotoKeeps DEF InstallFiles
  <1>7. CASE InstallCreate(r)
    <2>1. rows[ThisKey(r)].state # "enabled"
      BY <1>2, <1>7 DEF InstallCreate, HoldsArtifact
    <2>2. CASE /\ rows' = SetState(ThisKey(r), "installing", "none")
               /\ UNCHANGED files /\ Goto(r, "iValidate")
      <3>1. /\ rows' \in [Key -> Row] /\ files' \subseteq Key /\ EnabledHasArtifact'
            /\ \A j \in Key : j[1] # req[r].p =>
                  rows'[j] = rows[j] /\ (j \in files => j \in files')
        BY <1>3, <2>2, RowEffect DEF States, Classes
      <3>2. rows'[ThisKey(r)].state # "enabled"
        BY <1>2, <1>3, <2>2, SetStateRows DEF States, Classes
      <3> QED
        BY <1>2, <1>3, <1>7, <2>2, <3>1, <3>2, GotoKeeps DEF InstallCreate
    <2>3. CASE files' = files \ {ThisKey(r)} /\ UNCHANGED rows /\ Return(r)
      <3>1. /\ rows' \in [Key -> Row] /\ files' \subseteq Key /\ EnabledHasArtifact'
            /\ \A j \in Key : j[1] # req[r].p =>
                  rows'[j] = rows[j] /\ (j \in files => j \in files')
        BY <1>2, <1>3, <1>4, <2>1, <2>3 DEF EnabledHasArtifact
      <3> QED
        BY <1>2, <1>7, <2>3, <3>1, ReturnKeeps DEF InstallCreate
    <2> QED
      BY <1>7, <2>2, <2>3 DEF InstallCreate
  <1>8. CASE InstallValidate(r)
    BY <1>2, <1>3, <1>8, UpdateReturns DEF InstallValidate, States, Classes
  <1> QED
    BY <1>5, <1>6, <1>7, <1>8

\* Disable starts from an enabled version, whose files are there, and its
\* lock keeps them: it may put the version back to enabled.
LEMMA DisableSteps ==
  ASSUME ArtifactInv, NEW r \in Requests,
         \/ DisableFind(r) \/ DisableMark(r) \/ DisableHooks(r) \/ DisableStop(r)
         \/ DisableUndo(r) \/ DisableDone(r) \/ DisableWarn(r)
  PROVE  ArtifactInv'
  <1> USE DEF PCs, InstallPC, EnablePC, DisablePC, SwitchPC, UninstallPC, RefreshPC
  <1>1. req[r].pc \in DisablePC
    BY DEF DisableFind, DisableMark, DisableHooks, DisableStop, DisableUndo,
           DisableDone, DisableWarn
  <1>2. /\ ~IsIdle(r) /\ OperandOK(r) /\ HoldsArtifact(r) /\ req[r] \in Request
        /\ rows \in [Key -> Row] /\ files \subseteq Key /\ running \subseteq Key
        /\ orphans \subseteq Key /\ targets \in Target /\ TypeOK
    BY <1>1, AtLabel
  <1>3. req[r].pc # "dFind" =>
           req[r].cur \in Versions /\ CurKey(r) \in Key /\ CurKey(r)[1] = req[r].p
    BY <1>1, <1>2 DEF OperandOK, Key
  <1>4. CASE DisableFind(r)
    <2>1. CASE Return(r)
      BY <1>2, <1>4, <2>1, JustReturns DEF DisableFind
    <2>2. CASE ~Return(r)
      <3> DEFINE cur == FindEnabled(req[r].p)
                 new == [req[r] EXCEPT !.pc = "dMark", !.cur = cur]
      <3>1. /\ req' = [req EXCEPT ![r].pc = "dMark", ![r].cur = cur]
            /\ UNCHANGED locks /\ cur # NoVersion
        BY <1>4, <2>2 DEF DisableFind
      <3>2. cur \in Versions /\ rows[<<req[r].p, cur>>].state = "enabled"
        BY <3>1 DEF FindEnabled, EnabledVersions
      <3>3. <<req[r].p, cur>> \in files
        BY <1>2, <3>2 DEF ArtifactInv, EnabledHasArtifact, OperandOK, Key
      <3>4. new \in Request /\ new.pc = "dMark" /\ new.v = req[r].v /\ new.p = req[r].p
            /\ new.cur = cur /\ new.op = req[r].op /\ new.after = req[r].after
        BY <1>2, <3>2 DEF Request
      <3>5. req' = [req EXCEPT ![r] = new] /\ req'[r] = new
        BY <1>2, <3>1 DEF TypeOK
      <3>6. OperandOK(r)'
        BY <1>1, <1>2, <3>2, <3>4, <3>5 DEF OperandOK
      <3>7. HoldsArtifact(r)'
        BY <1>4, <3>3, <3>4, <3>5 DEF HoldsArtifact, DisableFind
      <3> QED
        BY <1>2, <1>4, <3>1, <3>4, <3>5, <3>6, <3>7, JustMoves DEF DisableFind
    <2> QED
      BY <2>1, <2>2
  <1>5. CASE DisableMark(r)
    <2>1. /\ rows' = SetState(CurKey(r), "disabling", "none") \/ rows' = rows
          /\ Goto(r, "dHooks") \/ Return(r)
          /\ UNCHANGED <<files, running, orphans, targets, sup, boot>>
      BY <1>5 DEF DisableMark, Update
    <2>2. /\ rows' \in [Key -> Row] /\ files' \subseteq Key /\ EnabledHasArtifact'
          /\ \A j \in Key : j[1] # req[r].p =>
                rows'[j] = rows[j] /\ (j \in files => j \in files')
      BY <1>3, <1>5, <2>1, RowEffect DEF DisableMark, States, Classes
    <2>3. CurKey(r) \in files'
      BY <1>2, <1>5, <2>1 DEF DisableMark, HoldsArtifact
    <2> QED
      BY <1>2, <1>3, <1>5, <2>1, <2>2, <2>3, ReturnKeeps, GotoKeeps DEF DisableMark
  <1>6. CASE DisableHooks(r)
    <2>1. targets' \in Target
      BY <1>2, <1>6 DEF DisableHooks, Target
    <2>2. CurKey(r) \in files
      BY <1>2, <1>6 DEF DisableHooks, HoldsArtifact
    <2> QED
      BY <1>2, <1>3, <1>6, <2>1, <2>2, JustGoes DEF DisableHooks
  <1>7. CASE DisableStop(r)
    <2>1. running' \subseteq Key /\ (Goto(r, "dDone") \/ Goto(r, "dUndo"))
      BY <1>2, <1>7 DEF DisableStop
    <2>2. CurKey(r) \in files
      BY <1>2, <1>7 DEF DisableStop, HoldsArtifact
    <2> QED
      BY <1>2, <1>3, <1>7, <2>1, <2>2, JustGoes DEF DisableStop
  <1>8. CASE DisableUndo(r)
    <2>1. CurKey(r) \in files
      BY <1>2, <1>8 DEF DisableUndo, HoldsArtifact
    <2>2. \/ rows' = SetState(CurKey(r), "enabled", "compensation_failed")
          \/ rows' = SetState(CurKey(r), "enabled", "other")
          \/ rows' = rows
      BY <1>8 DEF DisableUndo, Update
    <2>3. /\ rows' \in [Key -> Row] /\ files' \subseteq Key /\ EnabledHasArtifact'
          /\ \A j \in Key : j[1] # req[r].p =>
                rows'[j] = rows[j] /\ (j \in files => j \in files')
      BY <1>3, <1>8, <2>1, <2>2, RowEffect DEF DisableUndo, States, Classes
    <2>4. Return(r) \/ Refresh(r, "undoDisable")
      BY <1>8 DEF DisableUndo, Update
    <2> QED
      BY <1>2, <1>3, <1>8, <2>1, <2>3, <2>4, ReturnKeeps, RefreshKeeps
      DEF DisableUndo, Afters
  <1>9. CASE DisableDone(r)
    <2>1. /\ rows' = SetState(CurKey(r), "installed", "none") \/ rows' = rows
          /\ Refresh(r, "disabled") \/ Return(r)
          /\ UNCHANGED <<files, running, orphans, targets, sup, boot>>
      BY <1>9 DEF DisableDone, Update
    <2>2. /\ rows' \in [Key -> Row] /\ files' \subseteq Key /\ EnabledHasArtifact'
          /\ \A j \in Key : j[1] # req[r].p =>
                rows'[j] = rows[j] /\ (j \in files => j \in files')
      BY <1>3, <1>9, <2>1, RowEffect DEF DisableDone, States, Classes
    <2> QED
      BY <1>2, <1>3, <1>9, <2>1, <2>2, ReturnKeeps, RefreshKeeps DEF DisableDone, Afters
  <1>10. CASE DisableWarn(r)
    BY <1>2, <1>3, <1>10, UpdateReturns DEF DisableWarn, States, Classes
  <1> QED
    BY <1>4, <1>5, <1>6, <1>7, <1>8, <1>9, <1>10

\* A switch decides and migrates before it disables and enables.
LEMMA SwitchSteps ==
  ASSUME ArtifactInv, NEW r \in Requests, SwitchFind(r) \/ SwitchMigrate(r)
  PROVE  ArtifactInv'
  <1> USE DEF PCs, InstallPC, EnablePC, DisablePC, SwitchPC, UninstallPC, RefreshPC
  <1>1. req[r].pc \in SwitchPC
    BY DEF SwitchFind, SwitchMigrate
  <1>2. /\ ~IsIdle(r) /\ OperandOK(r) /\ HoldsArtifact(r) /\ req[r] \in Request
        /\ rows \in [Key -> Row] /\ files \subseteq Key /\ running \subseteq Key
        /\ orphans \subseteq Key /\ targets \in Target /\ TypeOK
    BY <1>1, AtLabel
  <1>3. req[r].v \in Versions /\ ThisKey(r) \in Key /\ ThisKey(r)[1] = req[r].p
    BY <1>1, <1>2 DEF OperandOK, Key
  <1>4. CASE SwitchFind(r)
    <2>1. Return(r) \/ Goto(r, "eFind") \/ Goto(r, "sMigrate")
      BY <1>4 DEF SwitchFind
    <2> QED
      BY <1>2, <1>3, <1>4, <2>1, JustReturns, JustGoes DEF SwitchFind
  <1>5. CASE SwitchMigrate(r)
    <2>1. CASE UNCHANGED rows /\ (Return(r) \/ Goto(r, "dFind"))
      BY <1>2, <1>5, <2>1, JustReturns, JustGoes DEF SwitchMigrate
    <2>2. CASE Update(r, ThisKey(r), "installed", "other", Return(r), Return(r))
      BY <1>2, <1>3, <1>5, <2>2, UpdateReturns DEF SwitchMigrate, States, Classes
    <2> QED
      BY <1>5, <2>1, <2>2 DEF SwitchMigrate
  <1> QED
    BY <1>4, <1>5

\* Uninstall deletes the files of a version it has marked uninstalling, and
\* nobody else can enable that version before it returns.
LEMMA UninstallSteps ==
  ASSUME ArtifactInv, NEW r \in Requests,
         \/ UninstallFind(r) \/ UninstallMark(r) \/ UninstallStop(r)
         \/ UninstallFiles(r) \/ UninstallDone(r)
  PROVE  ArtifactInv'
  <1> USE DEF PCs, InstallPC, EnablePC, DisablePC, SwitchPC, UninstallPC, RefreshPC
  <1>1. req[r].pc \in UninstallPC
    BY DEF UninstallFind, UninstallMark, UninstallStop, UninstallFiles,
           UninstallDone
  <1>2. /\ ~IsIdle(r) /\ OperandOK(r) /\ HoldsArtifact(r) /\ req[r] \in Request
        /\ rows \in [Key -> Row] /\ files \subseteq Key /\ running \subseteq Key
        /\ orphans \subseteq Key /\ targets \in Target /\ TypeOK
    BY <1>1, AtLabel
  <1>3. req[r].v \in Versions /\ ThisKey(r) \in Key /\ ThisKey(r)[1] = req[r].p
    BY <1>1, <1>2 DEF OperandOK, Key
  <1>4. CASE UninstallFind(r)
    <2>1. Return(r) \/ Goto(r, "uMark")
      BY <1>4 DEF UninstallFind
    <2> QED
      BY <1>2, <1>3, <1>4, <2>1, JustReturns, JustGoes DEF UninstallFind
  <1>5. CASE UninstallMark(r)
    <2>1. CASE rows' = SetState(ThisKey(r), "uninstalling", "none") /\ Goto(r, "uStop")
      <3>1. /\ rows' \in [Key -> Row] /\ files' \subseteq Key /\ EnabledHasArtifact'
            /\ \A j \in Key : j[1] # req[r].p =>
                  rows'[j] = rows[j] /\ (j \in files => j \in files')
        BY <1>3, <1>5, <2>1, RowEffect DEF UninstallMark, States, Classes
      <3>2. rows'[ThisKey(r)].state # "enabled"
        BY <1>2, <1>3, <2>1, SetStateRows DEF States, Classes
      <3> QED
        BY <1>2, <1>3, <1>5, <2>1, <3>1, <3>2, GotoKeeps DEF UninstallMark
    <2>2. CASE rows' = rows /\ Return(r)
      BY <1>2, <1>5, <2>2, JustReturns DEF UninstallMark
    <2> QED
      BY <1>5, <2>1, <2>2 DEF UninstallMark, Update
  <1>6. CASE UninstallStop(r)
    <2>1. running' \subseteq Key
      BY <1>2, <1>6 DEF UninstallStop
    <2>2. CASE UNCHANGED rows /\ Goto(r, "uFiles")
      <3>1. rows[ThisKey(r)].state # "enabled"
        BY <1>2, <1>6 DEF UninstallStop, HoldsArtifact
      <3> QED
        BY <1>2, <1>3, <1>6, <2>1, <2>2, <3>1, JustGoes DEF UninstallStop
    <2>3. CASE Update(r, ThisKey(r), "installed", "other", Return(r), Return(r))
      BY <1>2, <1>3, <1>6, <2>1, <2>3, UpdateReturns DEF UninstallStop, States, Classes
    <2> QED
      BY <1>6, <2>2, <2>3 DEF UninstallStop
  <1>7. CASE UninstallFiles(r)
    <2>1. rows[ThisKey(r)].state # "enabled"
      BY <1>2, <1>7 DEF UninstallFiles, HoldsArtifact
    <2>2. CASE files' = files \ {ThisKey(r)} /\ Goto(r, "uDone") /\ UNCHANGED rows
      <3>1. EnabledHasArtifact
        BY DEF ArtifactInv
      <3>2. /\ rows' \in [Key -> Row] /\ files' \subseteq Key /\ EnabledHasArtifact'
            /\ \A j \in Key : j[1] # req[r].p =>
                  rows'[j] = rows[j] /\ (j \in files => j \in files')
        BY <1>2, <1>3, <2>1, <2>2, <3>1 DEF EnabledHasArtifact
      <3> QED
        BY <1>2, <1>3, <1>7, <2>1, <2>2, <3>2, GotoKeeps DEF UninstallFiles
    <2>3. CASE /\ Update(r, ThisKey(r), "installed", "fs_delete_failed", Return(r), Return(r))
               /\ UNCHANGED files
      BY <1>2, <1>3, <1>7, <2>3, UpdateReturns DEF UninstallFiles, States, Classes
    <2> QED
      BY <1>7, <2>2, <2>3 DEF UninstallFiles
  <1>8. CASE UninstallDone(r)
    BY <1>2, <1>3, <1>8, UpdateReturns DEF UninstallDone, States, Classes
  <1> QED
    BY <1>4, <1>5, <1>6, <1>7, <1>8

-----------------------------------------------------------------------------
(* The start of an operation, the supervisor, start-up and the rest.       *)

\* A new operation takes a lock nobody holds.
LEMMA BeginKeeps ==
  ASSUME ArtifactInv, NEW r \in Requests, NEW op \in Ops, NEW p \in Plugins,
         NEW v \in Versions \cup {NoVersion}, NEW pc \in {"iFind", "eFind", "dFind", "sFind", "uFind"},
         op = "switch" \/ pc \in {"iFind", "sFind", "uFind"} => v \in Versions,
         Begin(r, op, p, v, pc),
         boot' \in [phase : {"seed", "auto", "serving"}, todo : SUBSET Bundled,
                    crashes : 0..MaxCrashes]
  PROVE  ArtifactInv'
  <1> DEFINE new == [IdleRequest EXCEPT !.pc = pc, !.op = op, !.p = p, !.v = v]
  <1>1. TypeOK /\ LockDiscipline /\ OperandsOK /\ SupOperandOK /\ ArtifactHeld
        /\ EnabledHasArtifact
    BY DEF ArtifactInv
  <1>2. new \in Request /\ new.pc = pc /\ new.p = p /\ new.op = op /\ new.v = v
        /\ new.after = "none" /\ new.pc # "idle"
    <2>1. pc \in PCs /\ pc # "idle" /\ "none" \in Afters
      BY DEF PCs, InstallPC, EnablePC, DisablePC, SwitchPC, UninstallPC, Afters
    <2>2. IdleRequest \in Request /\ IdleRequest.after = "none"
      BY DEF Request, PCs, Ops, Afters, Target, IdleRequest, NoTargets
    <2>3. PICK idle : idle = IdleRequest
      OBVIOUS
    <2>4. /\ [idle EXCEPT !.pc = pc, !.op = op, !.p = p, !.v = v] \in Request
          /\ [idle EXCEPT !.pc = pc, !.op = op, !.p = p, !.v = v].pc = pc
          /\ [idle EXCEPT !.pc = pc, !.op = op, !.p = p, !.v = v].p = p
          /\ [idle EXCEPT !.pc = pc, !.op = op, !.p = p, !.v = v].op = op
          /\ [idle EXCEPT !.pc = pc, !.op = op, !.p = p, !.v = v].v = v
          /\ [idle EXCEPT !.pc = pc, !.op = op, !.p = p, !.v = v].after = "none"
      BY <2>1, <2>2, <2>3 DEF Request
    <2> QED
      BY <2>1, <2>3, <2>4
  <1>3. /\ req' = [req EXCEPT ![r] = new] /\ locks' = locks \cup {p} /\ p \notin locks
        /\ UNCHANGED <<rows, files, running, orphans, targets, sup>>
    BY DEF Begin, TryAcquire
  <1>4. /\ req' \in [Requests -> Request] /\ req'[r] = new
        /\ \A q \in Requests \ {r} : req'[q] = req[q]
    BY <1>1, <1>2, <1>3 DEF TypeOK
  <1>5. TypeOK' /\ SupOperandOK'
    BY <1>1, <1>3, <1>4 DEF TypeOK, SupOperandOK
  <1>6. LockDiscipline'
    BY <1>1, <1>2, <1>3, <1>4 DEF LockDiscipline, Begin
  <1>7. OperandsOK'
    <2>1. OperandOK(r)'
      BY <1>2, <1>4 DEF OperandOK, InstallPC, EnablePC, DisablePC, SwitchPC, UninstallPC
    <2>2. ASSUME NEW q \in Requests \ {r}, ~IsIdle(q)' PROVE OperandOK(q)'
      BY <1>1, <1>4, <2>2 DEF OperandsOK, OperandOK
    <2> QED
      BY <2>1, <2>2 DEF OperandsOK
  <1>8. ArtifactHeld'
    <2>1. HoldsArtifact(r)'
      BY <1>2, <1>4 DEF HoldsArtifact, RefreshPC
    <2>2. ASSUME NEW q \in Requests \ {r}, ~IsIdle(q)' PROVE HoldsArtifact(q)'
      BY <1>1, <1>3, <1>4, <2>2 DEF ArtifactHeld, HoldsArtifact
    <2> QED
      BY <2>1, <2>2 DEF ArtifactHeld
  <1>9. EnabledHasArtifact'
    BY <1>1, <1>3 DEF EnabledHasArtifact
  <1> QED
    BY <1>5, <1>6, <1>7, <1>8, <1>9 DEF ArtifactInv

\* The calls that begin an operation.
LEMMA CallSteps ==
  ASSUME ArtifactInv, NEW r \in Requests, Call(r)
  PROVE  ArtifactInv'
  <1>1. boot \in [phase : {"seed", "auto", "serving"}, todo : SUBSET Bundled,
                  crashes : 0..MaxCrashes]
    BY DEF ArtifactInv, TypeOK
  <1>2. ASSUME NEW k \in Key,
               InstallCall(r, k) \/ RestoreCall(r, k) \/ SwitchCall(r, k) \/ UninstallCall(r, k)
        PROVE  ArtifactInv'
    <2>1. k[1] \in Plugins /\ k[2] \in Versions
      BY DEF Key
    <2> QED
      BY <1>1, <1>2, <2>1, BeginKeeps
      DEF InstallCall, RestoreCall, SwitchCall, UninstallCall, Ops
  <1>3. ASSUME NEW p \in Plugins,
               DisableCall(r, p) \/ \E v \in Versions \cup {NoVersion} : EnableCall(r, p, v)
        PROVE  ArtifactInv'
    BY <1>1, <1>3, BeginKeeps DEF DisableCall, EnableCall, Ops
  <1> QED
    BY <1>2, <1>3 DEF Call

\* A step that leaves the requests, the locks and the files alone and enables
\* nothing.
LEMMA QuietKeeps ==
  ASSUME ArtifactInv, UNCHANGED <<files, req, locks>>,
         rows' \in [Key -> Row],
         \A k \in Key : rows'[k].state = "enabled" => rows[k].state = "enabled",
         running' \subseteq Key, orphans' \subseteq Key, targets' \in Target,
         sup' \in [pc : SupPC, todo : SUBSET Key, k : Key \cup {NoKey},
                   fails : [Key -> 0..MaxAttempts]],
         boot' \in [phase : {"seed", "auto", "serving"}, todo : SUBSET Bundled,
                    crashes : 0..MaxCrashes],
         SupOperandOK'
  PROVE  ArtifactInv'
  <1>1. TypeOK'
    BY DEF ArtifactInv, TypeOK
  <1>2. LockDiscipline' /\ OperandsOK'
    BY DEF ArtifactInv, LockDiscipline, OperandsOK, OperandOK
  <1>3. EnabledHasArtifact'
    BY DEF ArtifactInv, EnabledHasArtifact
  <1>4. ASSUME NEW r \in Requests, ~IsIdle(r)' PROVE HoldsArtifact(r)'
    <2>1. ~IsIdle(r) /\ HoldsArtifact(r) /\ OperandOK(r)
      BY <1>4 DEF ArtifactInv, ArtifactHeld, OperandsOK
    <2>2. CASE req[r].pc \in {"iFiles", "iCreate", "iValidate", "uStop", "uFiles", "uDone"}
      <3>1. ThisKey(r) \in Key
        BY <2>1, <2>2 DEF OperandOK, InstallPC, UninstallPC, Key
      <3> QED
        BY <2>1, <2>2, <3>1 DEF HoldsArtifact, RefreshPC
    <2> QED
      BY <2>1, <2>2 DEF HoldsArtifact
  <1> QED
    BY <1>1, <1>2, <1>3, <1>4 DEF ArtifactInv, ArtifactHeld

\* The supervisor never writes "enabled" and never touches files.
LEMMA SupervisorSteps ==
  ASSUME ArtifactInv, SupTick \/ SupStep
  PROVE  ArtifactInv'
  <1> DEFINE SupType == [pc : SupPC, todo : SUBSET Key, k : Key \cup {NoKey},
                         fails : [Key -> 0..MaxAttempts]]
  <1>1. /\ sup \in SupType /\ rows \in [Key -> Row] /\ running \subseteq Key
        /\ orphans \subseteq Key /\ targets \in Target /\ TypeOK /\ SupOperandOK
        /\ boot \in [phase : {"seed", "auto", "serving"}, todo : SUBSET Bundled,
                     crashes : 0..MaxCrashes]
    BY DEF ArtifactInv, TypeOK
  <1>2. SupDone \in SupType /\ SupDone.pc \in {"idle", "check"}
    BY <1>1, Zenon DEF SupDone, SupPC
  <1>3. ASSUME NEW st \in {"installed", "enable_failed"}, sup.k \in Key,
               rows' = SetState(sup.k, st, "other") \/ rows' = rows
        PROVE  /\ rows' \in [Key -> Row]
               /\ \A k \in Key : rows'[k].state = "enabled" => rows[k].state = "enabled"
    <2>1. st \in States /\ "other" \in Classes /\ st # "enabled"
      BY DEF States, Classes
    <2>2. /\ SetState(sup.k, st, "other") \in [Key -> Row]
          /\ SetState(sup.k, st, "other")[sup.k].state = st
          /\ \A j \in Key \ {sup.k} : SetState(sup.k, st, "other")[j] = rows[j]
      BY <1>1, <1>3, <2>1, SetStateRows
    <2> QED
      BY <1>1, <1>3, <2>1, <2>2
  <1>4. CASE SupTick
    <2>1. sup' \in SupType /\ sup'.pc = "check"
      BY <1>1, <1>4, Zenon DEF SupTick, SupPC, EnabledKeys
    <2>2. SupOperandOK'
      BY <2>1 DEF SupOperandOK
    <2> QED
      BY <1>1, <1>4, <2>1, <2>2, QuietKeeps DEF SupTick
  <1>5. ASSUME NEW k \in Key, SupHealthy(k)
        PROVE  ArtifactInv'
    <2>1. [sup.fails EXCEPT ![k] = 0] \in [Key -> 0..MaxAttempts]
      BY <1>1, MaxAttemptsAssumption
    <2>2. sup' \in SupType /\ sup'.pc \in {"idle", "check"}
      BY <1>1, <1>5, <2>1 DEF SupHealthy, SupPC
    <2>3. SupOperandOK'
      BY <2>2 DEF SupOperandOK
    <2> QED
      BY <1>1, <1>5, <2>2, <2>3, QuietKeeps DEF SupHealthy
  <1>6. ASSUME NEW k \in Key, SupUnhealthy(k)
        PROVE  ArtifactInv'
    <2>1. PICK n \in {sup.fails[k] + 1, 1} :
             LET count == IF n > MaxAttempts THEN MaxAttempts ELSE n IN
             sup' = [pc |-> IF count >= MaxAttempts THEN "disable" ELSE "backoff",
                     todo |-> sup.todo \ {k}, k |-> k,
                     fails |-> [sup.fails EXCEPT ![k] = count]]
      BY <1>6 DEF SupUnhealthy
    <2> DEFINE count == IF n > MaxAttempts THEN MaxAttempts ELSE n
    <2>2. count \in 0..MaxAttempts
      BY <1>1, MaxAttemptsAssumption
    <2>3. [sup.fails EXCEPT ![k] = count] \in [Key -> 0..MaxAttempts]
      BY <1>1, <2>2
    <2>4. sup' \in SupType /\ sup'.k = k
      BY <1>1, <2>1, <2>3 DEF SupPC
    <2>5. SupOperandOK'
      BY <2>4 DEF SupOperandOK
    <2> QED
      BY <1>1, <1>6, <2>4, <2>5, QuietKeeps DEF SupUnhealthy
  <1>7. CASE SupDisable
    <2>1. sup.k \in Key
      BY <1>1, <1>7 DEF SupDisable, SupOperandOK
    <2>2. /\ rows' = SetState(sup.k, "installed", "other") \/ rows' = rows
          /\ sup' = [sup EXCEPT !.pc = "stop"] \/ sup' = SupDone
      BY <1>7 DEF SupDisable, SupUpdate
    <2>3. sup' \in SupType /\ SupOperandOK'
      BY <1>1, <1>2, <2>1, <2>2 DEF SupPC, SupOperandOK
    <2> QED
      BY <1>1, <1>3, <1>7, <2>1, <2>2, <2>3, QuietKeeps DEF SupDisable
  <1>8. CASE SupStop
    <2>1. SupOperandOK'
      BY <1>2, <1>8 DEF SupStop, SupOperandOK
    <2>2. running' \subseteq Key
      BY <1>1, <1>8 DEF SupStop
    <2> QED
      BY <1>1, <1>2, <1>8, <2>1, <2>2, QuietKeeps DEF SupStop
  <1>9. CASE SupRestartStop
    <2>1. sup.k \in Key /\ running' \subseteq Key
      BY <1>1, <1>9 DEF SupRestartStop, SupOperandOK
    <2>2. sup' \in SupType /\ SupOperandOK'
      BY <1>1, <1>9, <2>1 DEF SupRestartStop, SupPC, SupOperandOK
    <2> QED
      BY <1>1, <1>9, <2>1, <2>2, QuietKeeps DEF SupRestartStop
  <1>10. CASE SupRestartStart
    <2>1. sup.k \in Key
      BY <1>1, <1>10 DEF SupRestartStart, SupOperandOK
    <2>2. running' \subseteq Key /\ orphans' \subseteq Key
      BY <1>1, <1>10, <2>1 DEF SupRestartStart
    <2>3. sup' \in SupType /\ SupOperandOK'
      BY <1>1, <1>2, <1>10, <2>1 DEF SupRestartStart, SupPC, SupOperandOK
    <2> QED
      BY <1>1, <1>10, <2>2, <2>3, QuietKeeps DEF SupRestartStart
  <1>11. CASE SupMark
    <2>1. sup.k \in Key
      BY <1>1, <1>11 DEF SupMark, SupOperandOK
    <2>2. /\ rows' = SetState(sup.k, "enable_failed", "other") \/ rows' = rows
          /\ sup' = SupDone
      BY <1>11 DEF SupMark, SupUpdate
    <2>3. SupOperandOK'
      BY <1>2, <2>2 DEF SupOperandOK
    <2> QED
      BY <1>1, <1>2, <1>3, <1>11, <2>1, <2>2, <2>3, QuietKeeps DEF SupMark
  <1> QED
    BY <1>4, <1>5, <1>6, <1>7, <1>8, <1>9, <1>10, <1>11 DEF SupStep

\* Start-up begins one request at a time and then removes the files of
\* versions that are not enabled.
LEMMA BootSteps ==
  ASSUME ArtifactInv, Boot
  PROVE  ArtifactInv'
  <1> DEFINE BootType == [phase : {"seed", "auto", "serving"}, todo : SUBSET Bundled,
                          crashes : 0..MaxCrashes]
  <1>1. /\ boot \in BootType /\ TypeOK /\ SupOperandOK /\ rows \in [Key -> Row]
        /\ sup' = sup /\ sup \in [pc : SupPC, todo : SUBSET Key, k : Key \cup {NoKey},
                                  fails : [Key -> 0..MaxAttempts]]
        /\ running \subseteq Key /\ orphans \subseteq Key /\ targets \in Target
        /\ files \subseteq Key
    BY Zenon DEF ArtifactInv, TypeOK, Boot, SeedNext, SeedDone, AutoEnableNext, Reconcile, Begin
  <1>2. SupOperandOK'
    BY <1>1 DEF SupOperandOK
  <1>3. ASSUME NEW r \in Requests, NEW k \in Key, SeedNext(r, k)
        PROVE  ArtifactInv'
    <2>1. boot' \in BootType
      BY <1>1, <1>3 DEF SeedNext
    <2>2. k[1] \in Plugins /\ k[2] \in Versions
      BY DEF Key
    <2>3. CASE ShouldSeed(k)
      BY <1>3, <2>1, <2>2, <2>3, BeginKeeps DEF SeedNext, Ops
    <2>4. CASE ~ShouldSeed(k)
      BY <1>1, <1>2, <1>3, <2>1, <2>4, QuietKeeps DEF SeedNext
    <2> QED
      BY <2>3, <2>4
  <1>4. ASSUME NEW r \in Requests, NEW k \in Key, AutoEnableNext(r, k)
        PROVE  ArtifactInv'
    <2>1. boot' \in BootType
      BY <1>1, <1>4 DEF AutoEnableNext
    <2>2. k[1] \in Plugins
      BY DEF Key
    <2>3. ASSUME NEW v \in Versions, Begin(r, "enable", k[1], v, "eFind")
          PROVE  ArtifactInv'
      BY <2>1, <2>2, <2>3, BeginKeeps DEF Ops
    <2>4. CASE UNCHANGED <<rows, files, running, orphans, targets, locks, req, sup>>
      BY <1>1, <1>2, <2>1, <2>4, QuietKeeps
    <2> QED
      BY <1>4, <2>3, <2>4 DEF AutoEnableNext, Latest, Installable
  <1>5. CASE SeedDone
    <2>1. boot' \in BootType
      BY <1>1, <1>5, Zenon DEF SeedDone, BundledPlugins
    <2> QED
      BY <1>1, <1>2, <1>5, <2>1, QuietKeeps DEF SeedDone
  <1>6. CASE Reconcile
    <2>1. boot' \in BootType /\ AllIdle /\ UNCHANGED <<orphans, locks, req, sup>>
      BY <1>1, <1>6 DEF Reconcile
    <2>2. CASE UNCHANGED <<rows, files, running, targets>>
      BY <1>1, <1>2, <2>1, <2>2, QuietKeeps
    <2>3. ASSUME NEW S \in SUBSET PendingCleanup,
                 running' = running \cap EnabledKeys, files' = files \ S,
                 rows' = [k \in Key |->
                      IF k \in S THEN [state |-> "uninstalled", class |-> "none"]
                                 ELSE rows[k]],
                 targets' = ListEnabled
          PROVE  ArtifactInv'
      <3>1. rows' \in [Key -> Row]
        BY <1>1, <2>3 DEF Row, States, Classes
      <3>2. \A k \in Key : rows'[k].state = "enabled" => k \notin S /\ rows[k].state = "enabled"
        BY <2>3
      <3>3. targets' \in Target
        BY <2>3 DEF ListEnabled, FindEnabled, EnabledVersions, Target
      <3>4. TypeOK'
        BY <1>1, <2>1, <2>3, <3>1, <3>3 DEF TypeOK
      <3>5. EnabledHasArtifact'
        BY <2>3, <3>2 DEF ArtifactInv, EnabledHasArtifact
      <3>6. LockDiscipline' /\ OperandsOK' /\ ArtifactHeld'
        BY <2>1 DEF AllIdle, ArtifactInv, LockDiscipline, OperandsOK, ArtifactHeld
      <3> QED
        BY <1>2, <3>4, <3>5, <3>6 DEF ArtifactInv
    <2> QED
      BY <1>6, <2>2, <2>3 DEF Reconcile
  <1> QED
    BY <1>3, <1>4, <1>5, <1>6 DEF Boot

\* A cancelled request is only no longer live.
LEMMA CancelKeeps ==
  ASSUME ArtifactInv, NEW r \in Requests, Cancel(r)
  PROVE  ArtifactInv'
  <1>1. TypeOK /\ req \in [Requests -> Request]
    BY DEF ArtifactInv, TypeOK
  <1>2. /\ req' = [req EXCEPT ![r].live = FALSE]
        /\ UNCHANGED <<rows, files, running, orphans, targets, locks, sup, boot>>
    BY DEF Cancel
  <1>3. req' \in [Requests -> Request]
    <2>1. PICK rec : rec = [req[r] EXCEPT !.live = FALSE]
      OBVIOUS
    <2>2. rec \in Request
      BY <1>1, <2>1 DEF Request
    <2>3. req' = [req EXCEPT ![r] = rec]
      BY <1>2, <2>1
    <2> QED
      BY <1>1, <2>2, <2>3
  <1>4. \A q \in Requests : /\ req'[q].pc = req[q].pc /\ req'[q].p = req[q].p
                            /\ req'[q].v = req[q].v /\ req'[q].cur = req[q].cur
                            /\ req'[q].op = req[q].op /\ req'[q].after = req[q].after
    <2> SUFFICES ASSUME NEW q \in Requests
                 PROVE  /\ req'[q].pc = req[q].pc /\ req'[q].p = req[q].p
                        /\ req'[q].v = req[q].v /\ req'[q].cur = req[q].cur
                        /\ req'[q].op = req[q].op /\ req'[q].after = req[q].after
      OBVIOUS
    <2>1. req'[q] = req[q] \/ req'[q] = [req[q] EXCEPT !.live = FALSE]
      BY <1>1, <1>2
    <2>2. req[q] \in Request
      BY <1>1
    <2> QED
      BY <2>1, <2>2 DEF Request
  <1>5. TypeOK'
    BY <1>1, <1>2, <1>3 DEF TypeOK
  <1>6. LockDiscipline'
    BY <1>2, <1>4 DEF ArtifactInv, LockDiscipline
  <1>7. OperandsOK'
    BY <1>4 DEF ArtifactInv, OperandsOK, OperandOK
  <1>8. EnabledHasArtifact' /\ SupOperandOK'
    BY <1>2 DEF ArtifactInv, EnabledHasArtifact, SupOperandOK
  <1>9. ArtifactHeld'
    BY <1>2, <1>4 DEF ArtifactInv, ArtifactHeld, HoldsArtifact
  <1> QED
    BY <1>5, <1>6, <1>7, <1>8, <1>9 DEF ArtifactInv

\* A purge removes a row that is not enabled.
LEMMA PurgeKeeps ==
  ASSUME ArtifactInv, NEW k \in Key, Purge(k)
  PROVE  ArtifactInv'
  <1>1. TypeOK /\ rows \in [Key -> Row] /\ SupOperandOK
    BY DEF ArtifactInv, TypeOK
  <1>2. /\ rows' \in [Key -> Row]
        /\ \A j \in Key : rows'[j].state = "enabled" => rows[j].state = "enabled"
    BY <1>1 DEF Purge, NoRow, Row, States, Classes
  <1>3. SupOperandOK'
    BY <1>1 DEF Purge, SupOperandOK
  <1> QED
    BY <1>1, <1>2, <1>3, QuietKeeps DEF Purge, TypeOK

\* After a crash no request is in flight; rows and files are what they were.
LEMMA CrashKeeps ==
  ASSUME ArtifactInv, Crash
  PROVE  ArtifactInv'
  <1>1. IdleRequest \in Request /\ NoTargets \in Target
    BY DEF Request, PCs, Ops, Afters, Target, IdleRequest, NoTargets, NoVersion
  <1>2. req' \in [Requests -> Request] /\ \A r \in Requests : req'[r].pc = "idle"
    BY <1>1 DEF Crash, IdleRequest
  <1>3. sup' \in [pc : SupPC, todo : SUBSET Key, k : Key \cup {NoKey},
                  fails : [Key -> 0..MaxAttempts]]
    <2>1. 0 \in 0..MaxAttempts
      BY MaxAttemptsAssumption
    <2>2. [k \in Key |-> 0] \in [Key -> 0..MaxAttempts]
      BY <2>1
    <2> QED
      BY <2>2 DEF Crash, IdleSup, SupPC
  <1>4. boot' \in [phase : {"seed", "auto", "serving"}, todo : SUBSET Bundled,
                   crashes : 0..MaxCrashes]
    <2>1. boot.crashes + 1 \in 0..MaxCrashes
      BY MaxCrashesAssumption DEF Crash, ArtifactInv, TypeOK
    <2> QED
      BY <2>1 DEF Crash
  <1>5. TypeOK'
    BY <1>1, <1>2, <1>3, <1>4 DEF ArtifactInv, TypeOK, Crash
  <1>6. LockDiscipline' /\ OperandsOK' /\ ArtifactHeld'
    BY <1>2 DEF LockDiscipline, OperandsOK, ArtifactHeld, Crash
  <1>7. EnabledHasArtifact' /\ SupOperandOK'
    BY DEF ArtifactInv, EnabledHasArtifact, SupOperandOK, Crash, IdleSup
  <1> QED
    BY <1>5, <1>6, <1>7 DEF ArtifactInv

\* The invariant is inductive.
LEMMA NextInv == ArtifactInv /\ [Next]_vars => ArtifactInv'
  <1> SUFFICES ASSUME ArtifactInv, [Next]_vars PROVE ArtifactInv'
    OBVIOUS
  <1>1. ASSUME NEW r \in Requests, Step(r) PROVE ArtifactInv'
    BY <1>1, EnableSteps, RefreshSteps, InstallSteps, DisableSteps, SwitchSteps,
       UninstallSteps DEF Step
  <1>2. CASE UNCHANGED vars
    BY <1>2 DEF vars, ArtifactInv, TypeOK, LockDiscipline, OperandsOK, OperandOK,
       SupOperandOK, EnabledHasArtifact, ArtifactHeld, HoldsArtifact
  <1> QED
    BY <1>1, <1>2, CallSteps, CancelKeeps, PurgeKeeps, SupervisorSteps, BootSteps,
       CrashKeeps DEF Next

\* No reachable state, for whatever plugins, versions, requests and faults,
\* leaves the types of the code.
THEOREM TypeCorrect == Spec => []TypeOK
  <1>1. ArtifactInv => TypeOK
    BY DEF ArtifactInv
  <1> QED
    BY <1>1, InitInv, NextInv, PTL DEF Spec

\* OpLock serialises the operations on a plugin and is always released.
THEOREM LocksCorrect == Spec => []LockDiscipline
  <1>1. ArtifactInv => LockDiscipline
    BY DEF ArtifactInv
  <1> QED
    BY <1>1, InitInv, NextInv, PTL DEF Spec

\* An enabled version always has its artifact directory, although the
\* supervisor and Purge write rows without the lock, statements fail at any
\* point and the process may end between any two steps.
THEOREM EnabledVersionHasFiles == Spec => []EnabledHasArtifact
  <1>1. ArtifactInv => EnabledHasArtifact
    BY DEF ArtifactInv
  <1> QED
    BY <1>1, InitInv, NextInv, PTL DEF Spec

-----------------------------------------------------------------------------
(* One enabled version. Rows change by statements the index guards, or     *)
(* towards states other than "enabled".                                    *)

\* A statement the index lets through keeps the enabled version unique.
LEMMA UniqueStatement ==
  ASSUME TypeOK, OneEnabled, NEW k \in Key, NEW st \in States, NEW cl \in Classes,
         rows' = rows \/ (rows' = SetState(k, st, cl) /\ UniqueEnabled(k, st))
  PROVE  OneEnabled'
  <1>1. CASE rows' = rows
    BY <1>1 DEF OneEnabled, EnabledVersions
  <1>2. CASE rows' = SetState(k, st, cl) /\ UniqueEnabled(k, st)
    <2>1. /\ rows'[k].state = st
          /\ \A j \in Key \ {k} : rows'[j] = rows[j]
      BY <1>2, SetStateRows
    <2>2. k = <<k[1], k[2]>>
      BY DEF Key
    <2>3. SUFFICES ASSUME NEW p \in Plugins, NEW v \in Versions, NEW w \in Versions,
                          rows'[<<p, v>>].state = "enabled",
                          rows'[<<p, w>>].state = "enabled"
                   PROVE  v = w
      BY DEF OneEnabled, EnabledVersions
    <2>4. <<p, v>> \in Key /\ <<p, w>> \in Key
      BY DEF Key
    <2>5. CASE k # <<p, v>> /\ k # <<p, w>>
      BY <2>1, <2>3, <2>4, <2>5 DEF OneEnabled, EnabledVersions
    <2>6. CASE k = <<p, v>>
      BY <1>2, <2>1, <2>3, <2>4, <2>6 DEF UniqueEnabled, EnabledVersions
    <2>7. CASE k = <<p, w>>
      BY <1>2, <2>1, <2>3, <2>4, <2>7 DEF UniqueEnabled, EnabledVersions
    <2> QED
      BY <2>5, <2>6, <2>7
  <1> QED
    BY <1>1, <1>2

\* A step that enables nothing keeps it unique.
LEMMA NothingEnabled ==
  ASSUME OneEnabled,
         \A k \in Key : rows'[k].state = "enabled" => rows[k].state = "enabled"
  PROVE  OneEnabled'
  BY DEF OneEnabled, EnabledVersions, Key

\* Every statement of a request in flight.
LEMMA UniqueStep ==
  ASSUME ArtifactInv, OneEnabled, NEW r \in Requests, Step(r)
  PROVE  OneEnabled'
  <1> USE DEF Update, CanSetState
  <1>1. TypeOK /\ (req[r].pc # "idle" => OperandOK(r))
    BY DEF ArtifactInv, OperandsOK
  <1>2. ASSUME NEW st \in States, NEW cl \in Classes, OperandOK(r), req[r].v \in Versions,
               rows' = rows \/ (rows' = SetState(ThisKey(r), st, cl)
                                  /\ UniqueEnabled(ThisKey(r), st))
        PROVE  OneEnabled'
    <2>1. ThisKey(r) \in Key
      BY <1>2 DEF OperandOK, Key
    <2> QED
      BY <1>1, <1>2, <2>1, UniqueStatement
  <1>3. ASSUME NEW st \in States, NEW cl \in Classes, OperandOK(r), req[r].cur \in Versions,
               rows' = rows \/ (rows' = SetState(CurKey(r), st, cl)
                                  /\ UniqueEnabled(CurKey(r), st))
        PROVE  OneEnabled'
    <2>1. CurKey(r) \in Key
      BY <1>3 DEF OperandOK, Key
    <2> QED
      BY <1>1, <1>3, <2>1, UniqueStatement
  <1> HIDE DEF ThisKey, CurKey
  <1>4. CASE InstallCreate(r) \/ InstallValidate(r)
    <2>1. OperandOK(r) /\ req[r].v \in Versions
      BY <1>1, <1>4 DEF InstallCreate, InstallValidate, OperandOK, InstallPC
    <2>2. CASE InstallCreate(r)
      <3>1. rows' = rows \/ (rows' = SetState(ThisKey(r), "installing", "none")
                               /\ UniqueEnabled(ThisKey(r), "installing"))
        BY <2>2 DEF InstallCreate, UniqueEnabled
      <3> QED
        BY <1>2, <2>1, <3>1 DEF States, Classes
    <2>3. CASE InstallValidate(r)
      <3>1. \E st \in {"installed", "install_failed"}, cl \in {"none", "other"} :
               rows' = rows \/ (rows' = SetState(ThisKey(r), st, cl)
                                  /\ UniqueEnabled(ThisKey(r), st))
        BY <2>3 DEF InstallValidate
      <3> QED
        BY <1>2, <2>1, <3>1 DEF States, Classes
    <2> QED
      BY <1>4, <2>2, <2>3
  <1>5. CASE EnableMark(r) \/ EnableStartFails(r) \/ EnableCommit(r) \/ EnableUndoMark(r)
    <2>1. OperandOK(r) /\ req[r].v \in Versions
      BY <1>1, <1>5 DEF EnableMark, EnableStartFails, EnableCommit, EnableUndoMark,
         OperandOK, EnablePC
    <2>2. \E st \in {"enabling", "enable_failed", "enabled"},
             cl \in {"none", "other", "compensation_failed"} :
             rows' = rows \/ (rows' = SetState(ThisKey(r), st, cl)
                                /\ UniqueEnabled(ThisKey(r), st))
      BY <1>5 DEF EnableMark, EnableStartFails, EnableCommit, EnableUndoMark
    <2> QED
      BY <1>2, <2>1, <2>2 DEF States, Classes
  <1>6. CASE DisableMark(r) \/ DisableUndo(r) \/ DisableDone(r) \/ DisableWarn(r)
    <2>1. OperandOK(r) /\ req[r].cur \in Versions
      BY <1>1, <1>6 DEF DisableMark, DisableUndo, DisableDone, DisableWarn,
         OperandOK, DisablePC
    <2>2. \E st \in {"disabling", "installed", "enabled"},
             cl \in {"none", "other", "compensation_failed"} :
             rows' = rows \/ (rows' = SetState(CurKey(r), st, cl)
                                /\ UniqueEnabled(CurKey(r), st))
      BY <1>6 DEF DisableMark, DisableUndo, DisableDone, DisableWarn
    <2> QED
      BY <1>3, <2>1, <2>2 DEF States, Classes
  <1>7. CASE SwitchMigrate(r)
    <2>1. OperandOK(r) /\ req[r].v \in Versions
      BY <1>1, <1>7 DEF SwitchMigrate, OperandOK, SwitchPC
    <2>2. rows' = rows \/ (rows' = SetState(ThisKey(r), "installed", "other")
                             /\ UniqueEnabled(ThisKey(r), "installed"))
      BY <1>7 DEF SwitchMigrate
    <2> QED
      BY <1>2, <2>1, <2>2 DEF States, Classes
  <1>8. CASE UninstallMark(r) \/ UninstallStop(r) \/ UninstallFiles(r) \/ UninstallDone(r)
    <2>1. OperandOK(r) /\ req[r].v \in Versions
      BY <1>1, <1>8 DEF UninstallMark, UninstallStop, UninstallFiles, UninstallDone,
         OperandOK, UninstallPC
    <2>2. \E st \in {"uninstalling", "installed", "uninstalled"},
             cl \in {"none", "other", "fs_delete_failed"} :
             rows' = rows \/ (rows' = SetState(ThisKey(r), st, cl)
                                /\ UniqueEnabled(ThisKey(r), st))
      BY <1>8 DEF UninstallMark, UninstallStop, UninstallFiles, UninstallDone
    <2> QED
      BY <1>2, <2>1, <2>2 DEF States, Classes
  <1>9. CASE rows' = rows
    BY <1>9, NothingEnabled
  <1> QED
    BY <1>4, <1>5, <1>6, <1>7, <1>8, <1>9
    DEF Step, InstallFind, InstallFiles, EnableFind, EnableStartOK, EnableUndoStop,
        DisableFind, DisableHooks, DisableStop, SwitchFind, UninstallFind,
        RefreshRead, RefreshApply

\* Every step: what is not a statement of a request enables nothing.
LEMMA UniqueNext ==
  ASSUME ArtifactInv, OneEnabled, [Next]_vars
  PROVE  OneEnabled'
  <1>1. TypeOK /\ rows \in [Key -> Row]
    BY DEF ArtifactInv, TypeOK
  <1>2. ASSUME NEW r \in Requests, Call(r) \/ Cancel(r) PROVE OneEnabled'
    <2>1. rows' = rows
      BY <1>2, Zenon DEF Call, Cancel, Begin, InstallCall, RestoreCall, SwitchCall,
         UninstallCall, EnableCall, DisableCall
    <2> QED
      BY <2>1, NothingEnabled
  <1>3. ASSUME NEW k \in Key, Purge(k) PROVE OneEnabled'
    BY <1>1, <1>3, NothingEnabled DEF Purge, NoRow
  <1>4. CASE SupTick \/ SupStep
    <2>1. CASE SupDisable \/ SupMark
      <3>1. sup.k \in Key
        BY <2>1 DEF ArtifactInv, SupOperandOK, SupDisable, SupMark
      <3>2. \E st \in {"installed", "enable_failed"} :
               rows' = rows \/ (rows' = SetState(sup.k, st, "other")
                                  /\ UniqueEnabled(sup.k, st))
        BY <2>1 DEF SupDisable, SupMark, SupUpdate, CanSetState
      <3> QED
        BY <1>1, <3>1, <3>2, UniqueStatement DEF States, Classes
    <2>2. CASE rows' = rows
      BY <2>2, NothingEnabled
    <2> QED
      BY <1>4, <2>1, <2>2 DEF SupTick, SupStep, SupHealthy, SupUnhealthy, SupStop,
         SupRestartStop, SupRestartStart
  <1>5. CASE Boot
    <2>1. CASE Reconcile
      <3>1. \A k \in Key : rows'[k].state = "enabled" => rows[k].state = "enabled"
        BY <1>1, <2>1 DEF Reconcile
      <3> QED
        BY <3>1, NothingEnabled
    <2>2. CASE rows' = rows
      BY <2>2, NothingEnabled
    <2> QED
      BY <1>5, <2>1, <2>2, Zenon DEF Boot, SeedNext, SeedDone, AutoEnableNext, Begin
  <1>6. CASE Crash \/ UNCHANGED vars
    BY <1>6, NothingEnabled DEF Crash, vars
  <1> QED
    BY <1>2, <1>3, <1>4, <1>5, <1>6, UniqueStep DEF Next

\* The partial unique index and the guarded statements keep at most one
\* version of every plugin enabled, with the supervisor writing rows without
\* the lock.
THEOREM AtMostOneEnabled == Spec => []OneEnabled
  <1>1. Init => ArtifactInv /\ OneEnabled
    <2>1. Init => OneEnabled
      BY DEF Init, OneEnabled, EnabledVersions, NoRow, Key
    <2> QED
      BY <2>1, InitInv
  <1>2. ArtifactInv /\ OneEnabled /\ [Next]_vars => (ArtifactInv /\ OneEnabled)'
    BY NextInv, UniqueNext
  <1> QED
    BY <1>1, <1>2, PTL DEF Spec

-----------------------------------------------------------------------------
(* The life cycle. Without the supervisor's ticks the rows implement the   *)
(* abstract registry: each statement finds its row in the state that its   *)
(* operation read or wrote before, because the operation holds the lock.   *)

\* What the row says that an operation has read or written under its lock,
\* until it writes the row again: only the supervisor ignores the lock.
Tie(pc, after, this, cur) ==
    LET refreshing(why) == pc \in RefreshPC /\ after = why
    IN  /\ pc = "iValidate" => this = "installing"
        /\ pc \in {"sMigrate", "eMark"} => this \in {"installed", "enable_failed"}
        /\ pc \in {"eStart", "eCommit"} => this = "enabling"
        /\ refreshing("enabled") \/ pc \in {"eUndoStop", "eUndoMark", "eUndoComp"} => this = "enabled"
        /\ pc = "uMark" => StableUninstallState(this)
        /\ pc \in {"uStop", "uFiles", "uDone"} => this = "uninstalling"
        /\ pc = "dMark" => cur = "enabled"
        /\ pc \in {"dHooks", "dStop", "dUndo", "dDone"} => cur = "disabling"
        /\ refreshing("undoDisable") \/ pc = "dComp" => cur \in {"disabling", "enabled"}
        /\ refreshing("disabled") \/ pc = "dWarn" => cur = "installed"

RowTied(r) == Tie(req[r].pc, req[r].after, rows[ThisKey(r)].state, rows[CurKey(r)].state)

RowsTied == \A r \in Requests : ~IsIdle(r) => RowTied(r)

RegistryInv == ArtifactInv /\ RowsTied /\ sup.pc = "idle"

\* One step of the abstract registry, or none.
RegistryStep == Registry!Next \/ UNCHANGED RegistryState

\* A statement that moves a row from one state to another.
LEMMA RegistryMove ==
  ASSUME TypeOK, NEW k \in Key, NEW st \in States, NEW cl \in Classes,
         rows' = SetState(k, st, cl)
  PROVE  /\ RegistryState' = [RegistryState EXCEPT ![k] = st]
         /\ RegistryState[k] = rows[k].state
         /\ rows[k].state = st => RegistryState' = RegistryState
         /\ \A from : rows[k].state \in from => Registry!Move(k, from, st)
  <1>1. /\ rows' \in [Key -> Row] /\ rows'[k].state = st
        /\ \A j \in Key \ {k} : rows'[j] = rows[j]
    BY SetStateRows
  <1>2. \A j \in Key : RegistryState'[j] = IF j = k THEN st ELSE RegistryState[j]
    BY <1>1 DEF RegistryState
  <1>3. /\ RegistryState = [j \in Key |-> RegistryState[j]]
        /\ RegistryState' = [j \in Key |-> RegistryState'[j]]
    BY DEF RegistryState
  <1>4. RegistryState[k] = rows[k].state
    BY DEF RegistryState
  <1>5. RegistryState' = [RegistryState EXCEPT ![k] = st]
    BY <1>2, <1>3
  <1>6. rows[k].state = st => RegistryState' = RegistryState
    BY <1>2, <1>3, <1>4
  <1>7. \A from : rows[k].state \in from => Registry!Move(k, from, st)
    BY <1>4, <1>5 DEF Registry!Move
  <1> QED
    BY <1>4, <1>5, <1>6, <1>7

\* Rows that do not change make no step.
LEMMA RegistryStutters ==
  ASSUME rows' = rows
  PROVE  RegistryStep
  BY DEF RegistryStep, RegistryState

\* The index refuses a second enabled version.
LEMMA OnlyOne ==
  ASSUME NEW k \in Key, UniqueEnabled(k, "enabled")
  PROVE  ~Registry!OtherEnabled(k)
  BY Zenon DEF UniqueEnabled, EnabledVersions, Registry!OtherEnabled, RegistryState, Key

\* What a step of a request leaves to the others.
LEMMA StepLocal ==
  ASSUME TypeOK, NEW r \in Requests, Step(r)
  PROVE  /\ req[r].pc # "idle" /\ UNCHANGED sup
         /\ \A q \in Requests \ {r} : req'[q] = req[q]
         /\ \A k \in Key : k[1] # req[r].p => rows'[k] = rows[k]
  <1>1. /\ req \in [Requests -> Request] /\ rows \in [Key -> Row]
        /\ \A k \in Key : \A st, cl, v : k[1] # req[r].p => SetState(<<req[r].p, v>>, st, cl)[k] = rows[k]
    BY DEF TypeOK, SetState
  <1>2. ASSUME Return(r) \/ (\E pc : Goto(r, pc)) \/ (\E after : Refresh(r, after))
        PROVE  \A q \in Requests \ {r} : req'[q] = req[q]
    BY <1>1, <1>2 DEF Return, Goto, Refresh
  <1>3. ASSUME \/ rows' = rows
               \/ \E st, cl : rows' = SetState(ThisKey(r), st, cl) \/ rows' = SetState(CurKey(r), st, cl)
        PROVE  \A k \in Key : k[1] # req[r].p => rows'[k] = rows[k]
    BY <1>1, <1>3
  <1> HIDE DEF ThisKey, CurKey
  <1>4. CASE InstallFind(r) \/ InstallFiles(r) \/ InstallCreate(r) \/ InstallValidate(r)
    BY <1>2, <1>3, <1>4 DEF InstallFind, InstallFiles, InstallCreate, InstallValidate, Update
  <1>5. CASE EnableMark(r) \/ EnableStartOK(r) \/ EnableStartFails(r) \/ EnableCommit(r)
    BY <1>2, <1>3, <1>5 DEF EnableMark, EnableStartOK, EnableStartFails, EnableCommit, Update
  <1>6. CASE EnableUndoStop(r) \/ EnableUndoMark(r)
    BY <1>2, <1>3, <1>6 DEF EnableUndoStop, EnableUndoMark, Update
  <1>7. CASE DisableMark(r) \/ DisableHooks(r) \/ DisableStop(r)
    BY <1>2, <1>3, <1>7 DEF DisableMark, DisableHooks, DisableStop, Update
  <1>8. CASE DisableUndo(r) \/ DisableDone(r) \/ DisableWarn(r)
    BY <1>2, <1>3, <1>8 DEF DisableUndo, DisableDone, DisableWarn, Update
  <1>9. CASE SwitchFind(r) \/ SwitchMigrate(r)
    BY <1>2, <1>3, <1>9 DEF SwitchFind, SwitchMigrate, Update
  <1>10. CASE \/ UninstallFind(r) \/ UninstallMark(r) \/ UninstallStop(r)
              \/ UninstallFiles(r) \/ UninstallDone(r)
    BY <1>2, <1>3, <1>10 DEF UninstallFind, UninstallMark, UninstallStop, UninstallFiles,
       UninstallDone, Update
  <1>11. CASE EnableFind(r) \/ DisableFind(r)
    BY <1>1, <1>2, <1>3, <1>11 DEF EnableFind, DisableFind
  <1>12. CASE RefreshRead(r) \/ RefreshApply(r)
    BY <1>1, <1>2, <1>3, <1>12 DEF RefreshRead, RefreshApply, AfterRefresh
  <1> QED
    BY <1>4, <1>5, <1>6, <1>7, <1>8, <1>9, <1>10, <1>11, <1>12 DEF Step

\* The other operations hold other locks: what is tied stays tied.
LEMMA TiedLocally ==
  ASSUME ArtifactInv, RowsTied, NEW r \in Requests, Step(r), IsIdle(r)' \/ RowTied(r)'
  PROVE  RowsTied'
  <1>1. /\ req[r].pc # "idle" /\ \A q \in Requests \ {r} : req'[q] = req[q]
        /\ \A k \in Key : k[1] # req[r].p => rows'[k] = rows[k]
    BY StepLocal DEF ArtifactInv
  <1>2. ASSUME NEW q \in Requests \ {r}, ~IsIdle(q)' PROVE RowTied(q)'
    <2>1. req'[q] = req[q] /\ req[q].pc # "idle" /\ req[q].p # req[r].p
      BY <1>1, <1>2 DEF ArtifactInv, LockDiscipline
    <2>2. OperandOK(q) /\ Tie(req[q].pc, req[q].after, rows[ThisKey(q)].state, rows[CurKey(q)].state)
      BY <2>1 DEF ArtifactInv, OperandsOK, RowsTied, RowTied
    <2>3. /\ req[q].v \in Versions => rows'[<<req[q].p, req[q].v>>] = rows[<<req[q].p, req[q].v>>]
          /\ req[q].cur \in Versions => rows'[<<req[q].p, req[q].cur>>] = rows[<<req[q].p, req[q].cur>>]
      <3>1. \A v \in Versions : <<req[q].p, v>> \in Key /\ <<req[q].p, v>>[1] # req[r].p
        BY <2>1, <2>2 DEF OperandOK, Key
      <3> QED
        BY <1>1, <3>1
    <2> QED
      BY <2>1, <2>2, <2>3 DEF RowTied, Tie, OperandOK, InstallPC, EnablePC, SwitchPC, UninstallPC,
         DisablePC, RefreshPC
  <1> QED
    BY <1>2 DEF RowsTied

\* The ways on of an operation.
LEMMA TiedReturn ==
  ASSUME TypeOK, NEW r \in Requests, Return(r)
  PROVE  IsIdle(r)'
  BY DEF TypeOK, Return, IdleRequest

LEMMA TiedGoto ==
  ASSUME TypeOK, NEW r \in Requests, NEW pc \in PCs, Goto(r, pc),
         Tie(pc, req[r].after, rows'[ThisKey(r)].state, rows'[CurKey(r)].state)
  PROVE  RowTied(r)'
  <1>1. PICK rec \in Request :
            /\ req' = [req EXCEPT ![r] = rec] /\ req'[r] = rec
            /\ rec.pc = pc /\ rec.p = req[r].p /\ rec.v = req[r].v
            /\ rec.cur = req[r].cur /\ rec.op = req[r].op /\ rec.after = req[r].after
    BY GotoRec
  <1> QED
    BY <1>1 DEF RowTied

LEMMA TiedRefresh ==
  ASSUME TypeOK, NEW r \in Requests, NEW after \in Afters, Refresh(r, after),
         Tie("rRead", after, rows'[ThisKey(r)].state, rows'[CurKey(r)].state)
  PROVE  RowTied(r)'
  <1>1. PICK rec \in Request :
            /\ req' = [req EXCEPT ![r] = rec] /\ req'[r] = rec
            /\ rec.pc = "rRead" /\ rec.p = req[r].p /\ rec.v = req[r].v
            /\ rec.cur = req[r].cur /\ rec.op = req[r].op /\ rec.after = after
    BY RefreshRec
  <1> QED
    BY <1>1 DEF RowTied

\* The states a statement of an operation finds and leaves.
Legal(from, to) ==
    \/ from = to
    \/ from \in {"absent", "install_failed", "uninstalled"} /\ to = "installing"
    \/ from = "installing" /\ to \in {"installed", "install_failed"}
    \/ from \in {"installed", "enable_failed"} /\ to = "enabling"
    \/ from = "enabling" /\ to \in {"enabled", "enable_failed"}
    \/ from = "enabled" /\ to \in {"enable_failed", "disabling"}
    \/ from = "disabling" /\ to \in {"installed", "enabled"}
    \/ from = "enable_failed" /\ to = "installed"
    \/ from \in {"installed", "install_failed", "enable_failed"} /\ to = "uninstalling"
    \/ from = "uninstalling" /\ to \in {"uninstalled", "installed"}

\* A legal statement that the index lets through is a step of the registry.
LEMMA LegalStep ==
  ASSUME TypeOK, NEW k \in Key, NEW st \in States, NEW cl \in Classes,
         rows' = SetState(k, st, cl), UniqueEnabled(k, st), Legal(rows[k].state, st)
  PROVE  RegistryStep /\ rows'[k].state = st
  <1>1. /\ rows[k].state = st => RegistryState' = RegistryState
        /\ \A from : rows[k].state \in from => Registry!Move(k, from, st)
    BY RegistryMove
  <1>2. st = "enabled" => ~Registry!OtherEnabled(k)
    BY OnlyOne
  <1>3. ASSUME rows[k].state # st
        PROVE  \/ Registry!StartInstall(k) \/ Registry!EndInstall(k) \/ Registry!StartEnable(k)
               \/ Registry!EndEnable(k) \/ Registry!UndoEnable(k) \/ Registry!StartDisable(k)
               \/ Registry!EndDisable(k) \/ Registry!RejectSwitch(k) \/ Registry!StartUninstall(k)
               \/ Registry!EndUninstall(k)
    <2>1. CASE st \in {"installing", "installed"}
      BY <1>1, <1>3, <2>1 DEF Legal, Registry!StartInstall, Registry!EndInstall, Registry!EndDisable,
         Registry!RejectSwitch, Registry!EndUninstall
    <2>2. CASE st \in {"install_failed", "enabling", "enable_failed"}
      BY <1>1, <1>3, <2>2 DEF Legal, Registry!EndInstall, Registry!StartEnable, Registry!EndEnable,
         Registry!UndoEnable
    <2>3. CASE st \in {"enabled", "disabling", "uninstalling", "uninstalled"}
      BY <1>1, <1>2, <1>3, <2>3 DEF Legal, Registry!EndEnable, Registry!EndDisable, Registry!StartDisable,
         Registry!StartUninstall, Registry!EndUninstall
    <2> QED
      BY <1>3, <2>1, <2>2, <2>3 DEF Legal
  <1>4. rows[k].state # st => Registry!Next
    BY <1>3, Zenon DEF Registry!Next, Registry!Key, Key
  <1>5. rows'[k].state = st
    BY SetStateRows
  <1> QED
    BY <1>1, <1>4, <1>5 DEF RegistryStep

\* A legal statement at the end of an operation.
LEMMA LegalReturn ==
  ASSUME TypeOK, NEW r \in Requests, NEW k \in Key, NEW st \in States, NEW cl \in Classes,
         Update(r, k, st, cl, Return(r), Return(r)), Legal(rows[k].state, st)
  PROVE  RegistryStep /\ IsIdle(r)'
  <1>1. Return(r) /\ (rows' = rows \/ (rows' = SetState(k, st, cl) /\ UniqueEnabled(k, st)))
    BY DEF Update, CanSetState
  <1> QED
    BY <1>1, LegalStep, RegistryStutters, TiedReturn

\* What the invariant says of an operation at a label of its own.
LEMMA TiedLabel ==
  ASSUME RegistryInv, NEW r \in Requests, req[r].pc # "idle"
  PROVE  /\ TypeOK /\ req[r] \in Request /\ OperandOK(r)
         /\ Tie(req[r].pc, req[r].after, rows[ThisKey(r)].state, rows[CurKey(r)].state)
         /\ req[r].v \in Versions => ThisKey(r) \in Key /\ rows[ThisKey(r)].state \in States
         /\ req[r].cur \in Versions => CurKey(r) \in Key /\ rows[CurKey(r)].state \in States
  <1>1. TypeOK /\ OperandOK(r) /\ req[r] \in Request /\ rows \in [Key -> Row]
    BY DEF RegistryInv, ArtifactInv, OperandsOK, TypeOK
  <1>2. RowTied(r)
    BY DEF RegistryInv, RowsTied
  <1>3. \A v \in Versions : <<req[r].p, v>> \in Key /\ rows[<<req[r].p, v>>].state \in States
    BY <1>1 DEF OperandOK, Key, Row
  <1> QED
    BY <1>1, <1>2, <1>3 DEF RowTied

LEMMA InstallTied ==
  ASSUME RegistryInv, NEW r \in Requests,
         InstallFind(r) \/ InstallFiles(r) \/ InstallCreate(r) \/ InstallValidate(r)
  PROVE  RegistryStep /\ (IsIdle(r)' \/ RowTied(r)')
  <1> USE DEF PCs, InstallPC, RefreshPC
  <1>1. req[r].pc \in InstallPC
    BY DEF InstallFind, InstallFiles, InstallCreate, InstallValidate
  <1>2. /\ TypeOK /\ ThisKey(r) \in Key
        /\ Tie(req[r].pc, req[r].after, rows[ThisKey(r)].state, rows[CurKey(r)].state)
    BY <1>1, TiedLabel DEF OperandOK
  <1> HIDE DEF ThisKey, CurKey
  <1>3. CASE InstallFind(r) \/ InstallFiles(r)
    <2>1. rows' = rows /\ (Return(r) \/ Goto(r, "iFiles") \/ Goto(r, "iCreate"))
      BY <1>3 DEF InstallFind, InstallFiles
    <2>2. \A this, cur : \A pc \in {"iFiles", "iCreate"} : Tie(pc, req[r].after, this, cur)
      BY DEF Tie
    <2> QED
      BY <1>2, <2>1, <2>2, RegistryStutters, TiedReturn, TiedGoto
  <1>4. CASE InstallCreate(r)
    <2>1. CASE /\ rows' = SetState(ThisKey(r), "installing", "none") /\ Goto(r, "iValidate")
               /\ rows[ThisKey(r)].state \in {"absent", "install_failed", "uninstalled"}
      <3>1. RegistryStep /\ rows'[ThisKey(r)].state = "installing"
        BY <1>2, <2>1, LegalStep DEF Legal, UniqueEnabled, States, Classes
      <3>2. Tie("iValidate", req[r].after, rows'[ThisKey(r)].state, rows'[CurKey(r)].state)
        BY <3>1 DEF Tie
      <3> QED
        BY <1>2, <2>1, <3>1, <3>2, TiedGoto
    <2>2. CASE rows' = rows /\ Return(r)
      BY <1>2, <2>2, RegistryStutters, TiedReturn
    <2> QED
      BY <1>4, <2>1, <2>2 DEF InstallCreate
  <1>5. CASE InstallValidate(r)
    <2>1. rows[ThisKey(r)].state = "installing"
      BY <1>2, <1>5 DEF InstallValidate, Tie
    <2>2. \/ Update(r, ThisKey(r), "installed", "none", Return(r), Return(r))
          \/ Update(r, ThisKey(r), "install_failed", "other", Return(r), Return(r))
      BY <1>5 DEF InstallValidate
    <2> QED
      BY <1>2, <2>1, <2>2, LegalReturn DEF Legal, States, Classes
  <1> QED
    BY <1>3, <1>4, <1>5

LEMMA UninstallTied ==
  ASSUME RegistryInv, NEW r \in Requests,
         \/ UninstallFind(r) \/ UninstallMark(r) \/ UninstallStop(r)
         \/ UninstallFiles(r) \/ UninstallDone(r)
  PROVE  RegistryStep /\ (IsIdle(r)' \/ RowTied(r)')
  <1> USE DEF PCs, UninstallPC, RefreshPC
  <1>1. req[r].pc \in UninstallPC
    BY DEF UninstallFind, UninstallMark, UninstallStop, UninstallFiles, UninstallDone
  <1>2. /\ TypeOK /\ ThisKey(r) \in Key
        /\ Tie(req[r].pc, req[r].after, rows[ThisKey(r)].state, rows[CurKey(r)].state)
    BY <1>1, TiedLabel DEF OperandOK
  <1> HIDE DEF ThisKey, CurKey
  <1>3. CASE UninstallFind(r)
    <2>1. /\ rows' = rows
          /\ Return(r) \/ (Goto(r, "uMark") /\ StableUninstallState(rows[ThisKey(r)].state))
      BY <1>3 DEF UninstallFind
    <2>2. StableUninstallState(rows'[ThisKey(r)].state) =>
             Tie("uMark", req[r].after, rows'[ThisKey(r)].state, rows'[CurKey(r)].state)
      BY DEF Tie
    <2> QED
      BY <1>2, <2>1, <2>2, RegistryStutters, TiedReturn, TiedGoto
  <1>4. CASE UninstallMark(r)
    <2>1. rows[ThisKey(r)].state \in {"installed", "install_failed", "enable_failed"}
      BY <1>2, <1>4 DEF UninstallMark, Tie, StableUninstallState
    <2>2. CASE rows' = SetState(ThisKey(r), "uninstalling", "none") /\ Goto(r, "uStop")
      <3>1. RegistryStep /\ rows'[ThisKey(r)].state = "uninstalling"
        BY <1>2, <2>1, <2>2, LegalStep DEF Legal, UniqueEnabled, States, Classes
      <3>2. Tie("uStop", req[r].after, rows'[ThisKey(r)].state, rows'[CurKey(r)].state)
        BY <3>1 DEF Tie
      <3> QED
        BY <1>2, <2>2, <3>1, <3>2, TiedGoto
    <2>3. CASE rows' = rows /\ Return(r)
      BY <1>2, <2>3, RegistryStutters, TiedReturn
    <2> QED
      BY <1>4, <2>2, <2>3 DEF UninstallMark, Update
  <1>5. CASE UninstallStop(r) \/ UninstallFiles(r) \/ UninstallDone(r)
    <2>1. rows[ThisKey(r)].state = "uninstalling"
      BY <1>2, <1>5 DEF UninstallStop, UninstallFiles, UninstallDone, Tie
    <2>2. CASE rows' = rows /\ (Goto(r, "uFiles") \/ Goto(r, "uDone"))
      <3>1. \A pc \in {"uFiles", "uDone"} :
               Tie(pc, req[r].after, rows'[ThisKey(r)].state, rows'[CurKey(r)].state)
        BY <2>1, <2>2 DEF Tie
      <3> QED
        BY <1>2, <2>2, <3>1, RegistryStutters, TiedGoto
    <2>3. CASE \/ Update(r, ThisKey(r), "installed", "other", Return(r), Return(r))
               \/ Update(r, ThisKey(r), "installed", "fs_delete_failed", Return(r), Return(r))
               \/ Update(r, ThisKey(r), "uninstalled", "none", Return(r), Return(r))
      BY <1>2, <2>1, <2>3, LegalReturn DEF Legal, States, Classes
    <2> QED
      BY <1>5, <2>2, <2>3 DEF UninstallStop, UninstallFiles, UninstallDone
  <1> QED
    BY <1>3, <1>4, <1>5

LEMMA EnableTied ==
  ASSUME RegistryInv, NEW r \in Requests,
         \/ EnableFind(r) \/ EnableMark(r) \/ EnableStartOK(r) \/ EnableStartFails(r)
         \/ EnableCommit(r) \/ EnableUndoStop(r) \/ EnableUndoMark(r)
  PROVE  RegistryStep /\ (IsIdle(r)' \/ RowTied(r)')
  <1> USE DEF PCs, EnablePC, RefreshPC, Afters
  <1>1. req[r].pc \in EnablePC
    BY DEF EnableFind, EnableMark, EnableStartOK, EnableStartFails, EnableCommit,
           EnableUndoStop, EnableUndoMark
  <1>2. /\ TypeOK /\ req[r] \in Request /\ (req[r].pc # "eFind" => ThisKey(r) \in Key)
        /\ Tie(req[r].pc, req[r].after, rows[ThisKey(r)].state, rows[CurKey(r)].state)
    BY <1>1, TiedLabel DEF OperandOK
  <1>3. CASE EnableFind(r)
    <2>1. CASE Return(r)
      BY <1>2, <1>3, <2>1, RegistryStutters, TiedReturn DEF EnableFind
    <2>2. CASE ~Return(r)
      <3>1. PICK v : /\ req' = [req EXCEPT ![r].pc = "eMark", ![r].v = v]
                     /\ Enableable(<<req[r].p, v>>) /\ rows' = rows
        BY <1>3, <2>2 DEF EnableFind
      <3>2. /\ req'[r].pc = "eMark" /\ req'[r].p = req[r].p /\ req'[r].v = v
            /\ req'[r].after = req[r].after /\ req'[r].cur = req[r].cur
        BY <1>2, <3>1 DEF TypeOK, Request
      <3>3. RowTied(r)'
        BY <3>1, <3>2 DEF RowTied, Tie, Enableable
      <3> QED
        BY <3>1, <3>3, RegistryStutters
    <2> QED
      BY <2>1, <2>2
  <1> HIDE DEF ThisKey, CurKey
  <1>4. CASE EnableMark(r)
    <2>1. rows[ThisKey(r)].state \in {"installed", "enable_failed"} /\ ThisKey(r) \in Key
      BY <1>2, <1>4 DEF EnableMark, Tie
    <2>2. CASE rows' = SetState(ThisKey(r), "enabling", "none") /\ Goto(r, "eStart")
      <3>1. RegistryStep /\ rows'[ThisKey(r)].state = "enabling"
        BY <1>2, <2>1, <2>2, LegalStep DEF Legal, UniqueEnabled, States, Classes
      <3>2. Tie("eStart", req[r].after, rows'[ThisKey(r)].state, rows'[CurKey(r)].state)
        BY <3>1 DEF Tie
      <3> QED
        BY <1>2, <2>2, <3>1, <3>2, TiedGoto
    <2>3. CASE rows' = rows /\ Return(r)
      BY <1>2, <2>3, RegistryStutters, TiedReturn
    <2> QED
      BY <1>4, <2>2, <2>3 DEF EnableMark, Update
  <1>5. CASE EnableStartOK(r)
    <2>1. rows' = rows /\ Goto(r, "eCommit") /\ rows[ThisKey(r)].state = "enabling"
      BY <1>2, <1>5 DEF EnableStartOK, Tie
    <2>2. Tie("eCommit", req[r].after, rows'[ThisKey(r)].state, rows'[CurKey(r)].state)
      BY <2>1 DEF Tie
    <2> QED
      BY <1>2, <2>1, <2>2, RegistryStutters, TiedGoto
  <1>6. CASE EnableStartFails(r)
    <2>1. rows[ThisKey(r)].state = "enabling" /\ ThisKey(r) \in Key
      BY <1>2, <1>6 DEF EnableStartFails, Tie
    <2>2. Update(r, ThisKey(r), "enable_failed", "other", Return(r), Return(r))
      BY <1>6 DEF EnableStartFails
    <2> QED
      BY <1>2, <2>1, <2>2, LegalReturn DEF Legal, States, Classes
  <1>7. CASE EnableCommit(r)
    <2>1. rows[ThisKey(r)].state = "enabling" /\ ThisKey(r) \in Key
      BY <1>2, <1>7 DEF EnableCommit, Tie
    <2>2. CASE /\ rows' = SetState(ThisKey(r), "enabled", "none") /\ UniqueEnabled(ThisKey(r), "enabled")
               /\ Refresh(r, "enabled")
      <3>1. RegistryStep /\ rows'[ThisKey(r)].state = "enabled"
        BY <1>2, <2>1, <2>2, LegalStep DEF Legal, States, Classes
      <3>2. Tie("rRead", "enabled", rows'[ThisKey(r)].state, rows'[CurKey(r)].state)
        BY <3>1 DEF Tie
      <3> QED
        BY <1>2, <2>2, <3>1, <3>2, TiedRefresh
    <2>3. CASE rows' = rows /\ Return(r)
      BY <1>2, <2>3, RegistryStutters, TiedReturn
    <2> QED
      BY <1>7, <2>2, <2>3 DEF EnableCommit, Update, CanSetState
  <1>8. CASE EnableUndoStop(r)
    <2>1. rows' = rows /\ (Goto(r, "eUndoMark") \/ Goto(r, "eUndoComp")) /\ rows[ThisKey(r)].state = "enabled"
      BY <1>2, <1>8 DEF EnableUndoStop, Tie
    <2>2. \A pc \in {"eUndoMark", "eUndoComp"} :
             Tie(pc, req[r].after, rows'[ThisKey(r)].state, rows'[CurKey(r)].state)
      BY <2>1 DEF Tie
    <2> QED
      BY <1>2, <2>1, <2>2, RegistryStutters, TiedGoto
  <1>9. CASE EnableUndoMark(r)
    <2>1. rows[ThisKey(r)].state = "enabled" /\ ThisKey(r) \in Key
      BY <1>2, <1>9 DEF EnableUndoMark, Tie
    <2>2. CASE Update(r, ThisKey(r), "enable_failed", "compensation_failed", Return(r), Return(r))
      BY <1>2, <2>1, <2>2, LegalReturn DEF Legal, States, Classes
    <2>3. CASE /\ rows' = rows \/ rows' = SetState(ThisKey(r), "enable_failed", "other")
               /\ Refresh(r, "undoEnable")
      <3>1. RegistryStep
        BY <1>2, <2>1, <2>3, LegalStep, RegistryStutters DEF Legal, UniqueEnabled, States, Classes
      <3>2. \A this, cur : Tie("rRead", "undoEnable", this, cur)
        BY DEF Tie
      <3> QED
        BY <1>2, <2>3, <3>1, <3>2, TiedRefresh
    <2> QED
      BY <1>9, <2>2, <2>3 DEF EnableUndoMark, Update
  <1> QED
    BY <1>3, <1>4, <1>5, <1>6, <1>7, <1>8, <1>9

LEMMA DisableTied ==
  ASSUME RegistryInv, NEW r \in Requests,
         \/ DisableFind(r) \/ DisableMark(r) \/ DisableHooks(r) \/ DisableStop(r)
         \/ DisableUndo(r) \/ DisableDone(r) \/ DisableWarn(r)
  PROVE  RegistryStep /\ (IsIdle(r)' \/ RowTied(r)')
  <1> USE DEF PCs, DisablePC, RefreshPC, Afters
  <1>1. req[r].pc \in DisablePC
    BY DEF DisableFind, DisableMark, DisableHooks, DisableStop, DisableUndo,
           DisableDone, DisableWarn
  <1>2. /\ TypeOK /\ req[r] \in Request /\ (req[r].pc # "dFind" => CurKey(r) \in Key)
        /\ Tie(req[r].pc, req[r].after, rows[ThisKey(r)].state, rows[CurKey(r)].state)
    BY <1>1, TiedLabel DEF OperandOK
  <1>3. CASE DisableFind(r)
    <2>1. CASE Return(r)
      BY <1>2, <1>3, <2>1, RegistryStutters, TiedReturn DEF DisableFind
    <2>2. CASE ~Return(r)
      <3>1. PICK cur : /\ req' = [req EXCEPT ![r].pc = "dMark", ![r].cur = cur]
                       /\ cur = FindEnabled(req[r].p) /\ cur # NoVersion /\ rows' = rows
        BY <1>3, <2>2 DEF DisableFind
      <3>2. /\ req'[r].pc = "dMark" /\ req'[r].p = req[r].p /\ req'[r].cur = cur
            /\ req'[r].after = req[r].after /\ req'[r].v = req[r].v
        BY <1>2, <3>1 DEF TypeOK, Request
      <3>3. rows[<<req[r].p, cur>>].state = "enabled"
        BY <3>1 DEF FindEnabled, EnabledVersions
      <3>4. RowTied(r)'
        BY <3>1, <3>2, <3>3 DEF RowTied, Tie
      <3> QED
        BY <3>1, <3>4, RegistryStutters
    <2> QED
      BY <2>1, <2>2
  <1> HIDE DEF ThisKey, CurKey
  <1>4. CASE DisableMark(r)
    <2>1. rows[CurKey(r)].state = "enabled" /\ CurKey(r) \in Key
      BY <1>2, <1>4 DEF DisableMark, Tie
    <2>2. CASE rows' = SetState(CurKey(r), "disabling", "none") /\ Goto(r, "dHooks")
      <3>1. RegistryStep /\ rows'[CurKey(r)].state = "disabling"
        BY <1>2, <2>1, <2>2, LegalStep DEF Legal, UniqueEnabled, States, Classes
      <3>2. Tie("dHooks", req[r].after, rows'[ThisKey(r)].state, rows'[CurKey(r)].state)
        BY <3>1 DEF Tie
      <3> QED
        BY <1>2, <2>2, <3>1, <3>2, TiedGoto
    <2>3. CASE rows' = rows /\ Return(r)
      BY <1>2, <2>3, RegistryStutters, TiedReturn
    <2> QED
      BY <1>4, <2>2, <2>3 DEF DisableMark, Update
  <1>5. CASE DisableHooks(r) \/ DisableStop(r)
    <2>1. /\ rows' = rows /\ rows[CurKey(r)].state = "disabling"
          /\ Goto(r, "dStop") \/ Goto(r, "dDone") \/ Goto(r, "dUndo")
      BY <1>2, <1>5 DEF DisableHooks, DisableStop, Tie
    <2>2. \A pc \in {"dStop", "dDone", "dUndo"} :
             Tie(pc, req[r].after, rows'[ThisKey(r)].state, rows'[CurKey(r)].state)
      BY <2>1 DEF Tie
    <2> QED
      BY <1>2, <2>1, <2>2, RegistryStutters, TiedGoto
  <1>6. CASE DisableUndo(r)
    <2>1. rows[CurKey(r)].state \in {"disabling", "enabled"} /\ CurKey(r) \in Key
      BY <1>2, <1>6 DEF DisableUndo, Tie
    <2>2. CASE Update(r, CurKey(r), "enabled", "compensation_failed", Return(r), Return(r))
      BY <1>2, <2>1, <2>2, LegalReturn DEF Legal, States, Classes
    <2>3. CASE /\ rows' = rows \/ (rows' = SetState(CurKey(r), "enabled", "other")
                                     /\ UniqueEnabled(CurKey(r), "enabled"))
               /\ Refresh(r, "undoDisable")
      <3>1. RegistryStep /\ rows'[CurKey(r)].state \in {"disabling", "enabled"}
        BY <1>2, <2>1, <2>3, LegalStep, RegistryStutters DEF Legal, States, Classes
      <3>2. Tie("rRead", "undoDisable", rows'[ThisKey(r)].state, rows'[CurKey(r)].state)
        BY <3>1 DEF Tie
      <3> QED
        BY <1>2, <2>3, <3>1, <3>2, TiedRefresh
    <2> QED
      BY <1>6, <2>2, <2>3 DEF DisableUndo, Update, CanSetState
  <1>7. CASE DisableDone(r)
    <2>1. rows[CurKey(r)].state = "disabling" /\ CurKey(r) \in Key
      BY <1>2, <1>7 DEF DisableDone, Tie
    <2>2. CASE rows' = SetState(CurKey(r), "installed", "none") /\ Refresh(r, "disabled")
      <3>1. RegistryStep /\ rows'[CurKey(r)].state = "installed"
        BY <1>2, <2>1, <2>2, LegalStep DEF Legal, UniqueEnabled, States, Classes
      <3>2. Tie("rRead", "disabled", rows'[ThisKey(r)].state, rows'[CurKey(r)].state)
        BY <3>1 DEF Tie
      <3> QED
        BY <1>2, <2>2, <3>1, <3>2, TiedRefresh
    <2>3. CASE rows' = rows /\ Return(r)
      BY <1>2, <2>3, RegistryStutters, TiedReturn
    <2> QED
      BY <1>7, <2>2, <2>3 DEF DisableDone, Update
  <1>8. CASE DisableWarn(r)
    <2>1. rows[CurKey(r)].state = "installed" /\ CurKey(r) \in Key
      BY <1>2, <1>8 DEF DisableWarn, Tie
    <2>2. Update(r, CurKey(r), "installed", "other", Return(r), Return(r))
      BY <1>8 DEF DisableWarn
    <2> QED
      BY <1>2, <2>1, <2>2, LegalReturn DEF Legal, States, Classes
  <1> QED
    BY <1>3, <1>4, <1>5, <1>6, <1>7, <1>8

LEMMA RefreshTied ==
  ASSUME RegistryInv, NEW r \in Requests, RefreshRead(r) \/ RefreshApply(r)
  PROVE  RegistryStep /\ (IsIdle(r)' \/ RowTied(r)')
  <1> USE DEF PCs, EnablePC, DisablePC, RefreshPC
  <1>1. req[r].pc \in RefreshPC /\ rows' = rows
    BY DEF RefreshRead, RefreshApply
  <1>2. /\ TypeOK /\ req[r] \in Request
        /\ Tie(req[r].pc, req[r].after, rows[ThisKey(r)].state, rows[CurKey(r)].state)
    BY <1>1, TiedLabel
  <1>3. CASE RefreshRead(r)
    <2>1. CASE Return(r)
      BY <1>1, <1>2, <2>1, RegistryStutters, TiedReturn
    <2>2. CASE req' = [req EXCEPT ![r].pc = "rApply", ![r].list = ListEnabled]
      <3>1. /\ req'[r].pc = "rApply" /\ req'[r].p = req[r].p /\ req'[r].cur = req[r].cur
            /\ req'[r].after = req[r].after /\ req'[r].v = req[r].v
        BY <1>2, <2>2 DEF TypeOK, Request
      <3>2. Tie("rApply", req[r].after, rows[ThisKey(r)].state, rows[CurKey(r)].state)
        BY <1>1, <1>2 DEF Tie
      <3> QED
        BY <1>1, <3>1, <3>2, RegistryStutters DEF RowTied
    <2> HIDE DEF ThisKey, CurKey
    <2>3. CASE req[r].after = "enabled" /\ Goto(r, "eUndoStop")
      <3>1. Tie("eUndoStop", req[r].after, rows'[ThisKey(r)].state, rows'[CurKey(r)].state)
        BY <1>1, <1>2, <2>3 DEF Tie
      <3> QED
        BY <1>1, <1>2, <2>3, <3>1, RegistryStutters, TiedGoto
    <2>4. CASE req[r].after = "disabled" /\ Goto(r, "dWarn")
      <3>1. Tie("dWarn", req[r].after, rows'[ThisKey(r)].state, rows'[CurKey(r)].state)
        BY <1>1, <1>2, <2>4 DEF Tie
      <3> QED
        BY <1>1, <1>2, <2>4, <3>1, RegistryStutters, TiedGoto
    <2>5. CASE req[r].after = "undoDisable" /\ Goto(r, "dComp")
      <3>1. Tie("dComp", req[r].after, rows'[ThisKey(r)].state, rows'[CurKey(r)].state)
        BY <1>1, <1>2, <2>5 DEF Tie
      <3> QED
        BY <1>1, <1>2, <2>5, <3>1, RegistryStutters, TiedGoto
    <2> QED
      BY <1>3, <2>1, <2>2, <2>3, <2>4, <2>5 DEF RefreshRead
  <1>4. CASE RefreshApply(r)
    <2>1. Return(r) \/ Goto(r, "eFind")
      BY <1>4 DEF RefreshApply, AfterRefresh
    <2>2. \A this, cur : Tie("eFind", req[r].after, this, cur)
      BY DEF Tie
    <2> QED
      BY <1>1, <1>2, <2>1, <2>2, RegistryStutters, TiedReturn, TiedGoto
  <1> QED
    BY <1>3, <1>4

LEMMA SwitchTied ==
  ASSUME RegistryInv, NEW r \in Requests, SwitchFind(r) \/ SwitchMigrate(r)
  PROVE  RegistryStep /\ (IsIdle(r)' \/ RowTied(r)')
  <1> USE DEF PCs, SwitchPC, EnablePC, DisablePC, RefreshPC
  <1>1. req[r].pc \in SwitchPC
    BY DEF SwitchFind, SwitchMigrate
  <1>2. /\ TypeOK /\ ThisKey(r) \in Key
        /\ Tie(req[r].pc, req[r].after, rows[ThisKey(r)].state, rows[CurKey(r)].state)
    BY <1>1, TiedLabel DEF OperandOK
  <1>3. \A pc \in {"eFind", "dFind"} : \A this, cur : Tie(pc, req[r].after, this, cur)
    BY DEF Tie
  <1> HIDE DEF ThisKey, CurKey
  <1>4. CASE SwitchFind(r)
    <2>1. /\ rows' = rows
          /\ \/ Return(r) \/ Goto(r, "eFind")
             \/ Goto(r, "sMigrate") /\ rows[ThisKey(r)].state \in {"installed", "enable_failed"}
      BY <1>4 DEF SwitchFind, Enableable
    <2>2. rows[ThisKey(r)].state \in {"installed", "enable_failed"} =>
             Tie("sMigrate", req[r].after, rows'[ThisKey(r)].state, rows'[CurKey(r)].state)
      BY <2>1 DEF Tie
    <2> QED
      BY <1>2, <1>3, <2>1, <2>2, RegistryStutters, TiedReturn, TiedGoto
  <1>5. CASE SwitchMigrate(r)
    <2>1. rows[ThisKey(r)].state \in {"installed", "enable_failed"}
      BY <1>2, <1>5 DEF SwitchMigrate, Tie
    <2>2. CASE rows' = rows /\ (Return(r) \/ Goto(r, "dFind"))
      BY <1>2, <1>3, <2>2, RegistryStutters, TiedReturn, TiedGoto
    <2>3. CASE Update(r, ThisKey(r), "installed", "other", Return(r), Return(r))
      BY <1>2, <2>1, <2>3, LegalReturn DEF Legal, States, Classes
    <2> QED
      BY <1>5, <2>2, <2>3 DEF SwitchMigrate
  <1> QED
    BY <1>4, <1>5

\* A call, or start-up, begins an operation that has not read its row yet.
LEMMA BeginTied ==
  ASSUME RegistryInv, NEW r \in Requests, NEW op, NEW p, NEW v,
         NEW pc \in {"iFind", "eFind", "dFind", "sFind", "uFind"}, Begin(r, op, p, v, pc)
  PROVE  RegistryStep /\ RowsTied' /\ UNCHANGED sup
  <1>1. /\ rows' = rows /\ UNCHANGED sup
        /\ req' = [req EXCEPT ![r] = [IdleRequest EXCEPT !.pc = pc, !.op = op, !.p = p, !.v = v]]
    BY DEF Begin
  <1>2. req \in [Requests -> Request]
    BY DEF RegistryInv, ArtifactInv, TypeOK
  <1>3. req'[r].pc = pc /\ \A q \in Requests \ {r} : req'[q] = req[q]
    BY <1>1, <1>2 DEF IdleRequest
  <1>4. RowTied(r)'
    BY <1>3 DEF RowTied, Tie, RefreshPC
  <1>5. ASSUME NEW q \in Requests \ {r}, ~IsIdle(q)' PROVE RowTied(q)'
    BY <1>1, <1>3, <1>5 DEF RegistryInv, RowsTied, RowTied
  <1> QED
    BY <1>1, <1>4, <1>5, RegistryStutters DEF RowsTied

\* Whatever happens without the supervisor is a step of the registry or none.
LEMMA RegistryNext ==
  ASSUME Ticking = FALSE, RegistryInv, [Next]_vars
  PROVE  RegistryStep /\ RowsTied' /\ sup'.pc = "idle"
  <1>1. TypeOK /\ rows \in [Key -> Row] /\ req \in [Requests -> Request] /\ RowsTied /\ sup.pc = "idle"
    BY DEF RegistryInv, ArtifactInv, TypeOK
  <1>2. ASSUME NEW r \in Requests, Call(r) PROVE RegistryStep /\ RowsTied' /\ sup'.pc = "idle"
    <2>1. PICK op, p, v : \E pc \in {"iFind", "eFind", "dFind", "sFind", "uFind"} : Begin(r, op, p, v, pc)
      BY <1>2, Zenon DEF Call, InstallCall, RestoreCall, SwitchCall, UninstallCall, EnableCall, DisableCall
    <2> QED
      BY <1>1, <2>1, BeginTied
  <1>3. ASSUME NEW r \in Requests, Step(r) PROVE RegistryStep /\ RowsTied' /\ sup'.pc = "idle"
    <2>1. RegistryStep /\ (IsIdle(r)' \/ RowTied(r)')
      BY <1>3, InstallTied, UninstallTied, EnableTied, DisableTied, SwitchTied, RefreshTied DEF Step
    <2>2. RowsTied'
      BY <1>3, <2>1, TiedLocally DEF RegistryInv
    <2>3. UNCHANGED sup
      BY <1>1, <1>3, StepLocal
    <2> QED
      BY <1>1, <2>1, <2>2, <2>3
  <1>4. ASSUME NEW r \in Requests, Cancel(r) PROVE RegistryStep /\ RowsTied' /\ sup'.pc = "idle"
    <2>1. req' = [req EXCEPT ![r].live = FALSE] /\ rows' = rows /\ sup' = sup
      BY <1>4 DEF Cancel
    <2>2. \A q \in Requests : /\ req'[q].pc = req[q].pc /\ req'[q].p = req[q].p /\ req'[q].v = req[q].v
                              /\ req'[q].cur = req[q].cur /\ req'[q].after = req[q].after
      <3> SUFFICES ASSUME NEW q \in Requests
                   PROVE  /\ req'[q].pc = req[q].pc /\ req'[q].p = req[q].p /\ req'[q].v = req[q].v
                          /\ req'[q].cur = req[q].cur /\ req'[q].after = req[q].after
        OBVIOUS
      <3>1. req'[q] = req[q] \/ req'[q] = [req[q] EXCEPT !.live = FALSE]
        BY <1>1, <2>1
      <3>2. req[q] \in Request
        BY <1>1
      <3> QED
        BY <3>1, <3>2 DEF Request
    <2>3. RowsTied'
      BY <1>1, <2>1, <2>2 DEF RowsTied, RowTied
    <2> QED
      BY <1>1, <2>1, <2>3, RegistryStutters
  <1>5. ASSUME NEW k \in Key, Purge(k) PROVE RegistryStep /\ RowsTied' /\ sup'.pc = "idle"
    <2>1. /\ rows[k].state = "uninstalled" /\ rows' = SetState(k, "absent", "none")
          /\ req' = req /\ sup' = sup
      BY <1>5 DEF Purge, SetState, NoRow
    <2>2. Registry!Move(k, {"uninstalled"}, "absent")
      BY <1>1, <2>1, RegistryMove DEF States, Classes
    <2>3. RegistryStep
      BY <2>2 DEF RegistryStep, Registry!Next, Registry!Purge, Registry!Key, Key
    <2>4. \A j \in Key : rows'[j] = rows[j] \/ (rows[j].state = "uninstalled" /\ rows'[j].state = "absent")
      BY <1>1, <2>1, SetStateRows DEF States, Classes
    <2>5. ASSUME NEW q \in Requests, ~IsIdle(q) PROVE RowTied(q)'
      <3>1. OperandOK(q) /\ Tie(req[q].pc, req[q].after, rows[ThisKey(q)].state, rows[CurKey(q)].state)
        BY <2>5 DEF RegistryInv, ArtifactInv, OperandsOK, RowsTied, RowTied
      <3>2. \A v \in Versions : <<req[q].p, v>> \in Key
        BY <3>1 DEF OperandOK, Key
      <3>3. /\ req[q].v \in Versions =>
                 \/ rows'[ThisKey(q)] = rows[ThisKey(q)]
                 \/ rows[ThisKey(q)].state = "uninstalled" /\ rows'[ThisKey(q)].state = "absent"
            /\ req[q].cur \in Versions =>
                 \/ rows'[CurKey(q)] = rows[CurKey(q)]
                 \/ rows[CurKey(q)].state = "uninstalled" /\ rows'[CurKey(q)].state = "absent"
        BY <2>4, <3>2
      <3>4. Tie(req[q].pc, req[q].after, rows'[ThisKey(q)].state, rows'[CurKey(q)].state)
        <4> HIDE DEF ThisKey, CurKey
        <4> QED
          BY <3>1, <3>3 DEF Tie, StableUninstallState, OperandOK, InstallPC, EnablePC, SwitchPC,
             UninstallPC, DisablePC, RefreshPC
      <3> QED
        BY <2>1, <3>4 DEF RowTied
    <2>6. RowsTied'
      BY <2>1, <2>5 DEF RowsTied
    <2> QED
      BY <1>1, <2>1, <2>3, <2>6
  <1>6. CASE Boot
    <2>1. CASE \E r \in Requests : \E k \in Key : SeedNext(r, k) \/ AutoEnableNext(r, k)
      <3>1. \/ rows' = rows /\ req' = req /\ sup' = sup
            \/ \E r \in Requests : \E op, p, v : \E pc \in {"iFind", "eFind"} : Begin(r, op, p, v, pc)
        BY <2>1 DEF SeedNext, AutoEnableNext
      <3>2. CASE rows' = rows /\ req' = req /\ sup' = sup
        BY <1>1, <3>2, RegistryStutters DEF RowsTied, RowTied
      <3> QED
        BY <1>1, <3>1, <3>2, BeginTied
    <2>2. CASE SeedDone
      BY <1>1, <2>2, RegistryStutters DEF SeedDone, RowsTied, RowTied
    <2>3. CASE Reconcile
      <3>1. /\ req' = req /\ sup' = sup /\ \A r \in Requests : req[r].pc = "idle"
            /\ \/ rows' = rows
               \/ \E S \in SUBSET PendingCleanup :
                     rows' = [k \in Key |-> IF k \in S THEN [state |-> "uninstalled", class |-> "none"] ELSE rows[k]]
        BY <2>3 DEF Reconcile, AllIdle
      <3>2. RowsTied'
        BY <3>1 DEF RowsTied
      <3>3. ASSUME NEW S \in SUBSET PendingCleanup,
                   rows' = [k \in Key |-> IF k \in S THEN [state |-> "uninstalled", class |-> "none"] ELSE rows[k]]
            PROVE  RegistryStep
        <4>1. S \in SUBSET Key /\ \A k \in S : RegistryState[k] = "installed"
          BY DEF PendingCleanup, RegistryState
        <4>2. RegistryState' = [k \in Key |-> IF k \in S THEN "uninstalled" ELSE RegistryState[k]]
          BY <3>3 DEF RegistryState
        <4> QED
          BY <4>1, <4>2 DEF RegistryStep, Registry!Next, Registry!Cleanup, Registry!Key, Key
      <3> QED
        BY <1>1, <3>1, <3>2, <3>3, RegistryStutters
    <2> QED
      BY <1>6, <2>1, <2>2, <2>3 DEF Boot
  <1>7. CASE Crash
    <2>1. rows' = rows /\ sup' = IdleSup /\ \A r \in Requests : req'[r].pc = "idle"
      BY <1>7 DEF Crash, IdleRequest
    <2> QED
      BY <2>1, RegistryStutters DEF RowsTied, IdleSup
  <1>8. CASE UNCHANGED vars
    BY <1>1, <1>8, RegistryStutters DEF vars, RowsTied, RowTied
  <1>9. ~SupTick /\ ~SupStep
    BY <1>1 DEF SupTick, SupStep, SupHealthy, SupUnhealthy, SupDisable, SupStop, SupRestartStop,
       SupRestartStart, SupMark
  <1> QED
    BY <1>2, <1>3, <1>4, <1>5, <1>6, <1>7, <1>8, <1>9 DEF Next

\* The rows implement the documented life cycle of a version, for any number
\* of plugins, versions and concurrent operations, with failing statements,
\* cancelled requests and restarts: the supervisor alone leaves it.
THEOREM RegistryImplemented ==
  ASSUME Ticking = FALSE
  PROVE  Spec => RegistrySpec
  <1>1. Init => RegistryInv /\ Registry!Init
    <2> SUFFICES ASSUME Init PROVE RegistryInv /\ Registry!Init
      OBVIOUS
    <2>1. ArtifactInv
      BY InitInv
    <2>2. RowsTied /\ sup.pc = "idle"
      BY DEF Init, RowsTied, IdleRequest, IdleSup
    <2>3. Registry!Init
      BY DEF Init, NoRow, RegistryState, Registry!Init, Registry!Key, Key
    <2> QED
      BY <2>1, <2>2, <2>3 DEF RegistryInv
  <1>2. RegistryInv /\ [Next]_vars => RegistryInv' /\ [Registry!Next]_RegistryState
    <2> SUFFICES ASSUME RegistryInv, [Next]_vars PROVE RegistryInv' /\ [Registry!Next]_RegistryState
      OBVIOUS
    <2>1. RegistryStep /\ RowsTied' /\ sup'.pc = "idle"
      BY RegistryNext
    <2>2. ArtifactInv'
      BY NextInv DEF RegistryInv
    <2> QED
      BY <2>1, <2>2 DEF RegistryInv, RegistryStep
  <1> QED
    BY <1>1, <1>2, PTL DEF Spec, RegistrySpec, Registry!Spec

-----------------------------------------------------------------------------
(* Operations that nothing disturbs: no tick of the supervisor, no failing  *)
(* statement and no client that goes away.                                  *)

\* A compensation of something that cannot fail is never entered.
UndoPC == {"eUndoStop", "eUndoMark", "eUndoComp", "dComp", "dWarn"}

Undisturbed == \A r \in Requests : req[r].live /\ req[r].pc \notin UndoPC

\* Request r goes on at label pc, the others stay where they are.
Goes(r, pc) ==
    /\ req'[r].pc = pc /\ req'[r].p = req[r].p /\ req'[r].live = req[r].live
    /\ UNCHANGED locks

LEMMA GotoGoes ==
  ASSUME TypeOK, NEW r \in Requests, NEW pc, Goto(r, pc)
  PROVE  Goes(r, pc) /\ req'[r].list = req[r].list
  BY DEF TypeOK, Request, Goto, Goes

LEMMA RefreshGoes ==
  ASSUME TypeOK, NEW r \in Requests, NEW after, Refresh(r, after)
  PROVE  Goes(r, "rRead")
  BY DEF TypeOK, Request, Refresh, Goes

LEMMA ReadGoes ==
  ASSUME TypeOK, NEW r \in Requests, NEW list, UNCHANGED locks,
         req' = [req EXCEPT ![r].pc = "rApply", ![r].list = list]
  PROVE  Goes(r, "rApply") /\ req'[r].list = list
  BY DEF TypeOK, Request, Goes

LEMMA FoundGoes ==
  ASSUME TypeOK, NEW r \in Requests, NEW v, UNCHANGED locks
  PROVE  /\ req' = [req EXCEPT ![r].pc = "eMark", ![r].v = v] => Goes(r, "eMark")
         /\ req' = [req EXCEPT ![r].pc = "dMark", ![r].cur = v] => Goes(r, "dMark")
  BY DEF TypeOK, Request, Goes

\* Every statement of an undisturbed request is executed.
LEMMA NoneFails ==
  ASSUME Undisturbed, "db" \notin Faults, NEW r \in Requests
  PROVE  DbOutcomes(r) = {TRUE}
  BY DEF Undisturbed, DbOutcomes

\* A step of a request ends it, or leads to a label that is no compensation.
LEMMA StepGoes ==
  ASSUME TypeOK, Undisturbed, "db" \notin Faults, NEW r \in Requests, Step(r)
  PROVE  \/ Return(r)
         \/ \E pc \in PCs \ UndoPC : /\ Goes(r, pc)
                                     /\ pc = "dHooks" => DisableMark(r)
                                     /\ pc = "rApply" => RefreshRead(r)
  <1>1. req \in [Requests -> Request] /\ DbOutcomes(r) = {TRUE} /\ req[r].pc \notin UndoPC
    BY NoneFails DEF TypeOK, Undisturbed
  <1> DEFINE Plain == PCs \ (UndoPC \cup {"dHooks", "rApply"})
  <1>2. ASSUME (\E pc \in Plain : Goto(r, pc)) \/ (\E after : Refresh(r, after))
        PROVE  \E pc \in Plain : Goes(r, pc)
    <2>1. "rRead" \in Plain
      BY DEF PCs, RefreshPC, UndoPC
    <2> QED
      BY <1>2, <2>1, GotoGoes, RefreshGoes
  <1> USE DEF PCs, InstallPC, EnablePC, DisablePC, SwitchPC, UninstallPC, RefreshPC, UndoPC
  <1> HIDE DEF ThisKey, CurKey
  <1>5. CASE InstallFind(r) \/ InstallFiles(r) \/ InstallCreate(r) \/ InstallValidate(r)
    BY <1>2, <1>5 DEF InstallFind, InstallFiles, InstallCreate, InstallValidate, Update
  <1>6. CASE EnableMark(r) \/ EnableStartOK(r) \/ EnableStartFails(r) \/ EnableCommit(r)
    BY <1>2, <1>6 DEF EnableMark, EnableStartOK, EnableStartFails, EnableCommit, Update
  <1>7. ~EnableUndoStop(r) /\ ~EnableUndoMark(r) /\ ~DisableWarn(r)
    BY <1>1 DEF EnableUndoStop, EnableUndoMark, DisableWarn
  <1>8. CASE DisableHooks(r) \/ DisableStop(r)
    BY <1>2, <1>8 DEF DisableHooks, DisableStop
  <1>15. CASE DisableMark(r)
    <2>1. Return(r) \/ Goto(r, "dHooks")
      BY <1>15 DEF DisableMark, Update
    <2>2. Return(r) \/ Goes(r, "dHooks")
      BY <2>1, GotoGoes
    <2> QED
      BY <1>15, <2>2
  <1>9. CASE DisableUndo(r) \/ DisableDone(r)
    BY <1>1, <1>2, <1>9 DEF DisableUndo, DisableDone, Update
  <1>10. CASE SwitchFind(r) \/ SwitchMigrate(r)
    BY <1>2, <1>10 DEF SwitchFind, SwitchMigrate, Update
  <1>11. CASE \/ UninstallFind(r) \/ UninstallMark(r) \/ UninstallStop(r)
              \/ UninstallFiles(r) \/ UninstallDone(r)
    BY <1>2, <1>11 DEF UninstallFind, UninstallMark, UninstallStop, UninstallFiles,
       UninstallDone, Update
  <1>12. CASE EnableFind(r) \/ DisableFind(r)
    <2>1. \/ Return(r)
          \/ \E v : req' = [req EXCEPT ![r].pc = "eMark", ![r].v = v] /\ UNCHANGED locks
          \/ \E cur : req' = [req EXCEPT ![r].pc = "dMark", ![r].cur = cur] /\ UNCHANGED locks
      BY <1>12 DEF EnableFind, DisableFind
    <2>2. Return(r) \/ Goes(r, "eMark") \/ Goes(r, "dMark")
      BY <2>1, FoundGoes
    <2> QED
      BY <2>2
  <1>13. CASE RefreshRead(r)
    <2>1. req' = [req EXCEPT ![r].pc = "rApply", ![r].list = ListEnabled] /\ UNCHANGED locks
      BY <1>1, <1>13, Zenon DEF RefreshRead
    <2>2. Goes(r, "rApply")
      BY <2>1, ReadGoes
    <2> QED
      BY <1>13, <2>2
  <1>14. CASE RefreshApply(r)
    BY <1>2, <1>14 DEF RefreshApply, AfterRefresh
  <1> QED
    BY <1>5, <1>6, <1>7, <1>8, <1>9, <1>10, <1>11, <1>12, <1>13, <1>14, <1>15 DEF Step

\* It does not disturb itself.
LEMMA StepUndisturbed ==
  ASSUME TypeOK, Undisturbed, "db" \notin Faults, NEW r \in Requests, Step(r)
  PROVE  Undisturbed'
  <1>1. req \in [Requests -> Request] /\ req[r].live
    BY DEF TypeOK, Undisturbed
  <1>2. \A q \in Requests \ {r} : req'[q] = req[q]
    BY StepLocal
  <1>3. ASSUME NEW pc \in PCs \ UndoPC, Goes(r, pc) PROVE req'[r].live /\ req'[r].pc \notin UndoPC
    BY <1>1, <1>3 DEF Goes
  <1>4. Return(r) => req'[r].live /\ req'[r].pc \notin UndoPC
    BY <1>1 DEF Return, IdleRequest, UndoPC
  <1>5. req'[r].live /\ req'[r].pc \notin UndoPC
    BY <1>3, <1>4, StepGoes
  <1> QED
    BY <1>2, <1>5 DEF Undisturbed

\* A call, or start-up, begins an operation; nothing else changes.
LEMMA BeginGives ==
  ASSUME TypeOK, NEW r \in Requests, NEW op, NEW p, NEW v, NEW pc, Begin(r, op, p, v, pc)
  PROVE  /\ req[r].pc = "idle" /\ p \notin locks /\ locks' = locks \cup {p}
         /\ req'[r].pc = pc /\ req'[r].p = p /\ req'[r].live = TRUE
         /\ \A q \in Requests \ {r} : req'[q] = req[q]
         /\ UNCHANGED <<rows, files, running, targets>>
  BY DEF TypeOK, Begin, TryAcquire, IdleRequest

\* What may happen besides the steps of operations when the supervisor rests.
Starting == {"iFind", "eFind", "dFind", "sFind", "uFind"}

LEMMA OtherSteps ==
  ASSUME RegistryInv, Ticking = FALSE, "ctx" \notin Faults, [Next]_vars,
         ~\E r \in Requests : Step(r)
  PROVE  \/ /\ \E r \in Requests : \E op, p, v : \E pc \in Starting : Begin(r, op, p, v, pc)
            /\ boot'.phase = boot.phase
         \/ (\E k \in Key : Purge(k)) /\ UNCHANGED boot
         \/ UNCHANGED <<rows, running, targets, locks, req>> /\ boot'.phase \in {boot.phase, "auto"}
         \/ Reconcile
         \/ Crash
  <1>1. boot \in [phase : {"seed", "auto", "serving"}, todo : SUBSET Bundled, crashes : 0..MaxCrashes]
    BY DEF RegistryInv, ArtifactInv, TypeOK
  <1>2. ASSUME NEW r \in Requests, Call(r)
        PROVE  (\E op, p, v : \E pc \in Starting : Begin(r, op, p, v, pc)) /\ UNCHANGED boot
    BY <1>2, Zenon DEF Call, InstallCall, RestoreCall, SwitchCall, UninstallCall, EnableCall, DisableCall, Starting
  <1>3. ASSUME NEW r \in Requests, NEW k \in Key, SeedNext(r, k) \/ AutoEnableNext(r, k)
        PROVE  /\ boot'.phase = boot.phase
               /\ \/ \E op, p, v : \E pc \in Starting : Begin(r, op, p, v, pc)
                  \/ UNCHANGED <<rows, running, targets, locks, req>>
    <2>1. boot'.phase = boot.phase
      BY <1>1, <1>3 DEF SeedNext, AutoEnableNext
    <2>2. \/ \E op, p, v : \E pc \in Starting : Begin(r, op, p, v, pc)
          \/ UNCHANGED <<rows, running, targets, locks, req>>
      BY <1>3, Zenon DEF SeedNext, AutoEnableNext, Starting
    <2> QED
      BY <2>1, <2>2
  <1>4. SeedDone => UNCHANGED <<rows, running, targets, locks, req>> /\ boot'.phase = "auto"
    BY <1>1 DEF SeedDone
  <1>5. \A r \in Requests : ~Cancel(r)
    BY DEF Cancel
  <1>6. ~SupTick /\ ~SupStep
    BY DEF RegistryInv, SupTick, SupStep, SupHealthy, SupUnhealthy, SupDisable, SupStop, SupRestartStop,
       SupRestartStart, SupMark
  <1>7. \A k \in Key : Purge(k) => UNCHANGED boot
    BY DEF Purge
  <1>8. UNCHANGED vars => UNCHANGED <<rows, running, targets, locks, req>> /\ boot' = boot
    BY DEF vars
  <1>9. CASE Boot
    BY <1>3, <1>4, <1>9 DEF Boot
  <1> QED
    BY <1>2, <1>5, <1>6, <1>7, <1>8, <1>9 DEF Next

\* The same keeps the operations undisturbed.
LEMMA UndisturbedNext ==
  ASSUME RegistryInv, Undisturbed, Ticking = FALSE, Faults \cap {"db", "ctx"} = {}, [Next]_vars
  PROVE  Undisturbed'
  <1>1. TypeOK /\ "db" \notin Faults /\ "ctx" \notin Faults
    BY DEF RegistryInv, ArtifactInv
  <1>2. CASE \E r \in Requests : Step(r)
    BY <1>1, <1>2, StepUndisturbed
  <1>3. ASSUME NEW r \in Requests, NEW op, NEW p, NEW v, NEW pc \in Starting, Begin(r, op, p, v, pc)
        PROVE  Undisturbed'
    <2>1. /\ req'[r].pc = pc /\ req'[r].live = TRUE
          /\ \A q \in Requests \ {r} : req'[q] = req[q]
      BY <1>1, <1>3, BeginGives
    <2>2. pc \notin UndoPC
      BY DEF Starting, UndoPC
    <2> QED
      BY <2>1, <2>2 DEF Undisturbed
  <1>4. UNCHANGED req => Undisturbed'
    BY DEF Undisturbed
  <1>5. Crash => Undisturbed'
    BY DEF Crash, Undisturbed, IdleRequest, UndoPC
  <1> QED
    BY <1>1, <1>2, <1>3, <1>4, <1>5, OtherSteps DEF Purge, Reconcile

LEMMA UndisturbedInit == Init => Undisturbed
  BY DEF Init, Undisturbed, IdleRequest, UndoPC

-----------------------------------------------------------------------------
(* "No half-enabled": one version of each plugin, nothing that fails on the *)
(* way back, no restart.                                                    *)

\* Version k is in no transitional state and runs exactly if it is enabled.
Settled(k) ==
    /\ rows[k].state \notin Transitional
    /\ k \in running <=> rows[k].state = "enabled"

\* The version k that an operation at label pc works on: settled until the first
\* statement and after the last one, in between with or without its runtime.
BeforeOrAfter == {"iFind", "iFiles", "iCreate", "eFind", "eMark", "dFind", "dMark",
                  "sFind", "sMigrate", "uFind", "uMark"} \cup RefreshPC

Stage(pc, k) ==
    /\ pc \in BeforeOrAfter => Settled(k)
    /\ pc \in {"iValidate", "eStart", "dDone", "uStop", "uFiles", "uDone"} => k \notin running
    /\ pc \in {"eCommit", "dHooks", "dStop"} => k \in running
    /\ pc # "dUndo"

AllStaged ==
    /\ \A k \in Key : k[1] \notin locks => Settled(k)
    /\ \A r \in Requests : ~IsIdle(r) => \A k \in Key : k[1] = req[r].p => Stage(req[r].pc, k)

HalfInv == RegistryInv /\ Undisturbed /\ AllStaged

\* What a step of r has to make of its version k.
Outcome(r, k) ==
    \/ Return(r) /\ Settled(k)'
    \/ \E pc \in PCs : Goes(r, pc) /\ Stage(pc, k)'

\* The runtimes of other plugins are left alone.
LEMMA RunsLocal ==
  ASSUME NEW r \in Requests, Step(r), NEW k, k[1] # req[r].p
  PROVE  k \in running' <=> k \in running
  <1>1. ThisKey(r)[1] = req[r].p /\ CurKey(r)[1] = req[r].p
    OBVIOUS
  <1> HIDE DEF ThisKey, CurKey
  <1>2. \/ running' = running \/ running' = running \cup {ThisKey(r)}
        \/ running' = running \ {ThisKey(r)} \/ running' = running \ {CurKey(r)}
    BY Zenon DEF Step, InstallFind, InstallFiles, InstallCreate, InstallValidate, EnableFind, EnableMark,
       EnableStartOK, EnableStartFails, EnableCommit, EnableUndoStop, EnableUndoMark, DisableFind,
       DisableMark, DisableHooks, DisableStop, DisableUndo, DisableDone, DisableWarn, SwitchFind,
       SwitchMigrate, UninstallFind, UninstallMark, UninstallStop, UninstallFiles, UninstallDone,
       RefreshRead, RefreshApply
  <1> QED
    BY <1>1, <1>2

\* A step of r that keeps its own version in order keeps everything in order.
LEMMA StagedLocally ==
  ASSUME HalfInv, "db" \notin Faults, NEW r \in Requests, Step(r),
         \A k \in Key : k[1] = req[r].p => Outcome(r, k)
  PROVE  AllStaged'
  <1>1. TypeOK /\ LockDiscipline /\ Undisturbed /\ AllStaged /\ req \in [Requests -> Request]
    BY DEF HalfInv, RegistryInv, ArtifactInv, TypeOK
  <1>2. /\ req[r].pc # "idle" /\ req[r].p \in locks
        /\ \A q \in Requests \ {r} : req'[q] = req[q]
        /\ \A k \in Key : k[1] # req[r].p => rows'[k] = rows[k] /\ (k \in running' <=> k \in running)
    BY <1>1, StepLocal, RunsLocal DEF LockDiscipline
  <1>3. \/ IsIdle(r)' /\ locks' = locks \ {req[r].p}
        \/ req'[r].p = req[r].p /\ locks' = locks
    BY <1>1, StepGoes DEF Return, Goes, IdleRequest
  <1>4. ASSUME NEW k \in Key, k[1] # req[r].p
        PROVE  (Settled(k)' <=> Settled(k)) /\ \A pc : Stage(pc, k)' <=> Stage(pc, k)
    BY <1>2, <1>4 DEF Settled, Stage
  <1>5. ASSUME NEW k \in Key, k[1] = req[r].p
        PROVE  \/ IsIdle(r)' /\ Settled(k)'
               \/ locks' = locks /\ Stage(req[r].pc, k)'
    <2>1. CASE Return(r) /\ Settled(k)'
      BY <1>1, <2>1, TiedReturn
    <2>2. ASSUME NEW pc \in PCs, Goes(r, pc), Stage(pc, k)'
          PROVE  locks' = locks /\ Stage(req[r].pc, k)'
      BY <2>2 DEF Goes, Stage
    <2> QED
      BY <1>5, <2>1, <2>2 DEF Outcome
  <1>6. ASSUME NEW k \in Key, k[1] \notin locks' PROVE Settled(k)'
    BY <1>1, <1>2, <1>3, <1>4, <1>5, <1>6 DEF AllStaged
  <1>7. ASSUME NEW q \in Requests, ~IsIdle(q)', NEW k \in Key, k[1] = req'[q].p PROVE Stage(req[q].pc, k)'
    <2>1. CASE q = r
      <3>1. k[1] = req[r].p
        BY <1>3, <1>7, <2>1
      <3> QED
        BY <1>5, <1>7, <2>1, <3>1
    <2>2. CASE q # r
      <3>1. req'[q] = req[q] /\ req[q].pc # "idle" /\ req[q].p # req[r].p
        BY <1>1, <1>2, <1>7, <2>2 DEF LockDiscipline
      <3> QED
        BY <1>1, <1>4, <1>7, <3>1 DEF AllStaged
    <2> QED
      BY <2>1, <2>2
  <1> QED
    BY <1>6, <1>7 DEF AllStaged

\* What the invariant says of an operation, and of the only version it can be
\* about.
LEMMA OneVersion ==
  ASSUME HalfInv, \A v, w \in Versions : v = w, "db" \notin Faults,
         NEW r \in Requests, req[r].pc # "idle", NEW k \in Key, k[1] = req[r].p
  PROVE  /\ TypeOK /\ OperandOK(r) /\ req[r].live /\ req[r].pc \notin UndoPC
         /\ DbOutcomes(r) = {TRUE} /\ Stage(req[r].pc, k)
         /\ req[r].v \in Versions => ThisKey(r) = k
         /\ req[r].cur \in Versions => CurKey(r) = k
         /\ Tie(req[r].pc, req[r].after, rows[ThisKey(r)].state, rows[CurKey(r)].state)
         /\ \A st : UniqueEnabled(k, st)
  <1>1. /\ TypeOK /\ OperandOK(r) /\ req[r].live /\ req[r].pc \notin UndoPC
        /\ Tie(req[r].pc, req[r].after, rows[ThisKey(r)].state, rows[CurKey(r)].state)
    BY TiedLabel DEF HalfInv, Undisturbed
  <1>2. DbOutcomes(r) = {TRUE}
    BY NoneFails DEF HalfInv
  <1>3. Stage(req[r].pc, k)
    BY DEF HalfInv, AllStaged
  <1>4. k[2] \in Versions /\ k = <<k[1], k[2]>>
    BY DEF Key
  <1>5. /\ req[r].v \in Versions => ThisKey(r) = k
        /\ req[r].cur \in Versions => CurKey(r) = k
    BY <1>4
  <1>6. \A st : UniqueEnabled(k, st)
    BY <1>4 DEF UniqueEnabled, EnabledVersions
  <1> QED
    BY <1>1, <1>2, <1>3, <1>5, <1>6

\* The ways on of an operation that stays in order.
LEMMA GotoOutcome ==
  ASSUME TypeOK, NEW r \in Requests, NEW k, NEW pc \in PCs, Goto(r, pc), Stage(pc, k)'
  PROVE  Outcome(r, k)
  BY GotoGoes DEF Outcome

\* A label before or after the statements of an operation.
LEMMA QuietOutcome ==
  ASSUME TypeOK, NEW r \in Requests, NEW k, Settled(k)',
         \/ Return(r)
         \/ \E pc \in BeforeOrAfter : Goes(r, pc)
         \/ \E pc \in BeforeOrAfter : Goto(r, pc)
         \/ \E after : Refresh(r, after)
  PROVE  Outcome(r, k)
  <1>1. BeforeOrAfter \subseteq PCs /\ "rRead" \in BeforeOrAfter
    BY DEF BeforeOrAfter, PCs, InstallPC, EnablePC, DisablePC, SwitchPC, UninstallPC, RefreshPC
  <1>2. \A pc \in BeforeOrAfter : Stage(pc, k)'
    BY DEF Stage, BeforeOrAfter, RefreshPC
  <1>3. Return(r) \/ \E pc \in BeforeOrAfter : Goes(r, pc)
    BY <1>1, GotoGoes, RefreshGoes
  <1> QED
    BY <1>1, <1>2, <1>3 DEF Outcome

\* A step that writes nothing before or after the statements of an operation.
LEMMA NothingWritten ==
  ASSUME TypeOK, NEW r \in Requests, NEW k, req[r].pc \in BeforeOrAfter, Stage(req[r].pc, k),
         UNCHANGED <<rows, running>>,
         \/ Return(r)
         \/ \E pc \in BeforeOrAfter : Goes(r, pc)
         \/ \E pc \in BeforeOrAfter : Goto(r, pc)
  PROVE  Outcome(r, k)
  <1>1. Settled(k)'
    BY DEF Stage, Settled
  <1> QED
    BY <1>1, QuietOutcome

\* The row of the version is written and its runtime left alone.
LEMMA Written ==
  ASSUME TypeOK, NEW k \in Key, NEW st \in States, NEW cl \in Classes, rows' = SetState(k, st, cl)
  PROVE  /\ rows'[k].state = st
         /\ (st \notin Transitional /\ (k \in running' <=> st = "enabled")) <=> Settled(k)'
  BY SetStateRows DEF Settled

LEMMA InstallHalf ==
  ASSUME HalfInv, \A v, w \in Versions : v = w, "db" \notin Faults,
         NEW r \in Requests, NEW k \in Key, k[1] = req[r].p,
         InstallFind(r) \/ InstallFiles(r) \/ InstallCreate(r) \/ InstallValidate(r)
  PROVE  Outcome(r, k)
  <1>1. req[r].pc \in InstallPC
    BY DEF InstallFind, InstallFiles, InstallCreate, InstallValidate, InstallPC
  <1>2. /\ TypeOK /\ DbOutcomes(r) = {TRUE} /\ Stage(req[r].pc, k) /\ ThisKey(r) = k
        /\ Tie(req[r].pc, req[r].after, rows[k].state, rows[CurKey(r)].state)
    BY <1>1, OneVersion DEF OperandOK, InstallPC
  <1> HIDE DEF ThisKey, CurKey
  <1>3. CASE InstallFind(r) \/ InstallFiles(r)
    <2>1. /\ UNCHANGED <<rows, running>> /\ req[r].pc \in {"iFind", "iFiles"}
          /\ Return(r) \/ Goto(r, "iFiles") \/ Goto(r, "iCreate")
      BY <1>3 DEF InstallFind, InstallFiles
    <2> QED
      BY <1>2, <2>1, NothingWritten DEF BeforeOrAfter
  <1>4. CASE InstallCreate(r)
    <2>1. Settled(k) /\ req[r].pc \in BeforeOrAfter /\ running' = running
      BY <1>2, <1>4 DEF InstallCreate, Stage, BeforeOrAfter
    <2>2. CASE /\ rows' = SetState(k, "installing", "none") /\ Goto(r, "iValidate")
               /\ rows[k].state \in {"absent", "install_failed", "uninstalled"}
      <3>1. k \notin running'
        BY <2>1, <2>2 DEF Settled
      <3>2. Stage("iValidate", k)' /\ "iValidate" \in PCs
        BY <3>1 DEF Stage, BeforeOrAfter, RefreshPC, PCs, InstallPC
      <3> QED
        BY <1>2, <2>2, <3>2, GotoOutcome
    <2>3. CASE rows' = rows /\ Return(r)
      BY <1>2, <2>1, <2>3, NothingWritten
    <2> QED
      BY <1>2, <1>4, <2>2, <2>3 DEF InstallCreate
  <1>5. CASE InstallValidate(r)
    <2>1. rows[k].state = "installing" /\ k \notin running' /\ req[r].pc = "iValidate"
      BY <1>2, <1>5 DEF InstallValidate, Tie, Stage
    <2>2. /\ Return(r)
          /\ rows' = SetState(k, "installed", "none") \/ rows' = SetState(k, "install_failed", "other")
      BY <1>2, <1>5, <2>1 DEF InstallValidate, Update, CanSetState, UniqueEnabled
    <2>3. Settled(k)'
      BY <1>2, <2>1, <2>2, Written DEF States, Classes, Transitional
    <2> QED
      BY <2>2, <2>3 DEF Outcome
  <1> QED
    BY <1>3, <1>4, <1>5

LEMMA EnableHalf ==
  ASSUME HalfInv, \A v, w \in Versions : v = w, "db" \notin Faults,
         NEW r \in Requests, NEW k \in Key, k[1] = req[r].p,
         \/ EnableFind(r) \/ EnableMark(r) \/ EnableStartOK(r) \/ EnableStartFails(r)
         \/ EnableCommit(r) \/ EnableUndoStop(r) \/ EnableUndoMark(r)
  PROVE  Outcome(r, k)
  <1>1. req[r].pc \in EnablePC
    BY DEF EnableFind, EnableMark, EnableStartOK, EnableStartFails, EnableCommit,
           EnableUndoStop, EnableUndoMark, EnablePC
  <1>2. /\ TypeOK /\ DbOutcomes(r) = {TRUE} /\ Stage(req[r].pc, k)
        /\ (req[r].pc # "eFind" => ThisKey(r) = k) /\ req[r].pc \notin UndoPC
        /\ Tie(req[r].pc, req[r].after, rows[ThisKey(r)].state, rows[CurKey(r)].state)
        /\ UniqueEnabled(k, "enabled")
    BY <1>1, OneVersion DEF OperandOK, EnablePC
  <1>3. ~EnableUndoStop(r) /\ ~EnableUndoMark(r)
    BY <1>2 DEF EnableUndoStop, EnableUndoMark, UndoPC
  <1>4. CASE EnableFind(r)
    <2>1. /\ UNCHANGED <<rows, running>> /\ req[r].pc \in BeforeOrAfter
          /\ \/ Return(r)
             \/ \E v : req' = [req EXCEPT ![r].pc = "eMark", ![r].v = v] /\ UNCHANGED locks
      BY <1>4 DEF EnableFind, BeforeOrAfter
    <2>2. Return(r) \/ Goes(r, "eMark")
      BY <1>2, <2>1, FoundGoes
    <2> QED
      BY <1>2, <2>1, <2>2, NothingWritten DEF BeforeOrAfter
  <1> HIDE DEF ThisKey, CurKey
  <1> USE DEF States, Classes, Transitional
  <1>5. CASE EnableMark(r)
    <2>1. /\ rows[k].state \in {"installed", "enable_failed"} /\ k \notin running'
          /\ ThisKey(r) = k
      BY <1>2, <1>5 DEF EnableMark, Tie, Stage, BeforeOrAfter, Settled
    <2>2. Goto(r, "eStart")
      BY <1>2, <1>5, <2>1 DEF EnableMark, Update, CanSetState, UniqueEnabled
    <2>3. Stage("eStart", k)' /\ "eStart" \in PCs
      BY <2>1 DEF Stage, BeforeOrAfter, RefreshPC, PCs, EnablePC
    <2> QED
      BY <1>2, <2>2, <2>3, GotoOutcome
  <1>6. CASE EnableStartOK(r)
    <2>1. Goto(r, "eCommit") /\ k \in running'
      BY <1>2, <1>6 DEF EnableStartOK
    <2>2. Stage("eCommit", k)' /\ "eCommit" \in PCs
      BY <2>1 DEF Stage, BeforeOrAfter, RefreshPC, PCs, EnablePC
    <2> QED
      BY <1>2, <2>1, <2>2, GotoOutcome
  <1>7. CASE EnableStartFails(r)
    <2>1. rows[k].state = "enabling" /\ k \notin running' /\ ThisKey(r) = k
      BY <1>2, <1>7 DEF EnableStartFails, Tie, Stage
    <2>2. Return(r) /\ rows' = SetState(k, "enable_failed", "other")
      BY <1>2, <1>7, <2>1 DEF EnableStartFails, Update, CanSetState, UniqueEnabled
    <2>3. Settled(k)'
      BY <1>2, <2>1, <2>2, Written
    <2> QED
      BY <2>2, <2>3 DEF Outcome
  <1>8. CASE EnableCommit(r)
    <2>1. rows[k].state = "enabling" /\ k \in running' /\ ThisKey(r) = k
      BY <1>2, <1>8 DEF EnableCommit, Tie, Stage
    <2>2. Refresh(r, "enabled") /\ rows' = SetState(k, "enabled", "none")
      BY <1>2, <1>8, <2>1 DEF EnableCommit, Update, CanSetState
    <2>3. Settled(k)'
      BY <1>2, <2>1, <2>2, Written
    <2> QED
      BY <1>2, <2>2, <2>3, QuietOutcome
  <1> QED
    BY <1>3, <1>4, <1>5, <1>6, <1>7, <1>8

LEMMA DisableHalf ==
  ASSUME HalfInv, \A v, w \in Versions : v = w, Faults \cap {"db", "stop"} = {},
         NEW r \in Requests, NEW k \in Key, k[1] = req[r].p,
         \/ DisableFind(r) \/ DisableMark(r) \/ DisableHooks(r) \/ DisableStop(r)
         \/ DisableUndo(r) \/ DisableDone(r) \/ DisableWarn(r)
  PROVE  Outcome(r, k)
  <1>1. req[r].pc \in DisablePC
    BY DEF DisableFind, DisableMark, DisableHooks, DisableStop, DisableUndo,
           DisableDone, DisableWarn, DisablePC
  <1>2. /\ TypeOK /\ DbOutcomes(r) = {TRUE} /\ Stage(req[r].pc, k)
        /\ (req[r].pc # "dFind" => CurKey(r) = k) /\ req[r].pc \notin UndoPC
        /\ Tie(req[r].pc, req[r].after, rows[ThisKey(r)].state, rows[CurKey(r)].state)
    BY <1>1, OneVersion DEF OperandOK, DisablePC
  <1>3. ~DisableUndo(r) /\ ~DisableWarn(r)
    BY <1>2 DEF DisableUndo, DisableWarn, UndoPC, Stage
  <1>4. CASE DisableFind(r)
    <2>1. /\ UNCHANGED <<rows, running>> /\ req[r].pc \in BeforeOrAfter
          /\ \/ Return(r)
             \/ \E v : req' = [req EXCEPT ![r].pc = "dMark", ![r].cur = v] /\ UNCHANGED locks
      BY <1>4 DEF DisableFind, BeforeOrAfter
    <2>2. Return(r) \/ Goes(r, "dMark")
      BY <1>2, <2>1, FoundGoes
    <2> QED
      BY <1>2, <2>1, <2>2, NothingWritten DEF BeforeOrAfter
  <1> HIDE DEF ThisKey, CurKey
  <1> USE DEF States, Classes, Transitional
  <1>5. CASE DisableMark(r)
    <2>1. rows[k].state = "enabled" /\ k \in running' /\ CurKey(r) = k
      BY <1>2, <1>5 DEF DisableMark, Tie, Stage, BeforeOrAfter, Settled
    <2>2. Goto(r, "dHooks")
      BY <1>2, <1>5, <2>1 DEF DisableMark, Update, CanSetState, UniqueEnabled
    <2>3. Stage("dHooks", k)' /\ "dHooks" \in PCs
      BY <2>1 DEF Stage, BeforeOrAfter, RefreshPC, PCs, DisablePC
    <2> QED
      BY <1>2, <2>2, <2>3, GotoOutcome
  <1>6. CASE DisableHooks(r)
    <2>1. Goto(r, "dStop") /\ k \in running'
      BY <1>2, <1>6 DEF DisableHooks, Stage
    <2>2. Stage("dStop", k)' /\ "dStop" \in PCs
      BY <2>1 DEF Stage, BeforeOrAfter, RefreshPC, PCs, DisablePC
    <2> QED
      BY <1>2, <2>1, <2>2, GotoOutcome
  <1>7. CASE DisableStop(r)
    <2>1. Goto(r, "dDone") /\ k \notin running'
      BY <1>2, <1>7 DEF DisableStop, KillFails
    <2>2. Stage("dDone", k)' /\ "dDone" \in PCs
      BY <2>1 DEF Stage, BeforeOrAfter, RefreshPC, PCs, DisablePC
    <2> QED
      BY <1>2, <2>1, <2>2, GotoOutcome
  <1>8. CASE DisableDone(r)
    <2>1. rows[k].state = "disabling" /\ k \notin running' /\ CurKey(r) = k
      BY <1>2, <1>8 DEF DisableDone, Tie, Stage
    <2>2. Refresh(r, "disabled") /\ rows' = SetState(k, "installed", "none")
      BY <1>2, <1>8, <2>1 DEF DisableDone, Update, CanSetState, UniqueEnabled
    <2>3. Settled(k)'
      BY <1>2, <2>1, <2>2, Written
    <2> QED
      BY <1>2, <2>2, <2>3, QuietOutcome
  <1> QED
    BY <1>3, <1>4, <1>5, <1>6, <1>7, <1>8

LEMMA SwitchHalf ==
  ASSUME HalfInv, \A v, w \in Versions : v = w, "db" \notin Faults,
         NEW r \in Requests, NEW k \in Key, k[1] = req[r].p, SwitchFind(r) \/ SwitchMigrate(r)
  PROVE  Outcome(r, k)
  <1>1. req[r].pc \in SwitchPC /\ req[r].pc \in BeforeOrAfter /\ running' = running
    BY DEF SwitchFind, SwitchMigrate, SwitchPC, BeforeOrAfter
  <1>2. /\ TypeOK /\ DbOutcomes(r) = {TRUE} /\ Stage(req[r].pc, k) /\ ThisKey(r) = k
        /\ Tie(req[r].pc, req[r].after, rows[k].state, rows[CurKey(r)].state)
    BY <1>1, OneVersion DEF OperandOK, SwitchPC
  <1> HIDE DEF ThisKey, CurKey
  <1>3. CASE UNCHANGED rows /\ (Return(r) \/ Goto(r, "eFind") \/ Goto(r, "sMigrate") \/ Goto(r, "dFind"))
    BY <1>1, <1>2, <1>3, NothingWritten DEF BeforeOrAfter
  <1>4. CASE SwitchMigrate(r) /\ Update(r, k, "installed", "other", Return(r), Return(r))
    <2>1. rows[k].state \in {"installed", "enable_failed"} /\ k \notin running'
      BY <1>1, <1>2, <1>4 DEF SwitchMigrate, Tie, Stage, Settled
    <2>2. Return(r) /\ rows' = SetState(k, "installed", "other")
      BY <1>2, <1>4, <2>1 DEF Update, CanSetState, UniqueEnabled
    <2>3. Settled(k)'
      BY <1>2, <2>1, <2>2, Written DEF States, Classes, Transitional
    <2> QED
      BY <2>2, <2>3 DEF Outcome
  <1>5. SwitchFind(r) => UNCHANGED rows /\ (Return(r) \/ Goto(r, "eFind") \/ Goto(r, "sMigrate"))
    BY DEF SwitchFind
  <1>6. \/ UNCHANGED rows /\ (Return(r) \/ Goto(r, "dFind"))
        \/ Update(r, k, "installed", "other", Return(r), Return(r))
        \/ ~SwitchMigrate(r)
    BY <1>2 DEF SwitchMigrate
  <1> QED
    BY <1>3, <1>4, <1>5, <1>6

LEMMA UninstallHalf ==
  ASSUME HalfInv, \A v, w \in Versions : v = w, Faults \cap {"db", "stop"} = {},
         NEW r \in Requests, NEW k \in Key, k[1] = req[r].p,
         \/ UninstallFind(r) \/ UninstallMark(r) \/ UninstallStop(r)
         \/ UninstallFiles(r) \/ UninstallDone(r)
  PROVE  Outcome(r, k)
  <1>1. req[r].pc \in UninstallPC
    BY DEF UninstallFind, UninstallMark, UninstallStop, UninstallFiles, UninstallDone, UninstallPC
  <1>2. /\ TypeOK /\ DbOutcomes(r) = {TRUE} /\ Stage(req[r].pc, k) /\ ThisKey(r) = k
        /\ Tie(req[r].pc, req[r].after, rows[k].state, rows[CurKey(r)].state)
    BY <1>1, OneVersion DEF OperandOK, UninstallPC
  <1> HIDE DEF ThisKey, CurKey
  <1> USE DEF States, Classes, Transitional
  <1>3. CASE UninstallFind(r)
    <2>1. /\ UNCHANGED <<rows, running>> /\ req[r].pc = "uFind" /\ (Return(r) \/ Goto(r, "uMark"))
      BY <1>3 DEF UninstallFind
    <2> QED
      BY <1>2, <2>1, NothingWritten DEF BeforeOrAfter
  <1>4. CASE UninstallMark(r)
    <2>1. StableUninstallState(rows[k].state) /\ k \notin running'
      BY <1>2, <1>4 DEF UninstallMark, Tie, Stage, BeforeOrAfter, Settled, StableUninstallState
    <2>2. Goto(r, "uStop")
      BY <1>2, <1>4, <2>1 DEF UninstallMark, Update, CanSetState, UniqueEnabled, StableUninstallState
    <2>3. Stage("uStop", k)' /\ "uStop" \in PCs
      BY <2>1 DEF Stage, BeforeOrAfter, RefreshPC, PCs, UninstallPC
    <2> QED
      BY <1>2, <2>2, <2>3, GotoOutcome
  <1>5. CASE UninstallStop(r)
    <2>1. Goto(r, "uFiles") /\ k \notin running'
      BY <1>2, <1>5 DEF UninstallStop, KillFails
    <2>2. Stage("uFiles", k)' /\ "uFiles" \in PCs
      BY <2>1 DEF Stage, BeforeOrAfter, RefreshPC, PCs, UninstallPC
    <2> QED
      BY <1>2, <2>1, <2>2, GotoOutcome
  <1>6. CASE UninstallFiles(r)
    <2>1. rows[k].state = "uninstalling" /\ k \notin running'
      BY <1>2, <1>6 DEF UninstallFiles, Tie, Stage
    <2>2. CASE Goto(r, "uDone")
      <3>1. Stage("uDone", k)' /\ "uDone" \in PCs
        BY <2>1 DEF Stage, BeforeOrAfter, RefreshPC, PCs, UninstallPC
      <3> QED
        BY <1>2, <2>2, <3>1, GotoOutcome
    <2>3. CASE Update(r, k, "installed", "fs_delete_failed", Return(r), Return(r))
      <3>1. Return(r) /\ rows' = SetState(k, "installed", "fs_delete_failed")
        BY <1>2, <2>1, <2>3 DEF Update, CanSetState, UniqueEnabled
      <3>2. Settled(k)'
        BY <1>2, <2>1, <3>1, Written
      <3> QED
        BY <3>1, <3>2 DEF Outcome
    <2> QED
      BY <1>2, <1>6, <2>2, <2>3 DEF UninstallFiles
  <1>7. CASE UninstallDone(r)
    <2>1. rows[k].state = "uninstalling" /\ k \notin running'
      BY <1>2, <1>7 DEF UninstallDone, Tie, Stage
    <2>2. Return(r) /\ rows' = SetState(k, "uninstalled", "none")
      BY <1>2, <1>7, <2>1 DEF UninstallDone, Update, CanSetState, UniqueEnabled
    <2>3. Settled(k)'
      BY <1>2, <2>1, <2>2, Written
    <2> QED
      BY <2>2, <2>3 DEF Outcome
  <1> QED
    BY <1>3, <1>4, <1>5, <1>6, <1>7

LEMMA RefreshHalf ==
  ASSUME HalfInv, \A v, w \in Versions : v = w, "db" \notin Faults,
         NEW r \in Requests, NEW k \in Key, k[1] = req[r].p, RefreshRead(r) \/ RefreshApply(r)
  PROVE  Outcome(r, k)
  <1>1. req[r].pc \in BeforeOrAfter /\ req[r].pc # "idle" /\ UNCHANGED <<rows, running>>
    BY DEF RefreshRead, RefreshApply, BeforeOrAfter, RefreshPC
  <1>2. TypeOK /\ DbOutcomes(r) = {TRUE} /\ Stage(req[r].pc, k)
    BY <1>1, OneVersion
  <1>3. CASE RefreshRead(r)
    <2>1. req' = [req EXCEPT ![r].pc = "rApply", ![r].list = ListEnabled] /\ UNCHANGED locks
      BY <1>2, <1>3, Zenon DEF RefreshRead
    <2>2. Goes(r, "rApply")
      BY <1>2, <2>1, ReadGoes
    <2> QED
      BY <1>1, <1>2, <2>2, NothingWritten DEF BeforeOrAfter, RefreshPC
  <1>4. CASE RefreshApply(r)
    <2>1. Return(r) \/ Goto(r, "eFind")
      BY <1>4 DEF RefreshApply, AfterRefresh
    <2> QED
      BY <1>1, <1>2, <2>1, NothingWritten DEF BeforeOrAfter
  <1> QED
    BY <1>3, <1>4

\* What is not a step of an operation keeps the versions in order, too.
LEMMA OthersStaged ==
  ASSUME HalfInv, Ticking = FALSE, MaxCrashes = 0, "ctx" \notin Faults, [Next]_vars,
         ~\E r \in Requests : Step(r)
  PROVE  AllStaged'
  <1>1. TypeOK /\ LockDiscipline /\ AllStaged
    BY DEF HalfInv, RegistryInv, ArtifactInv
  <1>2. ASSUME NEW r \in Requests, NEW op, NEW p, NEW v, NEW pc \in Starting, Begin(r, op, p, v, pc)
        PROVE  AllStaged'
    <2>1. /\ p \notin locks /\ locks' = locks \cup {p} /\ UNCHANGED <<rows, running>>
          /\ req'[r].pc = pc /\ req'[r].p = p /\ \A q \in Requests \ {r} : req'[q] = req[q]
      BY <1>1, <1>2, BeginGives
    <2>2. \A k : Settled(k)' <=> Settled(k)
      BY <2>1 DEF Settled
    <2>3. \A k : Settled(k) => Stage(pc, k)'
      BY <2>2 DEF Stage, Starting
    <2>4. ASSUME NEW k \in Key, k[1] \notin locks' PROVE Settled(k)'
      BY <1>1, <2>1, <2>2, <2>4 DEF AllStaged
    <2>5. ASSUME NEW q \in Requests, ~IsIdle(q)', NEW k \in Key, k[1] = req'[q].p
          PROVE  Stage(req[q].pc, k)'
      <3>1. CASE q = r
        BY <1>1, <2>1, <2>3, <2>5, <3>1 DEF AllStaged, Stage
      <3>2. CASE q # r
        BY <1>1, <2>1, <2>2, <2>5, <3>2 DEF AllStaged, Stage
      <3> QED
        BY <3>1, <3>2
    <2> QED
      BY <2>4, <2>5 DEF AllStaged
  <1>3. ASSUME NEW j \in Key, Purge(j) PROVE AllStaged'
    <2>1. /\ rows[j].state = "uninstalled" /\ rows' = [rows EXCEPT ![j] = NoRow]
          /\ running' = running /\ locks' = locks /\ req' = req
      BY <1>3 DEF Purge
    <2>2. \A k \in Key : rows'[k] = IF k = j THEN NoRow ELSE rows[k]
      BY <1>1, <2>1 DEF TypeOK
    <2>3. ASSUME NEW k \in Key PROVE Settled(k) => Settled(k)'
      BY <2>1, <2>2 DEF Settled, NoRow, Transitional
    <2>4. ASSUME NEW k \in Key, NEW q \in Requests, Stage(req[q].pc, k) PROVE Stage(req[q].pc, k)'
      BY <2>1, <2>3, <2>4 DEF Stage
    <2> QED
      BY <1>1, <2>1, <2>3, <2>4 DEF AllStaged
  <1>4. CASE UNCHANGED <<rows, running, targets, locks, req>>
    BY <1>1, <1>4 DEF AllStaged, Settled, Stage
  <1>5. CASE Reconcile
    <2>1. req' = req /\ locks' = locks /\ \A r \in Requests : IsIdle(r)
      BY <1>5 DEF Reconcile, AllIdle
    <2>2. \A k \in Key : Settled(k)
      BY <1>1, <2>1 DEF LockDiscipline, AllStaged
    <2>3. ASSUME NEW k \in Key PROVE Settled(k)'
      <3>1. CASE UNCHANGED <<rows, running>>
        BY <2>2, <3>1 DEF Settled
      <3>2. CASE /\ running' = running \cap EnabledKeys
                 /\ \E S \in SUBSET PendingCleanup :
                       rows' = [i \in Key |->
                          IF i \in S THEN [state |-> "uninstalled", class |-> "none"] ELSE rows[i]]
        <4>1. \/ rows'[k] = rows[k]
              \/ rows[k].state = "installed" /\ rows'[k].state = "uninstalled"
          BY <3>2 DEF PendingCleanup
        <4>2. k \in running' <=> k \in running /\ rows[k].state = "enabled"
          BY <3>2 DEF EnabledKeys
        <4> QED
          BY <2>2, <4>1, <4>2 DEF Settled, Transitional
      <3> QED
        BY <1>5, <3>1, <3>2 DEF Reconcile
    <2> QED
      BY <2>1, <2>3 DEF AllStaged
  <1>6. ~Crash
    BY <1>1 DEF Crash, TypeOK
  <1> QED
    BY <1>2, <1>3, <1>4, <1>5, <1>6, OtherSteps DEF HalfInv

LEMMA HalfNext ==
  ASSUME HalfInv, Ticking = FALSE, MaxCrashes = 0, Faults \cap {"db", "ctx", "stop"} = {},
         \A v, w \in Versions : v = w, [Next]_vars
  PROVE  HalfInv'
  <1>1. RegistryInv'
    BY RegistryNext, NextInv DEF HalfInv, RegistryInv
  <1>2. Undisturbed'
    BY UndisturbedNext DEF HalfInv
  <1>3. ASSUME NEW r \in Requests, Step(r) PROVE AllStaged'
    <2>1. \A k \in Key : k[1] = req[r].p => Outcome(r, k)
      BY <1>3, InstallHalf, EnableHalf, DisableHalf, SwitchHalf, UninstallHalf, RefreshHalf DEF Step
    <2> QED
      BY <1>3, <2>1, StagedLocally
  <1>4. AllStaged'
    BY <1>3, OthersStaged
  <1> QED
    BY <1>1, <1>2, <1>4 DEF HalfInv

\* As long as the supervisor rests, nothing fails on the way back and the
\* process runs, a plugin with one version is never left half-enabled: when its
\* lock is free the version is in a stable state and runs exactly if it is enabled,
\* for any number of plugins and requests, whatever else fails.
THEOREM NothingHalfEnabled ==
  ASSUME Ticking = FALSE, MaxCrashes = 0, Faults \cap {"db", "ctx", "stop"} = {},
         \A v, w \in Versions : v = w
  PROVE  Spec => []NoHalfEnabled
  <1>1. Init => HalfInv
    <2> SUFFICES ASSUME Init PROVE HalfInv
      OBVIOUS
    <2>1. RegistryInv
      BY InitInv DEF Init, RegistryInv, RowsTied, IdleRequest, IdleSup
    <2>2. AllStaged
      BY DEF Init, AllStaged, Settled, NoRow, Transitional, IdleRequest
    <2> QED
      BY <2>1, <2>2, UndisturbedInit DEF HalfInv
  <1>2. HalfInv /\ [Next]_vars => HalfInv'
    BY HalfNext
  <1>3. HalfInv => NoHalfEnabled
    BY DEF HalfInv, AllStaged, Settled, NoHalfEnabled
  <1> QED
    BY <1>1, <1>2, <1>3, PTL DEF Spec

-----------------------------------------------------------------------------
(* The dispatcher. One operation at a time, no failing statement and no     *)
(* client that goes away; the process may restart.                         *)

\* The map that an operation of r leaves to be dispatched with: it follows the
\* registry but between the statement that changes what is enabled and the step
\* that makes up for it.
Synced(r) ==
    /\ req[r].pc = "rApply" => req[r].list = ListEnabled
    /\ req[r].pc = "dHooks" =>
          \A p \in Plugins : ListEnabled[p] = IF p = req[r].p THEN NoVersion ELSE targets[p]
    /\ req[r].pc \notin {"rRead", "rApply", "dHooks"} => targets = ListEnabled

InStep ==
    /\ AllIdle => targets = ListEnabled
    /\ \A r \in Requests : ~IsIdle(r) => Synced(r)

DispatchInv ==
    RegistryInv /\ Undisturbed /\ OneEnabled /\ (boot.phase = "serving" => InStep)

OneAtATime == \A r, q \in Requests : ~IsIdle(r) /\ ~IsIdle(q) => r = q

\* The same versions are enabled afterwards.
SameEnabled == \A k \in Key : rows'[k].state = "enabled" <=> rows[k].state = "enabled"

\* FindEnabled depends on the set of enabled versions only.
AnyOf(S) == IF S = {} THEN NoVersion ELSE CHOOSE v \in S : TRUE

LEMMA FindsAny ==
  ASSUME NEW p
  PROVE  /\ FindEnabled(p) = AnyOf(EnabledVersions(p))
         /\ FindEnabled(p)' = AnyOf(EnabledVersions(p)')
  BY DEF FindEnabled, AnyOf

LEMMA SameFound ==
  ASSUME NEW p \in Plugins,
         \A v \in Versions : rows'[<<p, v>>].state = "enabled" <=> rows[<<p, v>>].state = "enabled"
  PROVE  FindEnabled(p)' = FindEnabled(p)
  <1>1. EnabledVersions(p)' = EnabledVersions(p)
    BY DEF EnabledVersions
  <1> QED
    BY <1>1, FindsAny

LEMMA SameList ==
  ASSUME SameEnabled
  PROVE  ListEnabled' = ListEnabled
  <1>1. \A p \in Plugins : FindEnabled(p)' = FindEnabled(p)
    BY SameFound DEF SameEnabled, Key
  <1> QED
    BY <1>1 DEF ListEnabled

\* A statement that neither finds nor leaves its version enabled.
LEMMA NotEnabledWritten ==
  ASSUME TypeOK, NEW k \in Key, NEW st \in States, NEW cl \in Classes,
         st # "enabled", rows[k].state # "enabled",
         rows' = rows \/ rows' = SetState(k, st, cl)
  PROVE  SameEnabled
  BY SetStateRows DEF SameEnabled

\* The statements that change what is enabled are those of the labels dMark,
\* eCommit and dUndo.
LEMMA StepSameEnabled ==
  ASSUME RegistryInv, Undisturbed, NEW r \in Requests, Step(r),
         ~DisableMark(r), ~EnableCommit(r), ~DisableUndo(r)
  PROVE  SameEnabled
  <1>1. req[r].pc # "idle" /\ req[r].pc \notin UndoPC
    BY StepLocal DEF RegistryInv, ArtifactInv, Undisturbed
  <1>2. /\ TypeOK /\ OperandOK(r) /\ HoldsArtifact(r)
        /\ Tie(req[r].pc, req[r].after, rows[ThisKey(r)].state, rows[CurKey(r)].state)
        /\ req[r].v \in Versions => ThisKey(r) \in Key
        /\ req[r].cur \in Versions => CurKey(r) \in Key
    BY <1>1, TiedLabel, AtLabel DEF RegistryInv
  <1> HIDE DEF ThisKey, CurKey
  <1> USE DEF Update, States, Classes
  <1>3. CASE InstallCreate(r) \/ InstallValidate(r)
    <2>1. ThisKey(r) \in Key /\ rows[ThisKey(r)].state # "enabled"
      BY <1>2, <1>3 DEF InstallCreate, InstallValidate, OperandOK, InstallPC, HoldsArtifact
    <2>2. \E st \in {"installing", "installed", "install_failed"}, cl \in {"none", "other"} :
             rows' = rows \/ rows' = SetState(ThisKey(r), st, cl)
      BY <1>3 DEF InstallCreate, InstallValidate
    <2> QED
      BY <1>2, <2>1, <2>2, NotEnabledWritten
  <1>4. CASE EnableMark(r) \/ EnableStartFails(r) \/ SwitchMigrate(r)
    <2>1. req[r].pc \in {"eMark", "eStart", "sMigrate"}
      BY <1>4 DEF EnableMark, EnableStartFails, SwitchMigrate
    <2>2. ThisKey(r) \in Key /\ rows[ThisKey(r)].state # "enabled"
      BY <1>2, <2>1 DEF OperandOK, EnablePC, SwitchPC, Tie
    <2>3. \E st \in {"enabling", "enable_failed", "installed"}, cl \in {"none", "other"} :
             rows' = rows \/ rows' = SetState(ThisKey(r), st, cl)
      BY <1>4 DEF EnableMark, EnableStartFails, SwitchMigrate
    <2> QED
      BY <1>2, <2>2, <2>3, NotEnabledWritten
  <1>5. CASE DisableDone(r)
    <2>1. CurKey(r) \in Key /\ rows[CurKey(r)].state # "enabled"
      BY <1>2, <1>5 DEF DisableDone, OperandOK, DisablePC, Tie
    <2>2. rows' = rows \/ rows' = SetState(CurKey(r), "installed", "none")
      BY <1>5 DEF DisableDone
    <2> QED
      BY <1>2, <2>1, <2>2, NotEnabledWritten
  <1>6. CASE UninstallMark(r) \/ UninstallStop(r) \/ UninstallFiles(r) \/ UninstallDone(r)
    <2>1. req[r].pc \in {"uMark", "uStop", "uFiles", "uDone"}
      BY <1>6 DEF UninstallMark, UninstallStop, UninstallFiles, UninstallDone
    <2>2. ThisKey(r) \in Key /\ rows[ThisKey(r)].state # "enabled"
      BY <1>2, <2>1 DEF OperandOK, UninstallPC, Tie, StableUninstallState
    <2>3. \E st \in {"uninstalling", "uninstalled", "installed"},
             cl \in {"none", "other", "fs_delete_failed"} :
             rows' = rows \/ rows' = SetState(ThisKey(r), st, cl)
      BY <1>6 DEF UninstallMark, UninstallStop, UninstallFiles, UninstallDone
    <2> QED
      BY <1>2, <2>2, <2>3, NotEnabledWritten
  <1>7. ~EnableUndoMark(r) /\ ~EnableUndoStop(r) /\ ~DisableWarn(r)
    BY <1>1 DEF EnableUndoMark, EnableUndoStop, DisableWarn, UndoPC
  <1>8. CASE rows' = rows
    BY <1>8 DEF SameEnabled
  <1> QED
    BY <1>3, <1>4, <1>5, <1>6, <1>7, <1>8
    DEF Step, InstallFind, InstallFiles, EnableFind, EnableStartOK, DisableFind, DisableHooks,
        DisableStop, SwitchFind, UninstallFind, RefreshRead, RefreshApply

\* The map is written by DisableHooks and RefreshApply only.
LEMMA StepTargets ==
  ASSUME NEW r \in Requests, Step(r)
  PROVE  boot' = boot /\ (targets' = targets \/ DisableHooks(r) \/ RefreshApply(r))
  BY Zenon DEF Step, InstallFind, InstallFiles, InstallCreate, InstallValidate, EnableFind, EnableMark,
     EnableStartOK, EnableStartFails, EnableCommit, EnableUndoStop, EnableUndoMark, DisableFind,
     DisableMark, DisableHooks, DisableStop, DisableUndo, DisableDone, DisableWarn, SwitchFind,
     SwitchMigrate, UninstallFind, UninstallMark, UninstallStop, UninstallFiles, UninstallDone,
     RefreshRead, RefreshApply

\* The labels at which the map need not follow the registry.
LEMMA StepLabels ==
  ASSUME NEW r \in Requests, Step(r), req[r].pc \in {"rRead", "rApply", "dHooks"}
  PROVE  RefreshRead(r) \/ RefreshApply(r) \/ DisableHooks(r)
  BY DEF Step, InstallFind, InstallFiles, InstallCreate, InstallValidate, EnableFind, EnableMark,
     EnableStartOK, EnableStartFails, EnableCommit, EnableUndoStop, EnableUndoMark, DisableFind,
     DisableMark, DisableStop, DisableUndo, DisableDone, DisableWarn, SwitchFind, SwitchMigrate,
     UninstallFind, UninstallMark, UninstallStop, UninstallFiles, UninstallDone

\* What a step of r has to make of the map.
Dispatched(r) ==
    \/ Return(r) /\ targets' = ListEnabled'
    \/ \E pc \in PCs : Goes(r, pc) /\ Synced(r)'

\* Disabling a version leaves its plugin without one.
LEMMA MarkDispatched ==
  ASSUME RegistryInv, Undisturbed, OneEnabled, "db" \notin Faults,
         NEW r \in Requests, DisableMark(r), Synced(r)
  PROVE  Dispatched(r)
  <1>1. req[r].pc = "dMark" /\ targets' = targets
    BY DEF DisableMark
  <1>2. /\ TypeOK /\ OperandOK(r) /\ rows[CurKey(r)].state = "enabled"
        /\ req[r].cur \in Versions /\ CurKey(r) \in Key
    BY <1>1, TiedLabel DEF OperandOK, DisablePC, Tie
  <1>3. rows' = SetState(CurKey(r), "disabling", "none") /\ Goto(r, "dHooks")
    <2>1. DbOutcomes(r) = {TRUE}
      BY NoneFails
    <2> HIDE DEF CurKey
    <2> QED
      BY <1>2, <2>1 DEF DisableMark, Update, CanSetState, UniqueEnabled
  <1>4. Goes(r, "dHooks") /\ "dHooks" \in PCs
    BY <1>2, <1>3, GotoGoes DEF PCs, DisablePC
  <1>5. targets = ListEnabled
    BY <1>1 DEF Synced
  <1>6. /\ rows'[CurKey(r)].state = "disabling"
        /\ \A k \in Key \ {CurKey(r)} : rows'[k] = rows[k]
    <2> HIDE DEF CurKey
    <2> QED
      BY <1>2, <1>3, SetStateRows DEF States, Classes
  <1>7. ASSUME NEW p \in Plugins, p # req[r].p PROVE ListEnabled'[p] = targets[p]
    <2>1. \A v \in Versions : rows'[<<p, v>>] = rows[<<p, v>>]
      BY <1>6, <1>7 DEF Key
    <2>2. FindEnabled(p)' = FindEnabled(p)
      BY <2>1, SameFound
    <2> QED
      BY <1>5, <2>2 DEF ListEnabled
  <1>8. ASSUME NEW p \in Plugins, p = req[r].p PROVE ListEnabled'[p] = NoVersion
    <2>1. ASSUME NEW v \in Versions PROVE rows'[<<p, v>>].state # "enabled"
      <3>1. CASE v = req[r].cur
        BY <1>6, <1>8, <3>1
      <3>2. CASE v # req[r].cur
        <4>1. rows'[<<p, v>>] = rows[<<p, v>>]
          BY <1>6, <1>8, <3>2 DEF Key
        <4> QED
          BY <1>2, <1>8, <3>2, <4>1 DEF OneEnabled, EnabledVersions
      <3> QED
        BY <3>1, <3>2
    <2>2. EnabledVersions(p)' = {}
      BY <2>1 DEF EnabledVersions
    <2> QED
      BY <2>2, FindsAny DEF AnyOf, ListEnabled
  <1>9. Synced(r)'
    <2>1. \A p \in Plugins : ListEnabled'[p] = IF p = req[r].p THEN NoVersion ELSE targets[p]
      BY <1>7, <1>8
    <2> QED
      BY <1>1, <1>4, <2>1 DEF Synced, Goes
  <1> QED
    BY <1>4, <1>9 DEF Dispatched

\* Every step of an operation leaves the map to follow the registry.
LEMMA StepDispatched ==
  ASSUME RegistryInv, Undisturbed, OneEnabled, "db" \notin Faults,
         NEW r \in Requests, Step(r), Synced(r)
  PROVE  Dispatched(r)
  <1>1. TypeOK /\ DbOutcomes(r) = {TRUE} /\ req[r].pc \notin UndoPC /\ targets \in Target
    BY NoneFails DEF RegistryInv, ArtifactInv, TypeOK, Undisturbed
  <1>2. CASE DisableMark(r)
    BY <1>2, MarkDispatched
  <1>3. CASE EnableCommit(r) \/ DisableUndo(r)
    <2>1. targets' = targets /\ req[r].pc \in {"eCommit", "dUndo"}
      BY <1>1, <1>3 DEF EnableCommit, DisableUndo, UndoPC
    <2>2. targets = ListEnabled
      BY <2>1 DEF Synced
    <2>3. (\E after : Refresh(r, after)) \/ (Return(r) /\ rows' = rows)
      BY <1>1, <1>3, <2>1 DEF EnableCommit, DisableUndo, Update
    <2>4. CASE \E after : Refresh(r, after)
      <3>1. Goes(r, "rRead") /\ "rRead" \in PCs
        BY <1>1, <2>4, RefreshGoes DEF PCs, RefreshPC
      <3>2. Synced(r)'
        BY <3>1 DEF Goes, Synced
      <3> QED
        BY <3>1, <3>2 DEF Dispatched
    <2>5. CASE Return(r) /\ rows' = rows
      <3>1. ListEnabled' = ListEnabled
        BY <2>5, SameList DEF SameEnabled
      <3> QED
        BY <2>1, <2>2, <2>5, <3>1 DEF Dispatched
    <2> QED
      BY <2>3, <2>4, <2>5
  <1>4. ASSUME ~DisableMark(r), ~EnableCommit(r), ~DisableUndo(r) PROVE Dispatched(r)
    <2>1. ListEnabled' = ListEnabled
      BY <1>4, SameList, StepSameEnabled
    <2>2. CASE RefreshRead(r)
      <3>1. req' = [req EXCEPT ![r].pc = "rApply", ![r].list = ListEnabled] /\ UNCHANGED locks
        BY <1>1, <2>2, Zenon DEF RefreshRead
      <3>2. Goes(r, "rApply") /\ req'[r].list = ListEnabled /\ "rApply" \in PCs
        BY <1>1, <3>1, ReadGoes DEF PCs, RefreshPC
      <3>3. Synced(r)'
        BY <2>1, <3>2 DEF Goes, Synced
      <3> QED
        BY <3>2, <3>3 DEF Dispatched
    <2>3. ASSUME ~RefreshRead(r), targets' = ListEnabled PROVE Dispatched(r)
      <3>1. ASSUME NEW pc \in PCs \ UndoPC, Goes(r, pc), pc \notin {"dHooks", "rApply"}
            PROVE  Synced(r)'
        BY <2>1, <2>3, <3>1 DEF Goes, Synced
      <3>2. \/ Return(r)
            \/ \E pc \in PCs \ UndoPC : Goes(r, pc) /\ pc \notin {"dHooks", "rApply"}
        BY <1>1, <1>4, <2>3, StepGoes
      <3> QED
        BY <2>1, <2>3, <3>1, <3>2 DEF Dispatched
    <2>4. CASE DisableHooks(r)
      <3>1. req[r].pc = "dHooks" /\ targets' = [targets EXCEPT ![req[r].p] = NoVersion]
        BY <2>4 DEF DisableHooks
      <3>2. \A p \in Plugins : ListEnabled[p] = targets'[p]
        BY <1>1, <3>1 DEF Synced, Target
      <3>3. targets' = [p \in Plugins |-> targets'[p]] /\ ListEnabled = [p \in Plugins |-> ListEnabled[p]]
        BY <1>1, <3>1 DEF Target, ListEnabled
      <3>4. targets' = ListEnabled
        BY <3>2, <3>3
      <3> QED
        BY <2>3, <2>4, <3>1, <3>4 DEF RefreshRead
    <2>5. CASE RefreshApply(r)
      BY <2>3, <2>5 DEF RefreshApply, RefreshRead, Synced
    <2>6. CASE targets' = targets /\ ~RefreshRead(r)
      <3>1. CASE req[r].pc \notin {"rRead", "rApply", "dHooks"}
        BY <2>3, <2>6, <3>1 DEF Synced
      <3>2. CASE req[r].pc \in {"rRead", "rApply", "dHooks"}
        <4>1. RefreshRead(r) \/ RefreshApply(r) \/ DisableHooks(r)
          BY <3>2, StepLabels
        <4> QED
          BY <2>4, <2>5, <2>6, <4>1
      <3> QED
        BY <3>1, <3>2
    <2> QED
      BY <2>2, <2>4, <2>5, <2>6, StepTargets
  <1> QED
    BY <1>2, <1>3, <1>4

\* Operations on one plugin exclude each other, and so do those of one request.
LEMMA LocksSerialize ==
  ASSUME ArtifactInv, (\A p, q \in Plugins : p = q) \/ (\A r, q \in Requests : r = q)
  PROVE  OneAtATime
  <1>1. \A r \in Requests : ~IsIdle(r) => req[r].p \in Plugins
    BY DEF ArtifactInv, OperandsOK, OperandOK
  <1> QED
    BY <1>1 DEF ArtifactInv, LockDiscipline, OneAtATime

\* A step of the only operation.
LEMMA StepInStep ==
  ASSUME RegistryInv, Undisturbed, OneEnabled, OneAtATime, "db" \notin Faults,
         NEW r \in Requests, Step(r), InStep
  PROVE  InStep'
  <1>1. /\ TypeOK /\ ~IsIdle(r) /\ Synced(r) /\ \A q \in Requests \ {r} : req'[q] = req[q]
    BY StepLocal DEF RegistryInv, ArtifactInv, InStep
  <1>2. \A q \in Requests \ {r} : IsIdle(q) /\ IsIdle(q)'
    BY <1>1 DEF OneAtATime
  <1>3. \/ IsIdle(r)' /\ targets' = ListEnabled'
        \/ Synced(r)' /\ (IsIdle(r)' => targets' = ListEnabled')
    <2>1. Dispatched(r)
      BY <1>1, StepDispatched
    <2>2. Synced(r)' /\ IsIdle(r)' => targets' = ListEnabled'
      BY DEF Synced
    <2> QED
      BY <1>1, <2>1, <2>2, TiedReturn DEF Dispatched
  <1> QED
    BY <1>2, <1>3 DEF InStep, AllIdle

\* An operation begins when no other is in flight.
LEMMA BeginInStep ==
  ASSUME TypeOK, LockDiscipline, OperandsOK, locks' \subseteq Plugins, InStep,
         (\A p, q \in Plugins : p = q) \/ (\A r, q \in Requests : r = q),
         NEW r \in Requests, NEW op, NEW p, NEW v, NEW pc \in Starting, Begin(r, op, p, v, pc)
  PROVE  InStep'
  <1>1. /\ req[r].pc = "idle" /\ p \notin locks /\ locks' = locks \cup {p}
        /\ req'[r].pc = pc /\ \A q \in Requests \ {r} : req'[q] = req[q]
        /\ UNCHANGED <<rows, files, running, targets>>
    BY BeginGives
  <1>2. ASSUME NEW q \in Requests, ~IsIdle(q) PROVE FALSE
    <2>1. q # r /\ req[q].p \in locks
      BY <1>1, <1>2 DEF LockDiscipline
    <2>2. req[q].p \in Plugins /\ p \in Plugins
      BY <1>1, <1>2 DEF OperandsOK, OperandOK
    <2> QED
      BY <1>1, <2>1, <2>2
  <1>3. ListEnabled' = ListEnabled /\ targets' = ListEnabled
    BY <1>1, <1>2, SameList DEF SameEnabled, InStep, AllIdle
  <1>4. Synced(r)' /\ ~IsIdle(r)'
    BY <1>1, <1>3 DEF Synced, Starting
  <1> QED
    BY <1>1, <1>2, <1>4 DEF InStep, AllIdle

\* What is not a step of an operation.
LEMMA OthersInStep ==
  ASSUME RegistryInv, OneAtATime, (\A p, q \in Plugins : p = q) \/ (\A r, q \in Requests : r = q),
         Ticking = FALSE, Faults \cap {"db", "ctx"} = {}, [Next]_vars,
         ~\E r \in Requests : Step(r),
         boot.phase = "serving" => InStep
  PROVE  boot'.phase = "serving" => InStep'
  <1>1. TypeOK /\ LockDiscipline /\ OperandsOK /\ locks' \subseteq Plugins
    BY NextInv DEF RegistryInv, ArtifactInv, TypeOK
  <1>2. ASSUME NEW r \in Requests, NEW op, NEW p, NEW v, NEW pc \in Starting, Begin(r, op, p, v, pc),
               InStep
        PROVE  InStep'
    BY <1>1, <1>2, BeginInStep
  <1>3. ASSUME UNCHANGED <<targets, req>>, SameEnabled, InStep PROVE InStep'
    BY <1>3, SameList DEF InStep, AllIdle, Synced
  <1>4. ASSUME NEW k \in Key, Purge(k) PROVE SameEnabled /\ UNCHANGED <<targets, req, boot>>
    BY <1>1, <1>4 DEF Purge, SameEnabled, TypeOK, NoRow
  <1>5. CASE Reconcile
    <2>1. /\ req' = req /\ AllIdle /\ targets' = ListEnabled
          /\ \E S \in SUBSET PendingCleanup :
                rows' = [k \in Key |->
                   IF k \in S THEN [state |-> "uninstalled", class |-> "none"] ELSE rows[k]]
      BY <1>5 DEF Reconcile
    <2>2. SameEnabled
      BY <2>1 DEF SameEnabled, PendingCleanup
    <2>3. ListEnabled' = ListEnabled
      BY <2>2, SameList
    <2> QED
      BY <2>1, <2>3 DEF InStep, AllIdle
  <1>6. CASE Crash
    BY <1>6 DEF Crash
  <1>7. UNCHANGED rows => SameEnabled
    BY DEF SameEnabled
  <1> QED
    BY <1>2, <1>3, <1>4, <1>5, <1>6, <1>7, OtherSteps

\* As long as the supervisor rests and nothing fails that refreshEnabled depends
\* on, operations that come one at a time (of one plugin, or of one client) leave
\* the dispatcher with the versions the registry has as enabled, whatever else
\* fails and however often the process restarts.
THEOREM DispatcherInStep ==
  ASSUME Ticking = FALSE, Faults \cap {"db", "ctx"} = {},
         (\A p, q \in Plugins : p = q) \/ (\A r, q \in Requests : r = q)
  PROVE  Spec => []DispatcherMatchesRegistry
  <1>1. Init => DispatchInv
    <2> SUFFICES ASSUME Init PROVE DispatchInv
      OBVIOUS
    <2>1. RegistryInv
      BY InitInv DEF Init, RegistryInv, RowsTied, IdleRequest, IdleSup
    <2>2. OneEnabled
      BY DEF Init, OneEnabled, EnabledVersions, NoRow, Key
    <2>3. boot.phase # "serving"
      BY DEF Init
    <2> QED
      BY <2>1, <2>2, <2>3, UndisturbedInit DEF DispatchInv
  <1>2. DispatchInv /\ [Next]_vars => DispatchInv'
    <2> SUFFICES ASSUME DispatchInv, [Next]_vars PROVE DispatchInv'
      OBVIOUS
    <2>1. RegistryInv'
      BY RegistryNext, NextInv DEF DispatchInv, RegistryInv
    <2>2. Undisturbed' /\ OneEnabled'
      BY UndisturbedNext, UniqueNext DEF DispatchInv, RegistryInv
    <2>3. OneAtATime
      BY LocksSerialize DEF DispatchInv, RegistryInv
    <2>4. ASSUME NEW r \in Requests, Step(r) PROVE boot'.phase = "serving" => InStep'
      BY <2>3, <2>4, StepInStep, StepTargets DEF DispatchInv
    <2>5. boot'.phase = "serving" => InStep'
      BY <2>3, <2>4, OthersInStep DEF DispatchInv
    <2> QED
      BY <2>1, <2>2, <2>5 DEF DispatchInv
  <1>3. DispatchInv => DispatcherMatchesRegistry
    BY DEF DispatchInv, InStep, DispatcherMatchesRegistry
  <1> QED
    BY <1>1, <1>2, <1>3, PTL DEF Spec

=============================================================================
