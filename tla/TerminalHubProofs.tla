-------------------------- MODULE TerminalHubProofs --------------------------
(***************************************************************************)
(* The two maps of the terminal hub always agree and hold no session whose *)
(* exit was handled: for any number of users, ids, sessions, requests and  *)
(* restarts, as long as no shell ends before Create has registered it.     *)
(* (One that does stays in the maps until it is swept: that is why these   *)
(* theorems have this assumption.)  Whenever shells end, the cap is        *)
(* exceeded only by creations that were under way together, and a running  *)
(* shell is lost from the maps only when its id was used twice.            *)
(***************************************************************************)
EXTENDS TerminalHub, FiniteSetTheorems, TLAPS

\* What the maps hold: sessions under their own id, whose exit is not handled.
Listed ==
    \A id \in Ids : sessions[id] # NoInst =>
        LET i == sessions[id] IN /\ inst[i].id = id
                                 /\ inst[i].registered
                                 /\ inst[i].st # "unused"
                                 /\ inst[i].wait \in {"none", "exit"}

\* What a request is about to register: a running shell of its own.
Creating ==
    \A r \in Requests :
        /\ req[r].pc # "idle" => req[r].id \in Ids
        /\ req[r].pc = "register" =>
             /\ req[r].i \in Insts
             /\ inst[req[r].i].id = req[r].id
             /\ inst[req[r].i].st = "alive"
             /\ inst[req[r].i].wait = "none"
             /\ ~inst[req[r].i].registered
             /\ \A q \in Requests : req[q].pc = "register" /\ req[q].i = req[r].i => q = r

\* A session that was started has an id; only such a one ends or prints.
Started ==
    \A i \in Insts :
        /\ inst[i].st # "unused" => inst[i].id \in Ids
        /\ inst[i].st = "unused" => inst[i].wait = "none" /\ ~inst[i].hand /\ ~inst[i].registered

\* The sweeper is about to unregister an id.
SweepsAnId == sweep.pc = "killed" => sweep.id \in Ids

\* The inductive invariant.
HubInv == TypeOK /\ RegistryConsistent /\ Listed /\ Creating /\ Started /\ SweepsAnId

-----------------------------------------------------------------------------

LEMMA ListedIsAlive == Listed => RegisteredIsAlive
  BY DEF Listed, RegisteredIsAlive

\* Deleting an id from both maps, whatever is registered under it.
LEMMA UnregisterKeeps ==
  ASSUME TypeOK, RegistryConsistent, Listed, NEW id \in Ids, Unregister(id)
  PROVE  /\ sessions' \in [Ids -> Insts \cup {NoInst}]
         /\ byUser' \in [Users -> SUBSET (Ids \X Insts)]
         /\ sessions'[id] = NoInst
         /\ \A x \in Ids \ {id} : sessions'[x] = sessions[x]
         /\ RegistryConsistent'
  <1>1. sessions' = [sessions EXCEPT ![id] = NoInst] /\ sessions \in [Ids -> Insts \cup {NoInst}]
    BY DEF Unregister, TypeOK
  <1>2. byUser \in [Users -> SUBSET (Ids \X Insts)]
    BY DEF TypeOK
  <1>3. sessions' \in [Ids -> Insts \cup {NoInst}] /\ sessions'[id] = NoInst /\ \A x \in Ids \ {id} : sessions'[x] = sessions[x]
    BY <1>1
  <1>4. CASE sessions[id] = NoInst
    <2>1. sessions' = sessions /\ byUser' = byUser
      BY <1>1, <1>4 DEF Unregister
    <2> QED
      BY <1>1, <1>2, <1>3, <2>1 DEF RegistryConsistent
  <1>5. CASE sessions[id] # NoInst
    <2> DEFINE owner == OwnerOf[id]
    <2>1. owner \in Users /\ UserOf(sessions[id]) = owner
      BY <1>5, OwnerAssumption DEF Listed, UserOf
    <2>2. byUser' = [byUser EXCEPT ![owner] = byUser[owner] \ {<<id, sessions[id]>>}]
      BY <1>5, <2>1 DEF Unregister
    <2> HIDE DEF owner
    <2>3. byUser' \in [Users -> SUBSET (Ids \X Insts)]
      BY <1>2, <2>1, <2>2
    <2>4. ASSUME NEW u \in Users
          PROVE  byUser'[u] = {<<x, sessions'[x]>> : x \in {y \in Ids : sessions'[y] # NoInst /\ OwnerOf[y] = u}}
      <3>1. byUser[u] = {<<x, sessions[x]>> : x \in {y \in Ids : sessions[y] # NoInst /\ OwnerOf[y] = u}}
        BY DEF RegistryConsistent
      <3>2. CASE u = owner
        <4>1. byUser'[u] = byUser[u] \ {<<id, sessions[id]>>}
          BY <1>2, <2>1, <2>2, <3>2
        <4>2. byUser[u] \ {<<id, sessions[id]>>} =
                {<<x, sessions[x]>> : x \in {y \in Ids \ {id} : sessions[y] # NoInst /\ OwnerOf[y] = u}}
          BY <3>1
        <4> QED
          BY <1>3, <4>1, <4>2
      <3>3. CASE u # owner
        <4>1. byUser'[u] = byUser[u] /\ OwnerOf[id] # u
          BY <1>2, <2>1, <2>2, <3>3 DEF owner
        <4> QED
          BY <1>3, <3>1, <4>1
      <3> QED
        BY <3>2, <3>3
    <2>5. RegistryConsistent'
      BY <2>4 DEF RegistryConsistent
    <2> QED
      BY <1>3, <2>3, <2>5
  <1> QED
    BY <1>4, <1>5

\* Adding a session under its id, over whatever was there.
LEMMA RegisterKeeps ==
  ASSUME TypeOK, RegistryConsistent, NEW id \in Ids, NEW i \in Insts,
         sessions' = [sessions EXCEPT ![id] = i],
         byUser' = [byUser EXCEPT ![OwnerOf[id]] = {e \in @ : e[1] # id} \cup {<<id, i>>}]
  PROVE  /\ sessions' \in [Ids -> Insts \cup {NoInst}]
         /\ byUser' \in [Users -> SUBSET (Ids \X Insts)]
         /\ sessions'[id] = i
         /\ \A x \in Ids \ {id} : sessions'[x] = sessions[x]
         /\ RegistryConsistent'
  <1> DEFINE owner == OwnerOf[id]
  <1>1. sessions \in [Ids -> Insts \cup {NoInst}] /\ byUser \in [Users -> SUBSET (Ids \X Insts)]
    BY DEF TypeOK
  <1>2. sessions' \in [Ids -> Insts \cup {NoInst}] /\ sessions'[id] = i /\ \A x \in Ids \ {id} : sessions'[x] = sessions[x]
    BY <1>1
  <1>3. owner \in Users /\ i # NoInst
    BY OwnerAssumption, InstAssumption
  <1>4. byUser' = [byUser EXCEPT ![owner] = {e \in byUser[owner] : e[1] # id} \cup {<<id, i>>}]
    OBVIOUS
  <1> HIDE DEF owner
  <1>5. byUser' \in [Users -> SUBSET (Ids \X Insts)]
    <2>1. byUser[owner] \in SUBSET (Ids \X Insts) /\ <<id, i>> \in Ids \X Insts
      BY <1>1, <1>3
    <2>2. {e \in byUser[owner] : e[1] # id} \cup {<<id, i>>} \in SUBSET (Ids \X Insts)
      BY <2>1
    <2> QED
      BY <1>1, <1>3, <1>4, <2>2
  <1>6. ASSUME NEW u \in Users
        PROVE  byUser'[u] = {<<x, sessions'[x]>> : x \in {y \in Ids : sessions'[y] # NoInst /\ OwnerOf[y] = u}}
    <2>1. byUser[u] = {<<x, sessions[x]>> : x \in {y \in Ids : sessions[y] # NoInst /\ OwnerOf[y] = u}}
      BY DEF RegistryConsistent
    <2>2. CASE u = owner
      <3>1. byUser'[u] = {e \in byUser[u] : e[1] # id} \cup {<<id, i>>}
        BY <1>1, <1>3, <1>4, <2>2
      <3>2. {e \in byUser[u] : e[1] # id} =
              {<<x, sessions[x]>> : x \in {y \in Ids \ {id} : sessions[y] # NoInst /\ OwnerOf[y] = u}}
        BY <2>1
      <3>3. {y \in Ids : sessions'[y] # NoInst /\ OwnerOf[y] = u} =
              {y \in Ids \ {id} : sessions[y] # NoInst /\ OwnerOf[y] = u} \cup {id}
        BY <1>2, <1>3, <2>2 DEF owner
      <3> QED
        BY <1>2, <3>1, <3>2, <3>3
    <2>3. CASE u # owner
      <3>1. byUser'[u] = byUser[u] /\ OwnerOf[id] # u
        BY <1>1, <1>3, <1>4, <2>3 DEF owner
      <3> QED
        BY <1>2, <2>1, <3>1
    <2> QED
      BY <2>2, <2>3
  <1> QED
    BY <1>2, <1>5, <1>6 DEF RegistryConsistent
-----------------------------------------------------------------------------
(* What a session does, short of leaving the maps.                         *)

\* Flags change, or a registered session ends: what is listed stays listed.
LEMMA SessionStep ==
  ASSUME HubInv,
         inst' \in [Insts -> Inst],
         \A j \in Insts :
            /\ inst'[j].id = inst[j].id /\ inst'[j].registered = inst[j].registered
            /\ (inst'[j].st = "unused") = (inst[j].st = "unused")
            /\ inst'[j].hand => inst'[j].st # "unused"
            /\ \/ inst'[j].st = inst[j].st /\ inst'[j].wait = inst[j].wait
               \/ inst[j].registered /\ inst'[j].wait \in {"none", "exit"},
         UNCHANGED <<sessions, byUser, restarts>>,
         dumps' \subseteq Ids,
         req' \in [Requests -> [pc : RequestPC, id : Ids \cup {"none"}, i : Insts \cup {NoInst}]],
         \A x \in Requests : req'[x] = req[x] \/ (req'[x].pc = "killed" /\ req'[x].id \in Ids),
         sweep' \in [pc : {"idle", "next", "killed"}, ids : SUBSET Ids, id : Ids \cup {"none"}],
         SweepsAnId'
  PROVE  HubInv'
  <1>1. TypeOK /\ RegistryConsistent /\ Listed /\ Creating /\ Started
    BY DEF HubInv
  <1>2. TypeOK'
    BY <1>1 DEF TypeOK
  <1>3. RegistryConsistent'
    BY <1>1 DEF RegistryConsistent
  <1>4. Listed'
    <2>1. \A id \in Ids : sessions[id] # NoInst => sessions[id] \in Insts
      BY <1>1 DEF TypeOK
    <2> QED
      BY <1>1, <2>1 DEF Listed
  <1>5. Creating'
    BY <1>1 DEF Creating
  <1>6. Started'
    BY <1>1 DEF Started
  <1> QED
    BY <1>2, <1>3, <1>4, <1>5, <1>6 DEF HubInv

\* Kill of a listed session.
LEMMA KillStep ==
  ASSUME HubInv, NEW id \in Ids, sessions[id] # NoInst, KillInst(sessions[id])
  PROVE  /\ inst' \in [Insts -> Inst]
         /\ \A j \in Insts :
              /\ inst'[j].id = inst[j].id /\ inst'[j].registered = inst[j].registered
              /\ (inst'[j].st = "unused") = (inst[j].st = "unused")
              /\ inst'[j].hand => inst'[j].st # "unused"
              /\ \/ inst'[j].st = inst[j].st /\ inst'[j].wait = inst[j].wait
                 \/ inst[j].registered /\ inst'[j].wait \in {"none", "exit"}
         /\ dumps' \subseteq Ids
  <1> DEFINE i == sessions[id]
             wait == IF inst[i].st = "alive" THEN "exit" ELSE inst[i].wait
             dead == [inst[i] EXCEPT !.closed = TRUE, !.st = "dead", !.wait = wait]
  <1>1. /\ inst \in [Insts -> Inst] /\ dumps \subseteq Ids /\ i \in Insts
        /\ inst[i].registered /\ inst[i].st # "unused" /\ inst[i].wait \in {"none", "exit"}
        /\ \A j \in Insts : inst[j].hand => inst[j].st # "unused"
    BY DEF HubInv, TypeOK, Listed, Started
  <1>2. CASE inst[i].closed
    <2>1. inst' = inst /\ dumps' = dumps
      BY <1>2 DEF KillInst
    <2> QED
      BY <1>1, <2>1
  <1>3. CASE ~inst[i].closed
    <2>1. inst' = [inst EXCEPT ![i] = dead] /\ dumps' \subseteq dumps
      BY <1>3 DEF KillInst
    <2>2. /\ dead \in Inst /\ dead.id = inst[i].id /\ dead.registered = inst[i].registered
          /\ dead.st = "dead" /\ dead.wait \in {"none", "exit"}
      <3>1. wait \in {"none", "exit"}
        BY <1>1
      <3> HIDE DEF wait
      <3>2. inst[i] \in Inst /\ i \in Insts
        BY <1>1
      <3> HIDE DEF i
      <3> QED
        BY <3>1, <3>2 DEF Inst
    <2> HIDE DEF dead
    <2>3. /\ inst' \in [Insts -> Inst] /\ inst'[i] = dead
          /\ \A j \in Insts \ {i} : inst'[j] = inst[j]
      BY <1>1, <2>1, <2>2
    <2> HIDE DEF i
    <2> QED
      BY <1>1, <2>1, <2>2, <2>3
  <1> QED
    BY <1>2, <1>3

\* A session changes one of its records.
LEMMA EnvironmentStep ==
  ASSUME HubInv, "early" \notin Events, NEW i \in Insts, Environment(i) \/ AppendDump(i)
  PROVE  HubInv'
  <1>1. /\ inst \in [Insts -> Inst] /\ inst[i] \in Inst /\ dumps \subseteq Ids
        /\ \A j \in Insts : inst[j].hand => inst[j].st # "unused" /\ inst[j].id \in Ids
    BY DEF HubInv, TypeOK, Started
  <1>2. UNCHANGED <<sessions, byUser, req, sweep, restarts>>
    BY DEF Environment, AppendDump, ShellExits, Output, WriterLeaves, Input, Age
  <1>3. PICK rec \in Inst :
          /\ inst' = [inst EXCEPT ![i] = rec]
          /\ rec.id = inst[i].id /\ rec.registered = inst[i].registered
          /\ (rec.st = "unused") = (inst[i].st = "unused")
          /\ rec.hand => rec.st # "unused"
          /\ \/ rec.st = inst[i].st /\ rec.wait = inst[i].wait
             \/ inst[i].registered /\ rec.wait \in {"none", "exit"}
    <2>1. CASE ShellExits(i)
      <3> DEFINE rec == [inst[i] EXCEPT !.st = "dead", !.wait = "exit"]
      <3>1. inst' = [inst EXCEPT ![i] = rec] /\ inst[i].registered /\ inst[i].st = "alive"
        BY <2>1 DEF ShellExits
      <3>2. rec \in Inst /\ rec.id = inst[i].id /\ rec.registered = inst[i].registered /\ rec.st = "dead" /\ rec.wait = "exit"
        BY <1>1 DEF Inst
      <3> HIDE DEF rec
      <3> QED
        BY <3>1, <3>2
    <2>2. CASE Output(i)
      <3> DEFINE rec == [inst[i] EXCEPT !.hand = TRUE]
      <3>1. inst' = [inst EXCEPT ![i] = rec] /\ inst[i].st = "alive"
        BY <2>2 DEF Output
      <3>2. rec \in Inst /\ rec.id = inst[i].id /\ rec.registered = inst[i].registered /\ rec.st = inst[i].st /\ rec.wait = inst[i].wait
        BY <1>1 DEF Inst
      <3> HIDE DEF rec
      <3> QED
        BY <3>1, <3>2
    <2>3. CASE AppendDump(i)
      <3> DEFINE rec == [inst[i] EXCEPT !.hand = FALSE]
      <3>1. inst' = [inst EXCEPT ![i] = rec]
        BY <2>3 DEF AppendDump
      <3>2. rec \in Inst /\ rec.id = inst[i].id /\ rec.registered = inst[i].registered /\ rec.st = inst[i].st /\ rec.wait = inst[i].wait /\ ~rec.hand
        BY <1>1 DEF Inst
      <3> HIDE DEF rec
      <3> QED
        BY <3>1, <3>2
    <2>4. CASE WriterLeaves(i) \/ Input(i) \/ Age(i)
      <3>1. PICK f \in {"writer", "inputOld", "attachOld"}, b \in BOOLEAN : inst' = [inst EXCEPT ![i] = [inst[i] EXCEPT ![f] = b]]
        BY <2>4 DEF WriterLeaves, Input, Age
      <3> DEFINE rec == [inst[i] EXCEPT ![f] = b]
      <3>2. /\ rec \in Inst /\ rec.id = inst[i].id /\ rec.registered = inst[i].registered /\ rec.st = inst[i].st
            /\ rec.wait = inst[i].wait /\ rec.hand = inst[i].hand
        BY <1>1 DEF Inst
      <3> HIDE DEF rec
      <3> QED
        BY <1>1, <3>1, <3>2 DEF rec
    <2> QED
      BY <2>1, <2>2, <2>3, <2>4 DEF Environment
  <1>4. /\ inst' \in [Insts -> Inst] /\ inst'[i] = rec
        /\ \A j \in Insts \ {i} : inst'[j] = inst[j]
    BY <1>1, <1>3
  <1>5. dumps' \subseteq Ids
    BY <1>1 DEF Environment, AppendDump, ShellExits, Output, WriterLeaves, Input, Age
  <1>6. /\ SweepsAnId' /\ sweep' \in [pc : {"idle", "next", "killed"}, ids : SUBSET Ids, id : Ids \cup {"none"}]
        /\ req' \in [Requests -> [pc : RequestPC, id : Ids \cup {"none"}, i : Insts \cup {NoInst}]]
        /\ \A x \in Requests : req'[x] = req[x]
    BY <1>2 DEF HubInv, TypeOK, SweepsAnId
  <1>7. \A j \in Insts :
            /\ inst'[j].id = inst[j].id /\ inst'[j].registered = inst[j].registered
            /\ (inst'[j].st = "unused") = (inst[j].st = "unused")
            /\ inst'[j].hand => inst'[j].st # "unused"
            /\ \/ inst'[j].st = inst[j].st /\ inst'[j].wait = inst[j].wait
               \/ inst[j].registered /\ inst'[j].wait \in {"none", "exit"}
    BY <1>1, <1>3, <1>4
  <1> QED
    BY <1>2, <1>4, <1>5, <1>6, <1>7, SessionStep

-----------------------------------------------------------------------------
(* Requests.                                                               *)

\* A request moves on and touches no session.
LEMMA RequestMoves ==
  ASSUME HubInv, NEW r \in Requests,
         NEW q \in [pc : RequestPC \ {"register"}, id : Ids \cup {"none"}, i : Insts \cup {NoInst}],
         q.pc # "idle" => q.id \in Ids,
         req' = [req EXCEPT ![r] = q],
         UNCHANGED <<sessions, byUser, inst, dumps, sweep, restarts>>
  PROVE  HubInv'
  <1>1. TypeOK /\ RegistryConsistent /\ Listed /\ Creating /\ Started /\ SweepsAnId
    BY DEF HubInv
  <1>2. /\ req' \in [Requests -> [pc : RequestPC, id : Ids \cup {"none"}, i : Insts \cup {NoInst}]]
        /\ req'[r] = q
        /\ \A x \in Requests \ {r} : req'[x] = req[x]
    BY <1>1 DEF TypeOK
  <1>3. Creating'
    BY <1>1, <1>2 DEF Creating
  <1>4. TypeOK' /\ RegistryConsistent' /\ Listed' /\ Started' /\ SweepsAnId'
    BY <1>1, <1>2 DEF TypeOK, RegistryConsistent, Listed, Started, SweepsAnId
  <1> QED
    BY <1>3, <1>4 DEF HubInv

LEMMA SpawnStep ==
  ASSUME HubInv, NEW r \in Requests, NEW i \in Insts, Spawn(r, i)
  PROVE  HubInv'
  <1>1. TypeOK /\ RegistryConsistent /\ Listed /\ Creating /\ Started /\ SweepsAnId
    BY DEF HubInv
  <1> DEFINE born == [inst[i] EXCEPT !.st = "alive", !.id = req[r].id]
             q == [req[r] EXCEPT !.pc = "register", !.i = i]
  <1>2. /\ req[r].pc = "spawn" /\ inst[i].st = "unused"
        /\ inst' = [inst EXCEPT ![i] = born] /\ req' = [req EXCEPT ![r] = q]
        /\ UNCHANGED <<sessions, byUser, dumps, sweep, restarts>>
    BY DEF Spawn
  <1>3. /\ born \in Inst /\ born.st = "alive" /\ born.id = req[r].id /\ born.id \in Ids
        /\ born.wait = "none" /\ ~born.registered
    <2>1. /\ inst[i] \in Inst /\ req[r].id \in Ids
          /\ inst[i].wait = "none" /\ ~inst[i].hand /\ ~inst[i].registered
      BY <1>1, <1>2 DEF TypeOK, Creating, Started
    <2> QED
      BY <2>1 DEF Inst
  <1>4. q \in [pc : RequestPC, id : Ids \cup {"none"}, i : Insts \cup {NoInst}] /\ q.pc = "register" /\ q.i = i /\ q.id = req[r].id
    BY <1>1 DEF TypeOK, RequestPC
  <1> HIDE DEF born, q
  <1>5. /\ inst' \in [Insts -> Inst] /\ inst'[i] = born /\ \A j \in Insts \ {i} : inst'[j] = inst[j]
        /\ req' \in [Requests -> [pc : RequestPC, id : Ids \cup {"none"}, i : Insts \cup {NoInst}]]
        /\ req'[r] = q /\ \A x \in Requests \ {r} : req'[x] = req[x]
    BY <1>1, <1>2, <1>3, <1>4 DEF TypeOK
  <1>6. TypeOK' /\ RegistryConsistent' /\ SweepsAnId'
    BY <1>1, <1>2, <1>5 DEF TypeOK, RegistryConsistent, SweepsAnId
  <1>7. Listed'
    <2>1. \A id \in Ids : sessions[id] # NoInst => sessions[id] \in Insts \ {i}
      BY <1>1, <1>2 DEF TypeOK, Listed
    <2> QED
      BY <1>1, <1>2, <1>5, <2>1 DEF Listed
  <1>8. Creating'
    <2>1. \A x \in Requests : req[x].pc = "register" => req[x].i \in Insts \ {i}
      BY <1>1, <1>2 DEF Creating
    <2>2. ASSUME NEW x \in Requests \ {r}
          PROVE  /\ req'[x].pc # "idle" => req'[x].id \in Ids
                 /\ req'[x].pc = "register" =>
                      /\ req'[x].i \in Insts
                      /\ inst'[req'[x].i].id = req'[x].id
                      /\ inst'[req'[x].i].st = "alive"
                      /\ inst'[req'[x].i].wait = "none"
                      /\ ~inst'[req'[x].i].registered
                      /\ \A y \in Requests : req'[y].pc = "register" /\ req'[y].i = req'[x].i => y = x
      BY <1>1, <1>4, <1>5, <2>1 DEF Creating
    <2>3. /\ req'[r].id \in Ids /\ req'[r].i = i
          /\ inst'[i].id = req'[r].id /\ inst'[i].st = "alive" /\ inst'[i].wait = "none" /\ ~inst'[i].registered
          /\ \A y \in Requests : req'[y].pc = "register" /\ req'[y].i = i => y = r
      BY <1>3, <1>4, <1>5, <2>1
    <2> QED
      BY <2>2, <2>3 DEF Creating
  <1>9. Started'
    BY <1>1, <1>3, <1>5 DEF Started
  <1> QED
    BY <1>6, <1>7, <1>8, <1>9 DEF HubInv

LEMMA RegisterStep ==
  ASSUME HubInv, NEW r \in Requests, Register(r)
  PROVE  HubInv'
  <1>1. TypeOK /\ RegistryConsistent /\ Listed /\ Creating /\ Started /\ SweepsAnId
    BY DEF HubInv
  <1> DEFINE id == req[r].id
             i == req[r].i
             known == [inst[i] EXCEPT !.registered = TRUE, !.writer = TRUE]
  <1>2. /\ id \in Ids /\ i \in Insts
        /\ inst[i].id = id /\ inst[i].st = "alive" /\ inst[i].wait = "none" /\ ~inst[i].registered
        /\ \A x \in Requests \ {r} : req[x].pc = "register" => req[x].i # i
    BY <1>1 DEF Register, Creating
  <1>3. /\ sessions' = [sessions EXCEPT ![id] = i]
        /\ byUser' = [byUser EXCEPT ![OwnerOf[id]] = {e \in @ : e[1] # id} \cup {<<id, i>>}]
        /\ inst' = [inst EXCEPT ![i] = known]
        /\ req' = [req EXCEPT ![r] = Idle]
        /\ UNCHANGED <<dumps, sweep, restarts>>
    BY DEF Register
  <1>4. /\ known \in Inst /\ known.id = id /\ known.st = "alive" /\ known.wait = "none" /\ known.registered
        /\ known.hand = inst[i].hand
    <2>1. inst[i] \in Inst
      BY <1>1, <1>2 DEF TypeOK
    <2> QED
      BY <1>2, <2>1 DEF Inst
  <1>5. Idle \in [pc : RequestPC, id : Ids \cup {"none"}, i : Insts \cup {NoInst}] /\ Idle.pc = "idle"
    BY DEF Idle, RequestPC
  <1> HIDE DEF id, i, known
  <1>6. /\ inst' \in [Insts -> Inst] /\ inst'[i] = known /\ \A j \in Insts \ {i} : inst'[j] = inst[j]
        /\ req' \in [Requests -> [pc : RequestPC, id : Ids \cup {"none"}, i : Insts \cup {NoInst}]]
        /\ req'[r] = Idle /\ \A x \in Requests \ {r} : req'[x] = req[x]
    BY <1>1, <1>2, <1>3, <1>4, <1>5 DEF TypeOK
  <1>7. /\ sessions' \in [Ids -> Insts \cup {NoInst}]
        /\ byUser' \in [Users -> SUBSET (Ids \X Insts)]
        /\ sessions'[id] = i
        /\ \A x \in Ids \ {id} : sessions'[x] = sessions[x]
        /\ RegistryConsistent'
    BY <1>1, <1>2, <1>3, RegisterKeeps
  <1>8. TypeOK' /\ SweepsAnId'
    BY <1>1, <1>3, <1>6, <1>7 DEF TypeOK, SweepsAnId
  <1>9. Listed'
    <2>1. \A x \in Ids \ {id} : sessions[x] # NoInst => sessions[x] \in Insts \ {i}
      BY <1>1, <1>2 DEF TypeOK, Listed
    <2>2. \A x \in Ids \ {id} : sessions'[x] # NoInst =>
            /\ inst'[sessions'[x]].id = x /\ inst'[sessions'[x]].registered
            /\ inst'[sessions'[x]].st # "unused" /\ inst'[sessions'[x]].wait \in {"none", "exit"}
      BY <1>1, <1>6, <1>7, <2>1 DEF Listed
    <2> QED
      BY <1>2, <1>4, <1>6, <1>7, <2>2 DEF Listed
  <1>10. Creating'
    BY <1>1, <1>2, <1>5, <1>6 DEF Creating
  <1>11. Started'
    BY <1>1, <1>2, <1>4, <1>6 DEF Started
  <1> QED
    BY <1>7, <1>8, <1>9, <1>10, <1>11 DEF HubInv

\* An id leaves the maps at the end of a kill.
LEMMA UnregisterStep ==
  ASSUME HubInv, NEW id \in Ids, Unregister(id), UNCHANGED inst,
         TypeOK', Creating', SweepsAnId'
  PROVE  HubInv'
  <1>1. TypeOK /\ RegistryConsistent /\ Listed /\ Started
    BY DEF HubInv
  <1>2. sessions'[id] = NoInst /\ (\A x \in Ids \ {id} : sessions'[x] = sessions[x]) /\ RegistryConsistent'
    BY <1>1, UnregisterKeeps
  <1>3. Listed'
    BY <1>1, <1>2 DEF Listed
  <1>4. Started'
    BY <1>1 DEF Started
  <1> QED
    BY <1>2, <1>3, <1>4 DEF HubInv

LEMMA RequestStep ==
  ASSUME HubInv, "early" \notin Events, NEW r \in Requests, Call(r) \/ Step(r)
  PROVE  HubInv'
  <1>1. TypeOK /\ RegistryConsistent /\ Listed /\ Creating /\ Started /\ SweepsAnId
    BY DEF HubInv
  <1>2. ASSUME NEW id \in Ids, AttachExisting(r, id) PROVE HubInv'
    <2> DEFINE i == sessions[id]
               rec == [inst[i] EXCEPT !.writer = TRUE, !.attachOld = FALSE]
    <2>1. i \in Insts /\ inst' = [inst EXCEPT ![i] = rec] /\ UNCHANGED <<sessions, byUser, dumps, req, sweep, restarts>>
      BY <1>1, <1>2 DEF AttachExisting, TypeOK
    <2>2. /\ rec \in Inst /\ rec.id = inst[i].id /\ rec.registered = inst[i].registered
          /\ rec.st = inst[i].st /\ rec.wait = inst[i].wait /\ rec.hand = inst[i].hand
      <3>1. inst[i] \in Inst
        BY <1>1, <2>1 DEF TypeOK
      <3> QED
        BY <3>1 DEF Inst
    <2> HIDE DEF i, rec
    <2>3. inst' \in [Insts -> Inst] /\ inst'[i] = rec /\ \A j \in Insts \ {i} : inst'[j] = inst[j]
      BY <1>1, <2>1, <2>2 DEF TypeOK
    <2>4. \A j \in Insts :
            /\ inst'[j].id = inst[j].id /\ inst'[j].registered = inst[j].registered
            /\ (inst'[j].st = "unused") = (inst[j].st = "unused")
            /\ inst'[j].hand => inst'[j].st # "unused"
            /\ \/ inst'[j].st = inst[j].st /\ inst'[j].wait = inst[j].wait
               \/ inst[j].registered /\ inst'[j].wait \in {"none", "exit"}
      BY <1>1, <2>2, <2>3 DEF Started
    <2>5. /\ dumps' \subseteq Ids /\ SweepsAnId'
          /\ sweep' \in [pc : {"idle", "next", "killed"}, ids : SUBSET Ids, id : Ids \cup {"none"}]
          /\ req' \in [Requests -> [pc : RequestPC, id : Ids \cup {"none"}, i : Insts \cup {NoInst}]]
          /\ \A x \in Requests : req'[x] = req[x]
      BY <1>1, <2>1 DEF TypeOK, SweepsAnId
    <2> QED
      BY <2>1, <2>3, <2>4, <2>5, SessionStep
  <1>3. ASSUME NEW id \in Ids, AttachMissing(r, id) PROVE HubInv'
    <2> DEFINE q == [pc |-> "cap", id |-> id, i |-> NoInst]
    <2>1. /\ q \in [pc : RequestPC \ {"register"}, id : Ids \cup {"none"}, i : Insts \cup {NoInst}] /\ q.id \in Ids
          /\ req' = [req EXCEPT ![r] = q] /\ UNCHANGED <<sessions, byUser, inst, dumps, sweep, restarts>>
      BY <1>3 DEF AttachMissing, RequestPC
    <2> HIDE DEF q
    <2> QED
      BY <2>1, RequestMoves
  <1>4. CASE CheckCap(r) \/ SpawnFails(r)
    <2>1. PICK q \in {Idle, [req[r] EXCEPT !.pc = "spawn"]} :
            req' = [req EXCEPT ![r] = q] /\ UNCHANGED <<sessions, byUser, inst, dumps, sweep, restarts>>
      BY <1>4 DEF CheckCap, SpawnFails
    <2>2. req[r].pc # "idle" /\ req[r] \in [pc : RequestPC, id : Ids \cup {"none"}, i : Insts \cup {NoInst}]
      BY <1>1, <1>4 DEF CheckCap, SpawnFails, TypeOK
    <2>3. /\ q \in [pc : RequestPC \ {"register"}, id : Ids \cup {"none"}, i : Insts \cup {NoInst}]
          /\ q.pc # "idle" => q.id \in Ids
      BY <1>1, <2>2 DEF Idle, RequestPC, Creating
    <2> QED
      BY <2>1, <2>3, RequestMoves
  <1>5. ASSUME NEW id \in Ids, KillCall(r, id) PROVE HubInv'
    <2> DEFINE q == [Idle EXCEPT !.pc = "killed", !.id = id]
    <2>1. /\ sessions[id] # NoInst /\ KillInst(sessions[id]) /\ req' = [req EXCEPT ![r] = q]
          /\ UNCHANGED <<sessions, byUser, sweep, restarts>>
      BY <1>5 DEF KillCall
    <2>2. q \in [pc : RequestPC, id : Ids \cup {"none"}, i : Insts \cup {NoInst}] /\ q.pc = "killed" /\ q.id \in Ids
      BY DEF Idle, RequestPC
    <2> HIDE DEF q
    <2>3. /\ req' \in [Requests -> [pc : RequestPC, id : Ids \cup {"none"}, i : Insts \cup {NoInst}]]
          /\ \A x \in Requests : req'[x] = req[x] \/ (req'[x].pc = "killed" /\ req'[x].id \in Ids)
          /\ SweepsAnId' /\ sweep' \in [pc : {"idle", "next", "killed"}, ids : SUBSET Ids, id : Ids \cup {"none"}]
      BY <1>1, <2>1, <2>2 DEF TypeOK, SweepsAnId
    <2> QED
      BY <2>1, <2>3, KillStep, SessionStep
  <1>6. CASE KillDone(r)
    <2>1. /\ req[r].id \in Ids /\ Unregister(req[r].id) /\ req' = [req EXCEPT ![r] = Idle]
          /\ UNCHANGED <<inst, dumps, sweep, restarts>>
      BY <1>1, <1>6 DEF KillDone, Creating
    <2>2. Idle \in [pc : RequestPC, id : Ids \cup {"none"}, i : Insts \cup {NoInst}] /\ Idle.pc = "idle"
      BY DEF Idle, RequestPC
    <2>3. /\ req' \in [Requests -> [pc : RequestPC, id : Ids \cup {"none"}, i : Insts \cup {NoInst}]]
          /\ req'[r].pc = "idle" /\ \A x \in Requests \ {r} : req'[x] = req[x]
      BY <1>1, <2>1, <2>2 DEF TypeOK
    <2>4. TypeOK'
      BY <1>1, <2>1, <2>3, UnregisterKeeps DEF TypeOK
    <2>5. Creating' /\ SweepsAnId'
      BY <1>1, <2>1, <2>3 DEF Creating, SweepsAnId
    <2> QED
      BY <2>1, <2>4, <2>5, UnregisterStep
  <1> QED
    BY <1>2, <1>3, <1>4, <1>5, <1>6, SpawnStep, RegisterStep DEF Call, Step

-----------------------------------------------------------------------------
(* The exit of a session, and the sweeper.                                 *)

\* waitLoop leaves the maps first; from then on the session is not listed.
LEMMA ExitStep ==
  ASSUME HubInv, NEW i \in Insts, WaitUnregister(i) \/ WaitKill(i)
  PROVE  HubInv'
  <1>1. TypeOK /\ RegistryConsistent /\ Listed /\ Creating /\ Started /\ SweepsAnId
    BY DEF HubInv
  <1>2. inst \in [Insts -> Inst] /\ inst[i] \in Inst
    BY <1>1 DEF TypeOK
  <1>3. UNCHANGED <<req, sweep, restarts>> /\ inst[i].wait \in {"exit", "kill"} /\ inst[i].id \in Ids
    BY <1>1 DEF WaitUnregister, WaitKill, Started
  <1>4. PICK rec \in Inst :
          /\ inst' = [inst EXCEPT ![i] = rec]
          /\ rec.id = inst[i].id /\ rec.registered = inst[i].registered
          /\ rec.st = inst[i].st /\ rec.hand = inst[i].hand
    <2>1. CASE WaitUnregister(i)
      <3> DEFINE rec == [inst[i] EXCEPT !.wait = "kill"]
      <3>1. inst' = [inst EXCEPT ![i] = rec]
        BY <2>1 DEF WaitUnregister
      <3>2. rec \in Inst /\ rec.id = inst[i].id /\ rec.registered = inst[i].registered /\ rec.st = inst[i].st /\ rec.hand = inst[i].hand
        BY <1>2 DEF Inst
      <3> HIDE DEF rec
      <3> QED
        BY <3>1, <3>2
    <2>2. CASE WaitKill(i)
      <3> DEFINE rec == [inst[i] EXCEPT !.wait = "done", !.closed = TRUE, !.writer = FALSE]
      <3>1. inst' = [inst EXCEPT ![i] = rec]
        BY <2>2 DEF WaitKill
      <3>2. rec \in Inst /\ rec.id = inst[i].id /\ rec.registered = inst[i].registered /\ rec.st = inst[i].st /\ rec.hand = inst[i].hand
        BY <1>2 DEF Inst
      <3> HIDE DEF rec
      <3> QED
        BY <3>1, <3>2
    <2> QED
      BY <2>1, <2>2
  <1>5. inst' \in [Insts -> Inst] /\ inst'[i] = rec /\ \A j \in Insts \ {i} : inst'[j] = inst[j]
    BY <1>2, <1>4
  <1>6. /\ sessions' \in [Ids -> Insts \cup {NoInst}] /\ byUser' \in [Users -> SUBSET (Ids \X Insts)]
        /\ \A x \in Ids : sessions'[x] # NoInst => sessions'[x] = sessions[x] /\ sessions[x] # i
        /\ RegistryConsistent' /\ dumps' \subseteq Ids
    <2>1. CASE WaitUnregister(i)
      <3>1. Unregister(inst[i].id) /\ UNCHANGED dumps
        BY <2>1 DEF WaitUnregister
      <3>2. /\ sessions' \in [Ids -> Insts \cup {NoInst}] /\ byUser' \in [Users -> SUBSET (Ids \X Insts)]
            /\ sessions'[inst[i].id] = NoInst /\ \A x \in Ids \ {inst[i].id} : sessions'[x] = sessions[x]
            /\ RegistryConsistent'
        BY <1>1, <1>3, <3>1, UnregisterKeeps
      <3>3. \A x \in Ids \ {inst[i].id} : sessions[x] # NoInst => sessions[x] # i
        BY <1>1 DEF Listed
      <3> QED
        BY <1>1, <1>3, <3>1, <3>2, <3>3 DEF TypeOK
    <2>2. CASE WaitKill(i)
      <3>1. UNCHANGED <<sessions, byUser>> /\ dumps' \subseteq dumps /\ inst[i].wait = "kill"
        BY <2>2 DEF WaitKill
      <3>2. RegistryConsistent'
        BY <1>1, <3>1 DEF RegistryConsistent
      <3>3. \A x \in Ids : sessions[x] # NoInst => sessions[x] # i
        BY <1>1, <3>1 DEF Listed
      <3> QED
        BY <1>1, <3>1, <3>2, <3>3 DEF TypeOK
    <2> QED
      BY <2>1, <2>2
  <1>7. TypeOK' /\ SweepsAnId'
    BY <1>1, <1>3, <1>5, <1>6 DEF TypeOK, SweepsAnId
  <1>8. Listed'
    <2>1. \A x \in Ids : sessions[x] # NoInst => sessions[x] \in Insts
      BY <1>1 DEF TypeOK
    <2>2. \A x \in Ids : sessions'[x] # NoInst =>
            /\ sessions'[x] = sessions[x] /\ sessions[x] # NoInst /\ inst'[sessions[x]] = inst[sessions[x]]
      BY <1>5, <1>6, <2>1
    <2> QED
      BY <1>1, <2>2 DEF Listed
  <1>9. Creating'
    <2>1. \A x \in Requests : req[x].pc = "register" => req[x].i \in Insts \ {i}
      BY <1>1, <1>3 DEF Creating
    <2> QED
      BY <1>1, <1>3, <1>5, <2>1 DEF Creating
  <1>10. Started'
    <2>1. inst[i].st # "unused"
      BY <1>1, <1>3 DEF Started
    <2> QED
      BY <1>1, <1>4, <1>5, <2>1 DEF Started
  <1> QED
    BY <1>6, <1>7, <1>8, <1>9, <1>10 DEF HubInv

LEMMA SweepStep == ASSUME HubInv, Sweeping PROVE HubInv'
  <1>1. TypeOK /\ RegistryConsistent /\ Listed /\ Creating /\ Started /\ SweepsAnId
    BY DEF HubInv
  <1>2. sweep \in [pc : {"idle", "next", "killed"}, ids : SUBSET Ids, id : Ids \cup {"none"}]
    BY <1>1 DEF TypeOK
  <1>3. CASE SweepTick
    <2>1. sweep' = [sweep EXCEPT !.pc = "next", !.ids = ToKill] /\ UNCHANGED <<sessions, byUser, inst, dumps, req, restarts>>
      BY <1>3 DEF SweepTick
    <2>2. ToKill \subseteq Ids
      BY DEF ToKill
    <2>3. sweep' \in [pc : {"idle", "next", "killed"}, ids : SUBSET Ids, id : Ids \cup {"none"}] /\ sweep'.pc = "next"
      BY <1>2, <2>1, <2>2
    <2> QED
      BY <1>1, <2>1, <2>3 DEF HubInv, TypeOK, RegistryConsistent, Listed, Creating, Started, SweepsAnId
  <1>4. ASSUME NEW id \in Ids, SweepKill(id) PROVE HubInv'
    <2>1. UNCHANGED <<sessions, byUser, req, restarts>>
      BY <1>4 DEF SweepKill
    <2>2. CASE sessions[id] = NoInst
      <3>1. UNCHANGED <<inst, dumps>> /\ sweep' \in [pc : {"idle", "next", "killed"}, ids : SUBSET Ids, id : Ids \cup {"none"}] /\ sweep'.pc # "killed"
        BY <1>2, <1>4, <2>2, Zenon DEF SweepKill
      <3> QED
        BY <1>1, <2>1, <3>1 DEF HubInv, TypeOK, RegistryConsistent, Listed, Creating, Started, SweepsAnId
    <2>3. CASE sessions[id] # NoInst
      <3>1. KillInst(sessions[id]) /\ sweep' = [sweep EXCEPT !.pc = "killed", !.id = id]
        BY <1>4, <2>3 DEF SweepKill
      <3>2. sweep' \in [pc : {"idle", "next", "killed"}, ids : SUBSET Ids, id : Ids \cup {"none"}] /\ SweepsAnId'
        BY <1>2, <3>1 DEF SweepsAnId
      <3>3. req' \in [Requests -> [pc : RequestPC, id : Ids \cup {"none"}, i : Insts \cup {NoInst}]] /\ \A x \in Requests : req'[x] = req[x]
        BY <1>1, <2>1 DEF TypeOK
      <3> QED
        BY <2>1, <2>3, <3>1, <3>2, <3>3, KillStep, SessionStep
    <2> QED
      BY <2>2, <2>3
  <1>5. CASE SweepDone
    <2>1. sweep.id \in Ids /\ Unregister(sweep.id) /\ UNCHANGED <<inst, dumps, req, restarts>>
      BY <1>1, <1>5 DEF SweepDone, SweepsAnId
    <2>2. sweep' \in [pc : {"idle", "next", "killed"}, ids : SUBSET Ids, id : Ids \cup {"none"}] /\ sweep'.pc # "killed"
      BY <1>2, <1>5, Zenon DEF SweepDone
    <2>3. TypeOK'
      BY <1>1, <2>1, <2>2, UnregisterKeeps DEF TypeOK
    <2>4. Creating' /\ SweepsAnId'
      BY <1>1, <2>1, <2>2 DEF Creating, SweepsAnId
    <2> QED
      BY <2>1, <2>3, <2>4, UnregisterStep
  <1> QED
    BY <1>3, <1>4, <1>5 DEF Sweeping

-----------------------------------------------------------------------------
(* The theorems.                                                           *)

\* Nothing is registered, running or under way: at first and after a restart.
Empty ==
    /\ sessions = [id \in Ids |-> NoInst]
    /\ byUser = [u \in Users |-> {}]
    /\ inst = [i \in Insts |-> NewInst]
    /\ req = [r \in Requests |-> Idle]
    /\ sweep = IdleSweep

LEMMA EmptyIsSound == Empty /\ dumps \subseteq Ids /\ restarts \in 0 .. MaxRestarts => HubInv
  <1> SUFFICES ASSUME Empty, dumps \subseteq Ids, restarts \in 0 .. MaxRestarts PROVE HubInv
    OBVIOUS
  <1>1. /\ NewInst \in Inst /\ NewInst.st = "unused" /\ NewInst.wait = "none" /\ ~NewInst.hand /\ ~NewInst.registered
        /\ Idle \in [pc : RequestPC, id : Ids \cup {"none"}, i : Insts \cup {NoInst}] /\ Idle.pc = "idle"
        /\ IdleSweep \in [pc : {"idle", "next", "killed"}, ids : SUBSET Ids, id : Ids \cup {"none"}] /\ IdleSweep.pc = "idle"
    BY DEF NewInst, Inst, Idle, RequestPC, IdleSweep
  <1>2. TypeOK
    BY <1>1 DEF Empty, TypeOK
  <1>3. RegistryConsistent
    BY DEF Empty, RegistryConsistent
  <1>4. Listed /\ Creating /\ Started /\ SweepsAnId
    BY <1>1 DEF Empty, Listed, Creating, Started, SweepsAnId
  <1> QED
    BY <1>2, <1>3, <1>4 DEF HubInv

LEMMA HubInit == Init => HubInv
  BY EmptyIsSound, LimitsAssumption DEF Init, Empty

LEMMA RestartStep == ASSUME HubInv, Restart PROVE HubInv'
  <1>1. Empty' /\ UNCHANGED dumps /\ restarts' \in 0 .. MaxRestarts
    BY LimitsAssumption DEF Restart, Empty, HubInv, TypeOK
  <1>2. dumps' \subseteq Ids
    BY <1>1 DEF HubInv, TypeOK
  <1>3. (Empty /\ dumps \subseteq Ids /\ restarts \in 0 .. MaxRestarts => HubInv)'
    BY EmptyIsSound, PTL
  <1> QED
    BY <1>1, <1>2, <1>3

LEMMA HubNext == ASSUME "early" \notin Events PROVE HubInv /\ [Next]_vars => HubInv'
  <1> SUFFICES ASSUME HubInv, [Next]_vars PROVE HubInv'
    OBVIOUS
  <1>1. ASSUME NEW i \in Insts, Goroutine(i) \/ Environment(i) PROVE HubInv'
    BY <1>1, ExitStep, EnvironmentStep DEF Goroutine
  <1>2. CASE UNCHANGED vars
    BY <1>2 DEF vars, HubInv, TypeOK, RegistryConsistent, Listed, Creating, Started, SweepsAnId
  <1> QED
    BY <1>1, <1>2, RequestStep, SweepStep, RestartStep DEF Next

\* sessions and byUser describe the same sessions in every state, whatever is
\* created, killed, swept and ends in whatever order, and none of them is one
\* whose exit was handled, unless a shell can end before it is registered.
THEOREM RegistryIsSound == ASSUME "early" \notin Events PROVE Spec => []RegistrySound
  <1>1. HubInv => RegistrySound
    BY ListedIsAlive DEF HubInv, RegistrySound
  <1> QED
    BY <1>1, HubInit, HubNext, PTL DEF Spec

\* The maps, the sessions, the requests and the sweeper have the types of the
\* code, under the same assumption.
THEOREM HubTyped == ASSUME "early" \notin Events PROVE Spec => []TypeOK
  <1>1. HubInv => TypeOK
    BY DEF HubInv
  <1> QED
    BY <1>1, HubInit, HubNext, PTL DEF Spec
-----------------------------------------------------------------------------
(* The cap, which is checked in one critical section and used in another:  *)
(* the sessions a user has and the creations of the user that have passed  *)
(* the check are together bounded. Nothing is assumed of when shells end.  *)

ReqType == [pc : RequestPC, id : Ids \cup {"none"}, i : Insts \cup {NoInst}]

\* The creations of a user that have passed the check.
Passed(u) == {r \in Requests : req[r].pc \in {"spawn", "register"} /\ OwnerOf[req[r].id] = u}

CapInv ==
    /\ req \in [Requests -> ReqType]
    /\ \A r \in Requests : req[r].pc # "idle" => req[r].id \in Ids
    /\ DOMAIN byUser = Users
    /\ \A u \in Users : /\ IsFiniteSet(byUser[u])
                        /\ Cardinality(byUser[u]) + Cardinality(Passed(u))
                              <= PerUser + Cardinality(Requests) - 1

\* Fewer sessions of every user, and no creation more: the bound is kept.
LEMMA CapFalls ==
  ASSUME IsFiniteSet(Requests), CapInv, req' \in [Requests -> ReqType],
         \A r \in Requests : req'[r].pc # "idle" => req'[r].id \in Ids,
         DOMAIN byUser' = Users, \A u \in Users : byUser'[u] \subseteq byUser[u],
         \A u \in Users : Passed(u)' \subseteq Passed(u)
  PROVE  CapInv'
  <1>1. ASSUME NEW u \in Users
        PROVE  /\ IsFiniteSet(byUser'[u])
               /\ Cardinality(byUser'[u]) + Cardinality(Passed(u)')
                     <= PerUser + Cardinality(Requests) - 1
    <2>1. PICK B, P : B = byUser[u] /\ P = Passed(u)
      OBVIOUS
    <2>2. IsFiniteSet(B) /\ IsFiniteSet(P)
      <3>1. Passed(u) \subseteq Requests
        BY DEF Passed
      <3> QED
        BY <2>1, <3>1, FS_Subset DEF CapInv
    <2>3. PICK C, Q : C = byUser'[u] /\ Q = Passed(u)'
      OBVIOUS
    <2>4. C \subseteq B /\ Q \subseteq P
      BY <2>1, <2>3
    <2>5. /\ IsFiniteSet(C) /\ Cardinality(C) <= Cardinality(B)
          /\ Cardinality(Q) <= Cardinality(P)
          /\ Cardinality(B) \in Nat /\ Cardinality(P) \in Nat
          /\ Cardinality(C) \in Nat /\ Cardinality(Q) \in Nat
      BY <2>2, <2>4, FS_Subset, FS_CardinalityType
    <2>6. Cardinality(B) + Cardinality(P) <= PerUser + Cardinality(Requests) - 1
      BY <2>1 DEF CapInv
    <2>7. PerUser \in Nat /\ Cardinality(Requests) \in Nat
      BY LimitsAssumption, FS_CardinalityType
    <2> QED
      BY <2>3, <2>5, <2>6, <2>7
  <1> QED
    BY <1>1 DEF CapInv

\* A creation that the check lets through: at most all requests are under way
\* when the user is still below the cap.
LEMMA CapChecked ==
  ASSUME IsFiniteSet(Requests), CapInv, NEW r \in Requests, CheckCap(r)
  PROVE  CapInv'
  <1>1. /\ req \in [Requests -> ReqType] /\ req[r] \in ReqType /\ req[r].id \in Ids
        /\ byUser' = byUser
    BY DEF CapInv, CheckCap
  <1>2. PICK u0 \in Users : u0 = OwnerOf[req[r].id]
    BY <1>1, OwnerAssumption
  <1>3. Idle \in ReqType /\ Idle.pc = "idle"
    BY DEF Idle, ReqType, RequestPC
  <1>4. CASE Cardinality(byUser[u0]) >= PerUser
    <2>1. req' = [req EXCEPT ![r] = Idle]
      BY <1>2, <1>4 DEF CheckCap
    <2>2. /\ req' \in [Requests -> ReqType] /\ req'[r].pc = "idle"
          /\ \A x \in Requests \ {r} : req'[x] = req[x]
      BY <1>1, <1>3, <2>1
    <2>3. \A u \in Users : Passed(u)' \subseteq Passed(u)
      BY <2>2 DEF Passed
    <2> QED
      BY <1>1, <2>2, <2>3, CapFalls DEF CapInv
  <1>5. CASE ~(Cardinality(byUser[u0]) >= PerUser)
    <2>1. PICK q \in ReqType : req' = [req EXCEPT ![r] = q] /\ q.pc = "spawn" /\ q.id = req[r].id
      <3>1. PICK old \in ReqType : old = req[r]
        BY <1>1
      <3>2. PICK q \in ReqType : q = [old EXCEPT !.pc = "spawn"]
        BY DEF ReqType, RequestPC
      <3>3. q.pc = "spawn" /\ q.id = old.id
        BY <3>2 DEF ReqType
      <3>4. req' = [req EXCEPT ![r] = q]
        BY <1>2, <1>5, <3>1, <3>2 DEF CheckCap
      <3> QED
        BY <3>1, <3>3, <3>4
    <2>2. req' = [req EXCEPT ![r] = q]
      BY <2>1
    <2>3. /\ req' \in [Requests -> ReqType] /\ req'[r] = q
          /\ \A x \in Requests \ {r} : req'[x] = req[x]
      BY <1>1, <2>2
    <2>4. ASSUME NEW u \in Users
          PROVE  Cardinality(byUser'[u]) + Cardinality(Passed(u)')
                    <= PerUser + Cardinality(Requests) - 1
      <3>1. CASE u = u0
        <4>1. PICK Q : Q = Passed(u)' /\ Q \subseteq Requests
          BY DEF Passed
        <4>2. /\ Cardinality(Q) <= Cardinality(Requests) /\ Cardinality(Q) \in Nat
              /\ Cardinality(Requests) \in Nat
          BY <4>1, FS_Subset, FS_CardinalityType
        <4>3. Cardinality(byUser[u]) \in Nat /\ PerUser \in Nat
          BY LimitsAssumption, FS_CardinalityType DEF CapInv
        <4>4. Cardinality(byUser[u]) < PerUser
          BY <1>5, <3>1, <4>3
        <4> QED
          BY <1>1, <4>1, <4>2, <4>3, <4>4
      <3>2. CASE u # u0
        <4>1. OwnerOf[req[r].id] # u /\ OwnerOf[req'[r].id] # u
          BY <1>2, <2>1, <2>3, <3>2
        <4>2. Passed(u)' = Passed(u)
          BY <2>3, <4>1 DEF Passed
        <4> QED
          BY <1>1, <4>2 DEF CapInv
      <3> QED
        BY <3>1, <3>2
    <2>5. \A x \in Requests : req'[x].pc # "idle" => req'[x].id \in Ids
      BY <1>1, <2>1, <2>3 DEF CapInv
    <2> QED
      BY <1>1, <2>3, <2>4, <2>5 DEF CapInv
  <1> QED
    BY <1>4, <1>5

\* A creation that registers its session is one under way less.
LEMMA CapUsed ==
  ASSUME IsFiniteSet(Requests), CapInv, NEW r \in Requests, Register(r)
  PROVE  CapInv'
  <1>1. /\ req \in [Requests -> ReqType] /\ req[r].id \in Ids /\ req[r].pc = "register"
    BY DEF CapInv, Register
  <1>2. PICK u0 \in Users, id \in Ids : u0 = OwnerOf[id] /\ id = req[r].id
    BY <1>1, OwnerAssumption
  <1>3. Idle \in ReqType /\ Idle.pc = "idle"
    BY DEF Idle, ReqType, RequestPC
  <1>4. /\ req' \in [Requests -> ReqType] /\ req'[r].pc = "idle"
        /\ \A x \in Requests \ {r} : req'[x] = req[x]
    BY <1>1, <1>3 DEF Register
  <1>5. PICK e, F : e = <<id, req[r].i>> /\ F = {d \in byUser[u0] : d[1] # id}
    OBVIOUS
  <1>6. byUser' = [byUser EXCEPT ![u0] = F \cup {e}] /\ F \subseteq byUser[u0]
    BY <1>2, <1>5 DEF Register
  <1>7. DOMAIN byUser' = Users /\ byUser'[u0] = F \cup {e} /\ \A u \in Users \ {u0} : byUser'[u] = byUser[u]
    BY <1>6 DEF CapInv
  <1>8. ASSUME NEW u \in Users
        PROVE  /\ IsFiniteSet(byUser'[u])
               /\ Cardinality(byUser'[u]) + Cardinality(Passed(u)')
                     <= PerUser + Cardinality(Requests) - 1
    <2>1. PICK B, P : /\ B = byUser[u] /\ P = Passed(u) /\ P \subseteq Requests
                      /\ IsFiniteSet(B)
                      /\ Cardinality(B) + Cardinality(P) <= PerUser + Cardinality(Requests) - 1
      BY DEF CapInv, Passed
    <2>2. IsFiniteSet(P) /\ Cardinality(P) \in Nat /\ Cardinality(B) \in Nat
      BY <2>1, FS_Subset, FS_CardinalityType
    <2>3. PerUser \in Nat /\ Cardinality(Requests) \in Nat
      BY LimitsAssumption, FS_CardinalityType
    <2>4. CASE u = u0
      <3>1. r \in P /\ Passed(u)' = P \ {r}
        BY <1>1, <1>2, <1>4, <2>1, <2>4 DEF Passed
      <3>2. Cardinality(P \ {r}) = Cardinality(P) - 1
        BY <2>2, <3>1, FS_RemoveElement
      <3>3. IsFiniteSet(F) /\ Cardinality(F) <= Cardinality(B) /\ Cardinality(F) \in Nat
        BY <1>6, <2>1, <2>4, FS_Subset, FS_CardinalityType
      <3>4. /\ IsFiniteSet(F \cup {e})
            /\ Cardinality(F \cup {e}) \in {Cardinality(F), Cardinality(F) + 1}
        BY <3>3, FS_AddElement
      <3>5. PICK p \in Nat, b \in Nat, f \in Nat, m \in Nat, g \in Nat :
                  /\ p = Cardinality(P) /\ b = Cardinality(B) /\ f = Cardinality(F)
                  /\ g = Cardinality(F \cup {e}) /\ g <= f + 1 /\ m = PerUser + Cardinality(Requests)
        BY <2>2, <2>3, <3>3, <3>4
      <3>6. g + (p - 1) <= m - 1
        <4>1. b + p <= m - 1
          BY <2>1, <2>3, <3>5
        <4>2. f <= b
          BY <3>3, <3>5
        <4> QED
          BY <3>5, <4>1, <4>2
      <3>7. IsFiniteSet(F \cup {e}) /\ byUser'[u] = F \cup {e}
        BY <1>7, <2>4, <3>4
      <3>8. Cardinality(byUser'[u]) = g /\ Cardinality(Passed(u)') = p - 1
        BY <3>1, <3>2, <3>5, <3>7
      <3>9. Cardinality(byUser'[u]) + Cardinality(Passed(u)') <= PerUser + Cardinality(Requests) - 1
        BY <2>3, <3>5, <3>6, <3>8
      <3>10. IsFiniteSet(byUser'[u])
        BY <3>7
      <3> QED
        BY <3>9, <3>10
    <2>5. CASE u # u0
      <3>1. Passed(u)' = P /\ byUser'[u] = B
        BY <1>1, <1>2, <1>4, <1>7, <2>1, <2>5 DEF Passed
      <3> QED
        BY <2>1, <3>1
    <2> QED
      BY <2>4, <2>5
  <1>9. \A x \in Requests : req'[x].pc # "idle" => req'[x].id \in Ids
    BY <1>4 DEF CapInv
  <1> QED
    BY <1>4, <1>7, <1>8, <1>9 DEF CapInv

\* unregister removes at most one entry of one user.
LEMMA UnregisterShrinks ==
  ASSUME CapInv, NEW id, Unregister(id)
  PROVE  DOMAIN byUser' = Users /\ \A u \in Users : byUser'[u] \subseteq byUser[u]
  <1>1. CASE byUser' = byUser
    BY <1>1 DEF CapInv
  <1>2. CASE byUser' = [byUser EXCEPT ![UserOf(sessions[id])] = @ \ {<<id, sessions[id]>>}]
    BY <1>2 DEF CapInv
  <1> QED
    BY <1>1, <1>2 DEF Unregister

\* A step of a session or of the sweeper.
LEMMA CapOthers ==
  ASSUME IsFiniteSet(Requests), CapInv, req' = req,
         byUser' = byUser \/ \E id : Unregister(id)
  PROVE  CapInv'
  <1>1. DOMAIN byUser' = Users /\ \A u \in Users : byUser'[u] \subseteq byUser[u]
    <2>1. CASE byUser' = byUser
      BY <2>1 DEF CapInv
    <2>2. CASE \E id : Unregister(id)
      BY <2>2, UnregisterShrinks
    <2> QED
      BY <2>1, <2>2
  <1>2. \A u \in Users : Passed(u)' = Passed(u)
    BY DEF Passed
  <1> QED
    BY <1>1, <1>2, CapFalls DEF CapInv

\* A request that neither passes the check nor registers.
LEMMA CapRequest ==
  ASSUME IsFiniteSet(Requests), CapInv, NEW r \in Requests, NEW q \in ReqType,
         req' = [req EXCEPT ![r] = q],
         q.pc # "idle" => q.id \in Ids,
         q.pc \in {"spawn", "register"} => req[r].pc = "spawn" /\ q.id = req[r].id,
         byUser' = byUser \/ \E id : Unregister(id)
  PROVE  CapInv'
  <1>1. /\ req' \in [Requests -> ReqType] /\ req'[r] = q
        /\ \A x \in Requests \ {r} : req'[x] = req[x]
    BY DEF CapInv
  <1>2. DOMAIN byUser' = Users /\ \A u \in Users : byUser'[u] \subseteq byUser[u]
    <2>1. CASE byUser' = byUser
      BY <2>1 DEF CapInv
    <2>2. CASE \E id : Unregister(id)
      BY <2>2, UnregisterShrinks
    <2> QED
      BY <2>1, <2>2
  <1>3. \A u \in Users : Passed(u)' \subseteq Passed(u)
    BY <1>1 DEF Passed
  <1>4. \A x \in Requests : req'[x].pc # "idle" => req'[x].id \in Ids
    BY <1>1 DEF CapInv
  <1> QED
    BY <1>1, <1>2, <1>3, <1>4, CapFalls
LEMMA CapNext ==
  ASSUME IsFiniteSet(Requests)
  PROVE  CapInv /\ [Next]_vars => CapInv'
  <1> SUFFICES ASSUME CapInv, [Next]_vars PROVE CapInv'
    OBVIOUS
  <1>1. Idle \in ReqType /\ Idle.pc = "idle"
    BY DEF Idle, ReqType, RequestPC
  <1>2. \A r \in Requests : req[r] \in ReqType
    BY DEF CapInv
  <1>3. ASSUME NEW r \in Requests, NEW id \in Ids, AttachExisting(r, id) PROVE CapInv'
    BY <1>3, CapOthers DEF AttachExisting
  <1>4. ASSUME NEW r \in Requests, NEW id \in Ids, AttachMissing(r, id) PROVE CapInv'
    <2>1. PICK q \in ReqType : q = [pc |-> "cap", id |-> id, i |-> NoInst]
      BY DEF ReqType, RequestPC
    <2>2. q.pc = "cap" /\ q.id = id
      BY <2>1
    <2> QED
      BY <1>4, <2>1, <2>2, CapRequest DEF AttachMissing
  <1>5. ASSUME NEW r \in Requests, NEW id \in Ids, KillCall(r, id) PROVE CapInv'
    <2>1. PICK q \in ReqType : q = [Idle EXCEPT !.pc = "killed", !.id = id]
      BY <1>1 DEF ReqType, RequestPC
    <2>2. q.pc = "killed" /\ q.id = id
      BY <2>1 DEF Idle
    <2> QED
      BY <1>5, <2>1, <2>2, CapRequest DEF KillCall
  <1>6. ASSUME NEW r \in Requests, NEW i \in Insts, Spawn(r, i) PROVE CapInv'
    <2>1. PICK q \in ReqType : q = [req[r] EXCEPT !.pc = "register", !.i = i]
      BY <1>2 DEF ReqType, RequestPC
    <2>2. q.pc = "register" /\ q.id = req[r].id
      BY <1>2, <2>1 DEF ReqType
    <2>3. req[r].pc = "spawn" /\ req[r].id \in Ids
      BY <1>6 DEF Spawn, CapInv
    <2>4. req' = [req EXCEPT ![r] = q] /\ byUser' = byUser
      BY <1>6, <2>1 DEF Spawn
    <2> QED
      BY <2>2, <2>3, <2>4, CapRequest
  <1>7. ASSUME NEW r \in Requests, SpawnFails(r) \/ KillDone(r) PROVE CapInv'
    <2>1. req' = [req EXCEPT ![r] = Idle] /\ (byUser' = byUser \/ \E id : Unregister(id))
      BY <1>7 DEF SpawnFails, KillDone
    <2> QED
      BY <1>1, <2>1, CapRequest
  <1>8. ASSUME NEW i \in Insts, Goroutine(i) \/ Environment(i) PROVE CapInv'
    <2>1. req' = req /\ (byUser' = byUser \/ \E id : Unregister(id))
      BY <1>8 DEF Goroutine, Environment, WaitUnregister, WaitKill, AppendDump, ShellExits, Output,
         WriterLeaves, Input, Age
    <2> QED
      BY <2>1, CapOthers
  <1>9. CASE Sweeping
    <2>1. req' = req /\ (byUser' = byUser \/ \E id : Unregister(id))
      BY <1>9, Zenon DEF Sweeping, SweepTick, SweepKill, SweepDone
    <2> QED
      BY <2>1, CapOthers
  <1>10. CASE Restart
    <2>1. /\ req' \in [Requests -> ReqType] /\ \A r \in Requests : req'[r].pc = "idle"
          /\ DOMAIN byUser' = Users /\ \A u \in Users : byUser'[u] = {}
      BY <1>1, <1>10 DEF Restart
    <2>2. \A u \in Users : Passed(u)' = {}
      BY <2>1 DEF Passed
    <2> QED
      BY <2>1, <2>2, CapFalls
  <1>11. CASE UNCHANGED vars
    BY <1>11, CapOthers DEF vars
  <1> QED
    BY <1>3, <1>4, <1>5, <1>6, <1>7, <1>8, <1>9, <1>10, <1>11, CapChecked, CapUsed
       DEF Next, Call, Step

LEMMA CapInit == ASSUME IsFiniteSet(Requests) PROVE Init => CapInv
  <1> SUFFICES ASSUME Init PROVE CapInv
    OBVIOUS
  <1>1. Idle \in ReqType /\ Idle.pc = "idle"
    BY DEF Idle, ReqType, RequestPC
  <1>2. /\ req \in [Requests -> ReqType] /\ \A r \in Requests : req[r].pc = "idle"
        /\ DOMAIN byUser = Users /\ \A u \in Users : byUser[u] = {}
    BY <1>1 DEF Init
  <1>3. \A u \in Users : Passed(u) = {}
    BY <1>2 DEF Passed
  <1>4. IsFiniteSet({}) /\ Cardinality({}) = 0 /\ Cardinality(Requests) \in Nat /\ PerUser \in Nat \ {0}
    BY FS_EmptySet, FS_CardinalityType, LimitsAssumption
  <1>5. 0 + 0 <= PerUser + Cardinality(Requests) - 1
    BY <1>4
  <1> QED
    BY <1>2, <1>3, <1>4, <1>5 DEF CapInv

\* TERMINAL_PER_USER_MAX is exceeded at most by the creations that are under
\* way together, although Create checks the cap and uses it in two critical
\* sections with the start of a shell between them: whatever else is killed,
\* swept or ends meanwhile.
THEOREM CapOvershootIsBounded == ASSUME IsFiniteSet(Requests) PROVE Spec => []CapOvershoot
  <1>1. CapInv => CapOvershoot
    <2> SUFFICES ASSUME CapInv, NEW u \in Users
                 PROVE  Cardinality(byUser[u]) <= PerUser + Cardinality(Requests) - 1
      BY DEF CapOvershoot
    <2>1. /\ Cardinality(byUser[u]) \in Nat
          /\ Cardinality(byUser[u]) + Cardinality(Passed(u)) <= PerUser + Cardinality(Requests) - 1
      BY FS_CardinalityType DEF CapInv
    <2>2. Passed(u) \subseteq Requests
      BY DEF Passed
    <2>3. Cardinality(Passed(u)) \in Nat /\ Cardinality(Requests) \in Nat /\ PerUser \in Nat
      BY <2>2, FS_Subset, FS_CardinalityType, LimitsAssumption
    <2> QED
      BY <2>1, <2>3
  <1> QED
    BY <1>1, CapInit, CapNext, PTL DEF Spec
-----------------------------------------------------------------------------
(* A shell is lost from the registry only by a second session of its id.   *)
(* Nothing is assumed of when shells end.                                  *)

SweepType == [pc : {"idle", "next", "killed"}, ids : SUBSET Ids, id : Ids \cup {"none"}]

KeptTyped ==
    /\ sessions \in [Ids -> Insts \cup {NoInst}] /\ inst \in [Insts -> Inst]
    /\ req \in [Requests -> ReqType] /\ sweep \in SweepType

\* Only the end of a shell starts waitLoop's exit and closes its session.
EndsForGood ==
    \A i \in Insts : /\ inst[i].closed \/ inst[i].wait # "none" => inst[i].st = "dead"
                     /\ inst[i].st # "unused" => inst[i].id \in Ids

UnderOwnId ==
    \A id \in Ids : sessions[id] # NoInst =>
        inst[sessions[id]].id = id /\ inst[sessions[id]].st # "unused"

\* A session of the id has ended.
DeadUnder(id) == \E k \in Insts : inst[k].id = id /\ inst[k].st = "dead"

\* A request registers what it started, and unregisters what it has killed.
Promised ==
    \A r \in Requests :
        /\ req[r].pc # "idle" => req[r].id \in Ids
        /\ req[r].pc = "register" => /\ req[r].i \in Insts
                                     /\ inst[req[r].i].id = req[r].id
                                     /\ inst[req[r].i].st # "unused"
        /\ req[r].pc = "killed" => DeadUnder(req[r].id)

SweepsDead == sweep.pc = "killed" => sweep.id \in Ids /\ DeadUnder(sweep.id)

Registering(i) == \E r \in Requests : req[r].pc = "register" /\ req[r].i = i

Reused(i) == \E j \in Insts \ {i} : inst[j].id = inst[i].id /\ inst[j].st # "unused"

NoneLost ==
    \A i \in Insts : inst[i].st = "alive" =>
        Registering(i) \/ sessions[inst[i].id] = i \/ Reused(i)

KeptInv == KeptTyped /\ EndsForGood /\ UnderOwnId /\ Promised /\ SweepsDead /\ NoneLost

\* What becomes of a session, short of being started.
Evolves ==
    \A j \in Insts :
        /\ inst'[j].id = inst[j].id
        /\ inst[j].st # "unused" => inst'[j].st # "unused"
        /\ inst[j].st = "dead" => inst'[j].st = "dead"
        /\ inst'[j].st = "alive" => inst[j].st = "alive"
        /\ inst'[j].closed \/ inst'[j].wait # "none" => inst'[j].st = "dead"
        /\ inst'[j].st # "unused" => inst[j].st # "unused"

\* After the step a session of the id has ended.
DeadNext(id) == \E k \in Insts : inst'[k].id = id /\ inst'[k].st = "dead"

LEMMA DeadStays ==
  ASSUME Evolves, NEW id, DeadUnder(id)
  PROVE  DeadNext(id)
  BY DEF Evolves, DeadUnder, DeadNext

\* Sessions end, and entries leave the maps when a session of their id has
\* ended; nothing is started or registered.
LEMMA KeptMoves ==
  ASSUME KeptInv, KeptTyped', Evolves,
         \A id \in Ids : sessions'[id] = sessions[id] \/ (sessions'[id] = NoInst /\ DeadUnder(id)),
         \A r \in Requests :
            \/ req'[r] = req[r]
            \/ /\ req[r].pc # "register" /\ req'[r].pc # "register"
               /\ req'[r].pc # "idle" => req'[r].id \in Ids
               /\ req'[r].pc = "killed" => DeadNext(req'[r].id),
         SweepsDead'
  PROVE  KeptInv'
  <1>1. KeptTyped /\ EndsForGood /\ UnderOwnId /\ Promised /\ NoneLost
    BY DEF KeptInv
  <1>2. EndsForGood'
    BY <1>1 DEF Evolves, EndsForGood
  <1>3. UnderOwnId'
    <2>1. \A id \in Ids : sessions[id] # NoInst => sessions[id] \in Insts
      BY <1>1 DEF KeptTyped
    <2> QED
      BY <1>1, <2>1 DEF Evolves, UnderOwnId
  <1>4. Promised'
    <2>1. ASSUME NEW r \in Requests, req'[r] = req[r]
          PROVE  /\ req'[r].pc # "idle" => req'[r].id \in Ids
                 /\ req'[r].pc = "register" => /\ req'[r].i \in Insts
                                               /\ inst'[req'[r].i].id = req'[r].id
                                               /\ inst'[req'[r].i].st # "unused"
                 /\ req'[r].pc = "killed" => DeadNext(req'[r].id)
      <3>1. req[r].pc = "killed" => DeadNext(req[r].id)
        BY <1>1, DeadStays DEF Promised
      <3>2. req[r].pc = "killed" => DeadNext(req'[r].id)
        BY <2>1, <3>1
      <3> QED
        BY <1>1, <2>1, <3>2 DEF Promised, Evolves
    <2>2. ASSUME NEW r \in Requests
          PROVE  /\ req'[r].pc # "idle" => req'[r].id \in Ids
                 /\ req'[r].pc = "register" => /\ req'[r].i \in Insts
                                               /\ inst'[req'[r].i].id = req'[r].id
                                               /\ inst'[req'[r].i].st # "unused"
                 /\ req'[r].pc = "killed" => DeadNext(req'[r].id)
      BY <2>1
    <2> QED
      BY <2>2 DEF Promised, DeadUnder, DeadNext
  <1>5. NoneLost'
    <2> SUFFICES ASSUME NEW i \in Insts, inst'[i].st = "alive"
                 PROVE  Registering(i)' \/ sessions'[inst'[i].id] = i \/ Reused(i)'
      BY DEF NoneLost
    <2>1. PICK id \in Ids : id = inst[i].id /\ id = inst'[i].id
      BY <1>1 DEF Evolves, EndsForGood
    <2>2. inst[i].st = "alive"
      BY DEF Evolves
    <2>3. CASE Registering(i)
      BY <2>3 DEF Registering
    <2>4. CASE Reused(i)
      BY <2>4 DEF Reused, Evolves
    <2>5. CASE sessions[id] = i
      <3>1. CASE sessions'[id] = sessions[id]
        BY <2>1, <2>5, <3>1
      <3>2. CASE DeadUnder(id)
        <4>1. PICK k \in Insts : inst[k].id = id /\ inst[k].st = "dead"
          BY <3>2 DEF DeadUnder
        <4>2. k # i /\ inst'[k].id = inst'[i].id /\ inst'[k].st # "unused"
          BY <2>1, <2>2, <4>1 DEF Evolves
        <4> QED
          BY <4>2 DEF Reused
      <3> QED
        BY <3>1, <3>2
    <2> QED
      BY <1>1, <2>1, <2>2, <2>3, <2>4, <2>5 DEF NoneLost
  <1> QED
    BY <1>2, <1>3, <1>4, <1>5 DEF KeptInv

\* One session changes, by one of its goroutines or its client.
LEMMA OneEvolves ==
  ASSUME KeptInv, NEW i \in Insts, NEW rec \in Inst, inst' = [inst EXCEPT ![i] = rec],
         rec.id = inst[i].id,
         (rec.st = "unused") = (inst[i].st = "unused"),
         inst[i].st = "dead" => rec.st = "dead",
         rec.st = "alive" => inst[i].st = "alive",
         rec.closed \/ rec.wait # "none" => rec.st = "dead"
  PROVE  inst' \in [Insts -> Inst] /\ Evolves
  <1>1. inst \in [Insts -> Inst] /\ EndsForGood
    BY DEF KeptInv, KeptTyped
  <1>2. inst' \in [Insts -> Inst] /\ inst'[i] = rec /\ \A j \in Insts \ {i} : inst'[j] = inst[j]
    BY <1>1
  <1> QED
    BY <1>1, <1>2 DEF Evolves, EndsForGood

LEMMA NoneEvolves ==
  ASSUME KeptInv, inst' = inst
  PROVE  inst' \in [Insts -> Inst] /\ Evolves
  BY DEF KeptInv, KeptTyped, Evolves, EndsForGood

\* Kill of a registered session: then a session of the id has ended.
LEMMA KillEvolves ==
  ASSUME KeptInv, NEW id \in Ids, sessions[id] # NoInst, KillInst(sessions[id])
  PROVE  inst' \in [Insts -> Inst] /\ Evolves /\ DeadNext(id)
  <1>1. PICK i \in Insts : i = sessions[id]
    BY DEF KeptInv, KeptTyped
  <1>2. PICK old \in Inst : old = inst[i]
    BY DEF KeptInv, KeptTyped
  <1>3. /\ old.id = id /\ old.st # "unused"
        /\ old.closed \/ old.wait # "none" => old.st = "dead"
    BY <1>1, <1>2 DEF KeptInv, UnderOwnId, EndsForGood
  <1>4. CASE old.closed
    <2>1. inst' = inst /\ old.st = "dead"
      BY <1>1, <1>2, <1>3, <1>4 DEF KillInst
    <2>2. DeadNext(id)
      BY <1>2, <1>3, <2>1 DEF DeadNext
    <2> QED
      BY <2>1, <2>2, NoneEvolves
  <1>5. CASE ~old.closed
    <2>1. PICK w \in {"none", "exit", "kill", "done"} : w = IF old.st = "alive" THEN "exit" ELSE old.wait
      BY DEF Inst
    <2>2. PICK rec \in Inst : rec = [old EXCEPT !.closed = TRUE, !.st = "dead", !.wait = w]
      BY DEF Inst
    <2>3. inst' = [inst EXCEPT ![i] = rec]
      BY <1>1, <1>2, <1>5, <2>1, <2>2 DEF KillInst
    <2>4. rec.id = id /\ rec.st = "dead"
      BY <1>3, <2>2 DEF Inst
    <2>5. inst' \in [Insts -> Inst] /\ Evolves
      BY <1>2, <1>3, <2>3, <2>4, OneEvolves
    <2>6. inst'[i] = rec
      BY <2>3 DEF KeptInv, KeptTyped
    <2>7. DeadNext(id)
      BY <2>4, <2>6 DEF DeadNext
    <2> QED
      BY <2>5, <2>7
  <1> QED
    BY <1>4, <1>5
\* What the types of a step are made of.
LEMMA KeptTypes ==
  ASSUME KeptInv
  PROVE  /\ sessions \in [Ids -> Insts \cup {NoInst}] /\ inst \in [Insts -> Inst]
         /\ req \in [Requests -> ReqType] /\ sweep \in SweepType
         /\ \A r \in Requests : req[r] \in ReqType /\ (req[r].pc # "idle" => req[r].id \in Ids)
         /\ Idle \in ReqType /\ Idle.pc = "idle"
         /\ SweepsDead
  BY DEF KeptInv, KeptTyped, Promised, Idle, ReqType, RequestPC

\* A request moves on, to anything but registering.
LEMMA KeptRequest ==
  ASSUME KeptInv, NEW r \in Requests, NEW q \in ReqType, req' = [req EXCEPT ![r] = q],
         req[r].pc # "register", q.pc # "register", q.pc # "idle" => q.id \in Ids,
         q.pc = "killed" => DeadNext(q.id),
         inst' \in [Insts -> Inst], Evolves, sweep' = sweep,
         \A id \in Ids : sessions'[id] = sessions[id] \/ (sessions'[id] = NoInst /\ DeadUnder(id)),
         sessions' \in [Ids -> Insts \cup {NoInst}]
  PROVE  KeptInv'
  <1>1. /\ req' \in [Requests -> ReqType] /\ req'[r] = q
        /\ \A x \in Requests \ {r} : req'[x] = req[x]
    BY KeptTypes
  <1>2. KeptTyped'
    BY <1>1, KeptTypes DEF KeptTyped
  <1>3. SweepsDead'
    <2>1. sweep.pc = "killed" => sweep.id \in Ids /\ DeadNext(sweep.id)
      BY KeptTypes, DeadStays DEF SweepsDead
    <2> QED
      BY <2>1 DEF SweepsDead, DeadUnder, DeadNext
  <1>4. req'[r].pc = "killed" => DeadNext(req'[r].id)
    BY <1>1
  <1>5. \A x \in Requests :
            \/ req'[x] = req[x]
            \/ /\ req[x].pc # "register" /\ req'[x].pc # "register"
               /\ req'[x].pc # "idle" => req'[x].id \in Ids
               /\ req'[x].pc = "killed" => DeadNext(req'[x].id)
    BY <1>1, <1>4
  <1> QED
    BY <1>2, <1>3, <1>5, KeptMoves

\* A session, or the sweeper, moves on.
LEMMA KeptOthers ==
  ASSUME KeptInv, req' = req, inst' \in [Insts -> Inst], Evolves,
         sweep' \in SweepType, SweepsDead',
         \A id \in Ids : sessions'[id] = sessions[id] \/ (sessions'[id] = NoInst /\ DeadUnder(id)),
         sessions' \in [Ids -> Insts \cup {NoInst}]
  PROVE  KeptInv'
  <1>1. KeptTyped'
    BY KeptTypes DEF KeptTyped
  <1> QED
    BY <1>1, KeptMoves

LEMMA SweepWaits ==
  ASSUME KeptInv, Evolves, sweep' = sweep
  PROVE  sweep' \in SweepType /\ SweepsDead'
  <1>1. sweep.pc = "killed" => sweep.id \in Ids /\ DeadNext(sweep.id)
    BY KeptTypes, DeadStays DEF SweepsDead
  <1> QED
    BY <1>1, KeptTypes DEF SweepsDead, DeadUnder, DeadNext

\* unregister of an id a session of which has ended.
LEMMA UnregisterDead ==
  ASSUME KeptInv, NEW id \in Ids, DeadUnder(id), Unregister(id)
  PROVE  /\ sessions' \in [Ids -> Insts \cup {NoInst}]
         /\ \A x \in Ids : sessions'[x] = sessions[x] \/ (sessions'[x] = NoInst /\ DeadUnder(x))
  <1>1. sessions' = [sessions EXCEPT ![id] = NoInst]
    BY DEF Unregister
  <1> QED
    BY <1>1, KeptTypes

LEMMA SessionsStay ==
  ASSUME KeptInv, sessions' = sessions
  PROVE  /\ sessions' \in [Ids -> Insts \cup {NoInst}]
         /\ \A x \in Ids : sessions'[x] = sessions[x] \/ (sessions'[x] = NoInst /\ DeadUnder(x))
  BY KeptTypes
\* A shell that was started stays in the hands of its request.
LEMMA KeptSpawn ==
  ASSUME KeptInv, NEW r \in Requests, NEW i \in Insts, Spawn(r, i)
  PROVE  KeptInv'
  <1>1. KeptTyped /\ EndsForGood /\ UnderOwnId /\ Promised /\ SweepsDead /\ NoneLost
    BY DEF KeptInv
  <1>2. PICK old \in Inst, id \in Ids : old = inst[i] /\ old.st = "unused" /\ id = req[r].id
    BY <1>1 DEF Spawn, KeptTyped, Promised
  <1>3. PICK rec \in Inst : rec = [old EXCEPT !.st = "alive", !.id = id]
    BY DEF Inst
  <1>4. /\ rec.st = "alive" /\ rec.id = id /\ rec.closed = old.closed /\ rec.wait = old.wait
    BY <1>3 DEF Inst
  <1>5. PICK q \in ReqType : q = [req[r] EXCEPT !.pc = "register", !.i = i]
    BY KeptTypes DEF ReqType, RequestPC
  <1>6. q.pc = "register" /\ q.i = i /\ q.id = id
    BY <1>2, <1>5, KeptTypes DEF ReqType
  <1>7. inst' = [inst EXCEPT ![i] = rec] /\ req' = [req EXCEPT ![r] = q]
    BY <1>2, <1>3, <1>5 DEF Spawn
  <1>8. /\ inst' \in [Insts -> Inst] /\ inst'[i] = rec
        /\ \A j \in Insts \ {i} : inst'[j] = inst[j]
        /\ req' \in [Requests -> ReqType] /\ req'[r] = q
        /\ \A x \in Requests \ {r} : req'[x] = req[x]
        /\ sessions' = sessions /\ sweep' = sweep /\ req[r].pc = "spawn"
    <2>1. /\ inst' \in [Insts -> Inst] /\ inst'[i] = rec
          /\ \A j \in Insts \ {i} : inst'[j] = inst[j]
      BY <1>7, KeptTypes
    <2>2. /\ req' \in [Requests -> ReqType] /\ req'[r] = q
          /\ \A x \in Requests \ {r} : req'[x] = req[x]
      BY <1>7, KeptTypes
    <2>3. sessions' = sessions /\ sweep' = sweep /\ req[r].pc = "spawn"
      BY DEF Spawn
    <2> QED
      BY <2>1, <2>2, <2>3
  <1>9. KeptTyped'
    BY <1>8, KeptTypes DEF KeptTyped
  <1>10. EndsForGood'
    BY <1>1, <1>2, <1>4, <1>8 DEF EndsForGood
  <1>11. \A id0 \in Ids : sessions[id0] # NoInst => sessions[id0] \in Insts \ {i}
    BY <1>1, <1>2 DEF KeptTyped, UnderOwnId
  <1>12. UnderOwnId'
    <2>1. ASSUME NEW id0 \in Ids, sessions'[id0] # NoInst
          PROVE  inst'[sessions'[id0]].id = id0 /\ inst'[sessions'[id0]].st # "unused"
      <3>1. PICK j \in Insts \ {i} : j = sessions[id0] /\ j = sessions'[id0] /\ inst'[j] = inst[j]
        BY <1>8, <1>11, <2>1
      <3>2. inst[j].id = id0 /\ inst[j].st # "unused"
        BY <1>1, <1>8, <2>1, <3>1 DEF UnderOwnId
      <3> QED
        BY <3>1, <3>2
    <2> QED
      BY <2>1 DEF UnderOwnId
  <1>13. \A x : DeadUnder(x) => DeadNext(x)
    BY <1>2, <1>8 DEF DeadUnder, DeadNext
  <1>14. \A x \in Requests : req'[x].pc = "killed" => DeadNext(req'[x].id)
    BY <1>1, <1>6, <1>8, <1>13 DEF Promised
  <1>15. \A x \in Requests \ {r} : req[x].pc = "register" => req[x].i \in Insts \ {i}
    BY <1>1, <1>2 DEF Promised
  <1>16. Promised'
    <2>1. ASSUME NEW x \in Requests
          PROVE  /\ req'[x].pc # "idle" => req'[x].id \in Ids
                 /\ req'[x].pc = "register" => /\ req'[x].i \in Insts
                                               /\ inst'[req'[x].i].id = req'[x].id
                                               /\ inst'[req'[x].i].st # "unused"
      <3>1. CASE x = r
        BY <1>4, <1>6, <1>8, <3>1
      <3>2. CASE x # r
        BY <1>1, <1>8, <1>15, <3>2 DEF Promised
      <3> QED
        BY <3>1, <3>2
    <2> QED
      BY <1>14, <2>1 DEF Promised, DeadUnder, DeadNext
  <1>17. SweepsDead'
    <2>1. sweep.pc = "killed" => sweep.id \in Ids /\ DeadNext(sweep.id)
      BY <1>1, <1>13 DEF SweepsDead
    <2> QED
      BY <1>8, <2>1 DEF SweepsDead, DeadUnder, DeadNext
  <1>18. NoneLost'
    <2> SUFFICES ASSUME NEW x \in Insts, inst'[x].st = "alive"
                 PROVE  Registering(x)' \/ sessions'[inst'[x].id] = x \/ Reused(x)'
      BY DEF NoneLost
    <2>1. CASE x = i
      BY <1>6, <1>8, <2>1 DEF Registering
    <2>2. CASE x # i
      <3>1. inst'[x] = inst[x] /\ inst[x].st = "alive"
        BY <1>8, <2>2
      <3>2. CASE Registering(x)
        <4>1. PICK y \in Requests : req[y].pc = "register" /\ req[y].i = x
          BY <3>2 DEF Registering
        <4>2. req'[y] = req[y]
          BY <1>8, <4>1
        <4> QED
          BY <4>1, <4>2 DEF Registering
      <3>3. CASE sessions[inst[x].id] = x
        BY <1>8, <3>1, <3>3
      <3>4. CASE Reused(x)
        <4>1. PICK j \in Insts \ {x} : inst[j].id = inst[x].id /\ inst[j].st # "unused"
          BY <3>4 DEF Reused
        <4>2. inst'[j] = inst[j]
          BY <1>2, <1>8, <4>1
        <4> QED
          BY <3>1, <4>1, <4>2 DEF Reused
      <3> QED
        BY <1>1, <3>1, <3>2, <3>3, <3>4 DEF NoneLost
    <2> QED
      BY <2>1, <2>2
  <1> QED
    BY <1>9, <1>10, <1>12, <1>16, <1>17, <1>18 DEF KeptInv

\* A shell that is registered is found under its id; the one it replaces has
\* the same id.
LEMMA KeptRegister ==
  ASSUME KeptInv, NEW r \in Requests, Register(r)
  PROVE  KeptInv'
  <1>1. KeptTyped /\ EndsForGood /\ UnderOwnId /\ Promised /\ SweepsDead /\ NoneLost
    BY DEF KeptInv
  <1>2. PICK i \in Insts, id \in Ids : i = req[r].i /\ id = req[r].id
    BY <1>1 DEF Register, Promised
  <1>3. PICK old \in Inst : old = inst[i] /\ old.id = id /\ old.st # "unused"
    BY <1>1, <1>2 DEF Register, Promised, KeptTyped
  <1>4. PICK rec \in Inst : rec = [old EXCEPT !.registered = TRUE, !.writer = TRUE]
    BY DEF Inst
  <1>5. rec.id = id /\ rec.st = old.st /\ rec.closed = old.closed /\ rec.wait = old.wait
    BY <1>3, <1>4 DEF Inst
  <1>6. /\ inst' = [inst EXCEPT ![i] = rec] /\ req' = [req EXCEPT ![r] = Idle]
        /\ sessions' = [sessions EXCEPT ![id] = i]
    BY <1>2, <1>3, <1>4 DEF Register
  <1>7. inst' \in [Insts -> Inst] /\ Evolves
    <2>1. old.closed \/ old.wait # "none" => old.st = "dead"
      BY <1>1, <1>3 DEF EndsForGood
    <2> QED
      BY <1>3, <1>5, <1>6, <2>1, OneEvolves
  <1>8. /\ req' \in [Requests -> ReqType] /\ req'[r].pc = "idle"
        /\ \A x \in Requests \ {r} : req'[x] = req[x]
        /\ sessions' \in [Ids -> Insts \cup {NoInst}] /\ sessions'[id] = i
        /\ \A x \in Ids \ {id} : sessions'[x] = sessions[x]
        /\ sweep' = sweep
    BY <1>6, KeptTypes DEF Register
  <1>9. KeptTyped'
    BY <1>7, <1>8, KeptTypes DEF KeptTyped
  <1>10. EndsForGood'
    BY <1>1, <1>7 DEF Evolves, EndsForGood
  <1>11. UnderOwnId'
    <2>1. \A x \in Ids : sessions[x] # NoInst => sessions[x] \in Insts
      BY <1>1 DEF KeptTyped
    <2>2. inst'[i].id = id /\ inst'[i].st # "unused"
      BY <1>3, <1>7 DEF Evolves
    <2> QED
      BY <1>1, <1>7, <1>8, <2>1, <2>2 DEF Evolves, UnderOwnId
  <1>12. Promised'
    <2>1. \A x \in Requests : req'[x].pc = "killed" => DeadNext(req'[x].id)
      BY <1>1, <1>7, <1>8, DeadStays DEF Promised
    <2> QED
      BY <1>1, <1>7, <1>8, <2>1 DEF Promised, Evolves, DeadUnder, DeadNext
  <1>13. SweepsDead'
    BY <1>7, <1>8, SweepWaits
  <1>14. NoneLost'
    <2> SUFFICES ASSUME NEW x \in Insts, inst'[x].st = "alive"
                 PROVE  Registering(x)' \/ sessions'[inst'[x].id] = x \/ Reused(x)'
      BY DEF NoneLost
    <2>1. PICK xid \in Ids : xid = inst[x].id /\ xid = inst'[x].id /\ inst[x].st = "alive"
      BY <1>1, <1>7 DEF Evolves, EndsForGood
    <2>2. CASE x = i
      BY <1>3, <1>8, <2>1, <2>2
    <2>3. CASE x # i /\ xid = id
      <3>1. inst'[i].id = inst'[x].id /\ inst'[i].st # "unused"
        BY <1>3, <1>7, <2>1, <2>3 DEF Evolves
      <3> QED
        BY <2>3, <3>1 DEF Reused
    <2>4. CASE x # i /\ xid # id
      <3>1. CASE Registering(x)
        <4>1. PICK y \in Requests : req[y].pc = "register" /\ req[y].i = x
          BY <3>1 DEF Registering
        <4>2. req'[y] = req[y]
          BY <1>2, <1>8, <2>4, <4>1
        <4> QED
          BY <4>1, <4>2 DEF Registering
      <3>2. CASE sessions[xid] = x
        BY <1>8, <2>1, <2>4, <3>2
      <3>3. CASE Reused(x)
        BY <1>7, <3>3 DEF Reused, Evolves
      <3> QED
        BY <1>1, <2>1, <3>1, <3>2, <3>3 DEF NoneLost
    <2> QED
      BY <2>2, <2>3, <2>4
  <1> QED
    BY <1>9, <1>10, <1>11, <1>12, <1>13, <1>14 DEF KeptInv
LEMMA KeptRequests ==
  ASSUME KeptInv, NEW r \in Requests, Call(r) \/ Step(r)
  PROVE  KeptInv'
  <1>1. ASSUME NEW id \in Ids, AttachExisting(r, id) PROVE KeptInv'
    <2>1. PICK i \in Insts, old \in Inst : i = sessions[id] /\ old = inst[i]
      BY <1>1, KeptTypes DEF AttachExisting
    <2>2. PICK rec \in Inst : rec = [old EXCEPT !.writer = TRUE, !.attachOld = FALSE]
      BY DEF Inst
    <2>3. rec.id = old.id /\ rec.st = old.st /\ rec.closed = old.closed /\ rec.wait = old.wait
      BY <2>2 DEF Inst
    <2>4. inst' = [inst EXCEPT ![i] = rec] /\ req' = req /\ sweep' = sweep /\ sessions' = sessions
      BY <1>1, <2>1, <2>2 DEF AttachExisting
    <2>5. old.closed \/ old.wait # "none" => old.st = "dead"
      BY <2>1 DEF KeptInv, EndsForGood
    <2>6. inst' \in [Insts -> Inst] /\ Evolves
      BY <2>1, <2>3, <2>4, <2>5, OneEvolves
    <2> QED
      BY <2>4, <2>6, SweepWaits, SessionsStay, KeptOthers
  <1>2. ASSUME NEW q \in ReqType, req' = [req EXCEPT ![r] = q], req[r].pc # "register",
               q.pc \notin {"register", "killed"}, q.pc # "idle" => q.id \in Ids,
               UNCHANGED <<sessions, inst, sweep>>
        PROVE  KeptInv'
    <2>1. q.pc # "register" /\ (q.pc = "killed" => DeadNext(q.id))
      BY <1>2
    <2>2. inst' \in [Insts -> Inst] /\ Evolves /\ sessions' = sessions /\ sweep' = sweep
      BY <1>2, NoneEvolves
    <2>3. /\ sessions' \in [Ids -> Insts \cup {NoInst}]
          /\ \A x \in Ids : sessions'[x] = sessions[x] \/ (sessions'[x] = NoInst /\ DeadUnder(x))
      BY <2>2, SessionsStay
    <2> QED
      BY <1>2, <2>1, <2>2, <2>3, KeptRequest
  <1>3. ASSUME NEW id \in Ids, AttachMissing(r, id) PROVE KeptInv'
    <2>1. PICK q \in ReqType : q = [pc |-> "cap", id |-> id, i |-> NoInst]
      BY DEF ReqType, RequestPC
    <2>2. q.pc = "cap" /\ q.id = id
      BY <2>1
    <2> QED
      BY <1>2, <1>3, <2>1, <2>2 DEF AttachMissing
  <1>4. CASE CheckCap(r) \/ SpawnFails(r)
    <2>1. PICK old \in ReqType : old = req[r] /\ old.pc \in {"cap", "spawn"} /\ old.id \in Ids
      BY <1>4, KeptTypes DEF CheckCap, SpawnFails
    <2>2. PICK sp \in ReqType : sp = [old EXCEPT !.pc = "spawn"] /\ sp.pc = "spawn" /\ sp.id = old.id
      <3>1. PICK sp \in ReqType : sp = [old EXCEPT !.pc = "spawn"]
        BY DEF ReqType, RequestPC
      <3>2. sp.pc = "spawn" /\ sp.id = old.id
        BY <3>1 DEF ReqType
      <3> QED
        BY <3>1, <3>2
    <2>3. req' = [req EXCEPT ![r] = Idle] \/ req' = [req EXCEPT ![r] = sp]
      BY <1>4, <2>1, <2>2 DEF CheckCap, SpawnFails
    <2>4. UNCHANGED <<sessions, inst, sweep>> /\ req[r].pc # "register"
      BY <1>4, <2>1 DEF CheckCap, SpawnFails
    <2> QED
      BY <1>2, <2>1, <2>2, <2>3, <2>4, KeptTypes
  <1>5. ASSUME NEW id \in Ids, KillCall(r, id) PROVE KeptInv'
    <2>1. PICK q \in ReqType : q = [Idle EXCEPT !.pc = "killed", !.id = id]
      BY KeptTypes DEF ReqType, RequestPC
    <2>2. q.pc = "killed" /\ q.id = id
      BY <2>1 DEF Idle
    <2>3. /\ req' = [req EXCEPT ![r] = q] /\ req[r].pc # "register"
          /\ sessions' = sessions /\ sweep' = sweep
      BY <1>5, <2>1 DEF KillCall
    <2>4. inst' \in [Insts -> Inst] /\ Evolves /\ DeadNext(id)
      BY <1>5, KillEvolves DEF KillCall
    <2>5. /\ sessions' \in [Ids -> Insts \cup {NoInst}]
          /\ \A x \in Ids : sessions'[x] = sessions[x] \/ (sessions'[x] = NoInst /\ DeadUnder(x))
      BY <2>3, SessionsStay
    <2> QED
      BY <2>2, <2>3, <2>4, <2>5, KeptRequest
  <1>6. CASE KillDone(r)
    <2>1. PICK id \in Ids : id = req[r].id /\ DeadUnder(id)
      BY <1>6 DEF KillDone, KeptInv, Promised
    <2>2. /\ Unregister(id) /\ req' = [req EXCEPT ![r] = Idle] /\ req[r].pc # "register"
          /\ inst' = inst /\ sweep' = sweep
      BY <1>6, <2>1 DEF KillDone
    <2>3. /\ sessions' \in [Ids -> Insts \cup {NoInst}]
          /\ \A x \in Ids : sessions'[x] = sessions[x] \/ (sessions'[x] = NoInst /\ DeadUnder(x))
      BY <2>1, <2>2, UnregisterDead
    <2> QED
      BY <2>2, <2>3, KeptTypes, NoneEvolves, KeptRequest
  <1> QED
    BY <1>1, <1>3, <1>4, <1>5, <1>6, KeptSpawn, KeptRegister DEF Call, Step

LEMMA KeptSessions ==
  ASSUME KeptInv, NEW i \in Insts, Goroutine(i) \/ Environment(i)
  PROVE  KeptInv'
  <1>1. PICK old \in Inst : old = inst[i]
    BY KeptTypes
  <1>2. /\ old.closed \/ old.wait # "none" => old.st = "dead"
        /\ old.st # "unused" => old.id \in Ids
    BY <1>1 DEF KeptInv, EndsForGood
  <1>3. req' = req /\ sweep' = sweep
    BY DEF Goroutine, Environment, WaitUnregister, WaitKill, AppendDump, ShellExits, Output,
       WriterLeaves, Input, Age
  <1>4. PICK rec \in Inst :
          /\ inst' = [inst EXCEPT ![i] = rec] /\ rec.id = old.id
          /\ (rec.st = "unused") = (old.st = "unused")
          /\ old.st = "dead" => rec.st = "dead"
          /\ rec.st = "alive" => old.st = "alive"
          /\ rec.closed \/ rec.wait # "none" => rec.st = "dead"
    <2>1. CASE WaitUnregister(i)
      <3>1. PICK rec \in Inst : rec = [old EXCEPT !.wait = "kill"]
        BY DEF Inst
      <3>2. inst' = [inst EXCEPT ![i] = rec] /\ old.wait = "exit"
        BY <1>1, <2>1, <3>1 DEF WaitUnregister
      <3>3. rec.id = old.id /\ rec.st = old.st
        BY <3>1 DEF Inst
      <3> QED
        BY <1>2, <3>2, <3>3
    <2>2. CASE WaitKill(i)
      <3>1. PICK rec \in Inst : rec = [old EXCEPT !.wait = "done", !.closed = TRUE, !.writer = FALSE]
        BY DEF Inst
      <3>2. inst' = [inst EXCEPT ![i] = rec] /\ old.wait = "kill"
        BY <1>1, <2>2, <3>1 DEF WaitKill
      <3>3. rec.id = old.id /\ rec.st = old.st
        BY <3>1 DEF Inst
      <3> QED
        BY <1>2, <3>2, <3>3
    <2>3. CASE ShellExits(i)
      <3>1. PICK rec \in Inst : rec = [old EXCEPT !.st = "dead", !.wait = "exit"]
        BY DEF Inst
      <3>2. inst' = [inst EXCEPT ![i] = rec] /\ old.st = "alive"
        BY <1>1, <2>3, <3>1 DEF ShellExits
      <3>3. rec.id = old.id /\ rec.st = "dead"
        BY <3>1 DEF Inst
      <3> QED
        BY <3>2, <3>3
    <2>4. CASE AppendDump(i) \/ Output(i) \/ WriterLeaves(i) \/ Input(i) \/ Age(i)
      <3>1. PICK f \in {"hand", "writer", "inputOld", "attachOld"}, b \in BOOLEAN :
                    inst' = [inst EXCEPT ![i] = [old EXCEPT ![f] = b]]
        BY <1>1, <2>4 DEF AppendDump, Output, WriterLeaves, Input, Age
      <3>2. PICK rec \in Inst :
              /\ rec = [old EXCEPT ![f] = b] /\ rec.id = old.id /\ rec.st = old.st
              /\ rec.closed = old.closed /\ rec.wait = old.wait
        <4>1. PICK rec \in Inst : rec = [old EXCEPT ![f] = b]
          BY DEF Inst
        <4>2. /\ rec.id = old.id /\ rec.st = old.st
              /\ rec.closed = old.closed /\ rec.wait = old.wait
          BY <4>1 DEF Inst
        <4> QED
          BY <4>1, <4>2
      <3> QED
        BY <1>2, <3>1, <3>2
    <2> QED
      BY <2>1, <2>2, <2>3, <2>4 DEF Goroutine, Environment
  <1>5. inst' \in [Insts -> Inst] /\ Evolves
    BY <1>1, <1>4, OneEvolves
  <1>6. /\ sessions' \in [Ids -> Insts \cup {NoInst}]
        /\ \A x \in Ids : sessions'[x] = sessions[x] \/ (sessions'[x] = NoInst /\ DeadUnder(x))
    <2>1. CASE WaitUnregister(i)
      <3>1. PICK id \in Ids : id = old.id /\ old.st = "dead"
        BY <1>1, <1>2, <2>1 DEF WaitUnregister
      <3>2. DeadUnder(id) /\ Unregister(id)
        BY <1>1, <2>1, <3>1 DEF WaitUnregister, DeadUnder
      <3> QED
        BY <3>2, UnregisterDead
    <2>2. CASE ~WaitUnregister(i)
      <3>1. sessions' = sessions
        BY <2>2 DEF Goroutine, Environment, WaitKill, AppendDump, ShellExits, Output,
           WriterLeaves, Input, Age
      <3> QED
        BY <3>1, SessionsStay
    <2> QED
      BY <2>1, <2>2
  <1> QED
    BY <1>3, <1>5, <1>6, SweepWaits, KeptOthers

LEMMA KeptSweep ==
  ASSUME KeptInv, Sweeping
  PROVE  KeptInv'
  <1>1. sweep \in SweepType /\ SweepsDead
    BY KeptTypes
  <1>2. CASE SweepTick
    <2>1. PICK I \in SUBSET Ids : I = ToKill
      BY DEF ToKill
    <2>2. sweep' \in SweepType /\ sweep'.pc = "next"
      BY <1>1, <1>2, <2>1 DEF SweepTick, SweepType
    <2>3. req' = req /\ inst' = inst /\ sessions' = sessions
      BY <1>2 DEF SweepTick
    <2>4. SweepsDead'
      BY <2>2 DEF SweepsDead
    <2> QED
      BY <2>2, <2>3, <2>4, NoneEvolves, SessionsStay, KeptOthers
  <1>3. ASSUME NEW id \in Ids, SweepKill(id) PROVE KeptInv'
    <2>1. req' = req /\ sessions' = sessions
      BY <1>3 DEF SweepKill
    <2>2. CASE sessions[id] = NoInst
      <3>1. inst' = inst /\ sweep' \in SweepType /\ sweep'.pc # "killed"
        <4>1. PICK pc \in {"idle", "next"} : pc = IF sweep.ids = {id} THEN "idle" ELSE "next"
          OBVIOUS
        <4>2. sweep' = [sweep EXCEPT !.ids = @ \ {id}, !.pc = pc] /\ inst' = inst
          BY <1>3, <2>2, <4>1 DEF SweepKill
        <4> QED
          BY <1>1, <4>2 DEF SweepType
      <3>2. SweepsDead'
        BY <3>1 DEF SweepsDead
      <3> QED
        BY <2>1, <3>1, <3>2, NoneEvolves, SessionsStay, KeptOthers
    <2>3. CASE sessions[id] # NoInst
      <3>1. KillInst(sessions[id]) /\ sweep' = [sweep EXCEPT !.pc = "killed", !.id = id]
        BY <1>3, <2>3 DEF SweepKill
      <3>2. sweep' \in SweepType /\ sweep'.id = id
        BY <1>1, <3>1 DEF SweepType
      <3>3. inst' \in [Insts -> Inst] /\ Evolves /\ DeadNext(id)
        BY <2>3, <3>1, KillEvolves
      <3>4. SweepsDead'
        BY <3>2, <3>3 DEF SweepsDead, DeadUnder, DeadNext
      <3> QED
        BY <2>1, <3>2, <3>3, <3>4, SessionsStay, KeptOthers
    <2> QED
      BY <2>2, <2>3
  <1>4. CASE SweepDone
    <2>1. PICK id \in Ids : id = sweep.id /\ DeadUnder(id)
      BY <1>1, <1>4 DEF SweepDone, SweepsDead
    <2>2. Unregister(id) /\ req' = req /\ inst' = inst
      BY <1>4, <2>1 DEF SweepDone
    <2>3. sweep' \in SweepType /\ sweep'.pc # "killed"
      <3>1. PICK pc \in {"idle", "next"} : pc = IF sweep.ids = {sweep.id} THEN "idle" ELSE "next"
        OBVIOUS
      <3>2. sweep' = [sweep EXCEPT !.ids = @ \ {sweep.id}, !.id = "none", !.pc = pc]
        BY <1>4, <3>1 DEF SweepDone
      <3> QED
        BY <1>1, <3>2 DEF SweepType
    <2>4. SweepsDead'
      BY <2>3 DEF SweepsDead
    <2>5. /\ sessions' \in [Ids -> Insts \cup {NoInst}]
          /\ \A x \in Ids : sessions'[x] = sessions[x] \/ (sessions'[x] = NoInst /\ DeadUnder(x))
      BY <2>1, <2>2, UnregisterDead
    <2> QED
      BY <2>2, <2>3, <2>4, <2>5, NoneEvolves, KeptOthers
  <1> QED
    BY <1>2, <1>3, <1>4 DEF Sweeping

LEMMA EmptyIsKept == Empty => KeptInv
  <1> SUFFICES ASSUME Empty PROVE KeptInv
    OBVIOUS
  <1>1. /\ NewInst \in Inst /\ NewInst.st = "unused" /\ NewInst.wait = "none" /\ ~NewInst.closed
        /\ Idle \in ReqType /\ Idle.pc = "idle"
        /\ IdleSweep \in SweepType /\ IdleSweep.pc = "idle"
    BY DEF NewInst, Inst, Idle, ReqType, RequestPC, IdleSweep, SweepType
  <1>2. KeptTyped
    BY <1>1 DEF Empty, KeptTyped
  <1>3. /\ \A i \in Insts : inst[i] = NewInst
        /\ \A r \in Requests : req[r] = Idle
        /\ \A id \in Ids : sessions[id] = NoInst
        /\ sweep = IdleSweep
    BY DEF Empty
  <1>4. EndsForGood /\ UnderOwnId /\ Promised /\ SweepsDead /\ NoneLost
    BY <1>1, <1>3 DEF EndsForGood, UnderOwnId, Promised, SweepsDead, NoneLost
  <1> QED
    BY <1>2, <1>4 DEF KeptInv

LEMMA KeptNext == KeptInv /\ [Next]_vars => KeptInv'
  <1> SUFFICES ASSUME KeptInv, [Next]_vars PROVE KeptInv'
    OBVIOUS
  <1>1. CASE Restart
    <2>1. Empty'
      BY <1>1 DEF Restart, Empty
    <2>2. (Empty => KeptInv)'
      BY EmptyIsKept, PTL
    <2> QED
      BY <2>1, <2>2
  <1>2. CASE UNCHANGED vars
    <2>1. req' = req /\ inst' = inst /\ sessions' = sessions /\ sweep' = sweep
      BY <1>2 DEF vars
    <2> QED
      BY <2>1, NoneEvolves, SessionsStay, SweepWaits, KeptOthers
  <1> QED
    BY <1>1, <1>2, KeptRequests, KeptSessions, KeptSweep DEF Next

\* No order of creating, ending, killing, sweeping and restarting makes the
\* hub lose a running shell from its maps, unless a second session of the
\* same id was started: unregister deletes by id, but only after a session of
\* that id has ended, also when a shell ends before Create has registered it.
THEOREM OnlyReuseLosesShells == Spec => []LostOnlyByReuse
  <1>1. KeptInv => LostOnlyByReuse
    <2> SUFFICES ASSUME KeptInv, AllIdle, NEW i \in Insts, inst[i].st = "alive"
                 PROVE  sessions[inst[i].id] = i \/ Reused(i)
      BY DEF LostOnlyByReuse, Quiet, Reused
    <2>1. ~Registering(i)
      BY DEF AllIdle, Registering
    <2> QED
      BY <2>1 DEF KeptInv, NoneLost
  <1>2. Init => KeptInv
    BY EmptyIsKept DEF Init, Empty
  <1> QED
    BY <1>1, <1>2, KeptNext, PTL DEF Spec
=============================================================================
