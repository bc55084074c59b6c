------------------------- MODULE TerminalPopupProofs -------------------------
(***************************************************************************)
(* A pane of the floating terminal belongs to one shell: for any number of *)
(* shells, gestures, lost sockets and restarts.                            *)
(*                                                                         *)
(* The client names its shell to the service by a session id, and an id    *)
(* may have belonged to several shells.  The proof rests on two facts: of  *)
(* the shells that are alive no two have one id, and the id the client     *)
(* asks for is that of the shell on show.                                  *)
(***************************************************************************)
EXTENDS TerminalPopup, SequenceTheorems, TLAPS

TpShell == [id : Nat, alive : BOOLEAN]
TpClientType ==
    [ws : {"none", "connecting", "open", "waiting"}, id : Nat, on : Nat, shown : Nat,
     role : {"none", "writer", "reader"}, heard : BOOLEAN, pending : Seq(Nat)]

\* An id names at most one shell that is alive.
IdsApart ==
    \A s, t \in DOMAIN tpShells :
        tpShells[s].alive /\ tpShells[t].alive /\ tpShells[s].id = tpShells[t].id => s = t

\* No id comes from the future: that of a new shell is free.
IdsKnown ==
    /\ \A s \in DOMAIN tpShells : tpShells[s].id \in 1 .. s
    /\ tpActive \in 0 .. Len(tpShells)
    /\ tpClient.id \in 0 .. Len(tpShells)

\* The client asks for the shell on show, an open socket has a shell, and what is
\* queued was typed at the shell on show, if at one that is alive.
ClientTied ==
    /\ tpClient.shown # NoShell => tpClient.shown \in DOMAIN tpShells /\ tpClient.id = tpShells[tpClient.shown].id
    /\ IF tpClient.ws = "open" THEN tpClient.on \in DOMAIN tpShells ELSE tpClient.on = NoShell
    /\ \A i \in DOMAIN tpClient.pending :
         /\ tpClient.pending[i] \in 0 .. Len(tpShells)
         /\ TpLives(tpClient.pending[i]) => tpClient.pending[i] = tpClient.shown

\* The inductive invariant.
PopupInv == TpTypeOK /\ IdsApart /\ IdsKnown /\ ClientTied /\ OneShell

\* No shell was made; some may have died.
ShellsOnlyDie ==
    /\ tpShells' \in Seq(TpShell)
    /\ DOMAIN tpShells' = DOMAIN tpShells
    /\ \A s \in DOMAIN tpShells :
         tpShells'[s].id = tpShells[s].id /\ (tpShells'[s].alive => tpShells[s].alive)

-----------------------------------------------------------------------------
(* Shells.                                                                 *)

LEMMA ShellsNumbered ==
  ASSUME TpTypeOK
  PROVE  /\ tpShells \in Seq(TpShell)
         /\ Len(tpShells) \in Nat
         /\ DOMAIN tpShells = 1 .. Len(tpShells)
         /\ \A s \in DOMAIN tpShells : tpShells[s] \in TpShell
  <1>1. tpShells \in Seq(TpShell)
    BY DEF TpTypeOK, TpShell
  <1> QED
    BY <1>1, LenProperties, ElementOfSeq

LEMMA NoShellDies == ASSUME TpTypeOK, UNCHANGED tpShells PROVE ShellsOnlyDie
  BY ShellsNumbered DEF ShellsOnlyDie

\* Marking shells dead makes none.
LEMMA DyingShells ==
  ASSUME TpTypeOK, NEW P,
         tpShells' = [s \in DOMAIN tpShells |-> [tpShells[s] EXCEPT !.alive = @ /\ s \notin P]]
  PROVE  ShellsOnlyDie
  <1>1. \A s \in DOMAIN tpShells : tpShells'[s] = [tpShells[s] EXCEPT !.alive = @ /\ s \notin P]
    OBVIOUS
  <1>2. \A s \in DOMAIN tpShells :
          /\ tpShells'[s] \in TpShell
          /\ tpShells'[s].id = tpShells[s].id
          /\ tpShells'[s].alive => tpShells[s].alive
    <2> TAKE s \in DOMAIN tpShells
    <2> DEFINE r == tpShells[s]
    <2>1. r \in TpShell
      BY ShellsNumbered
    <2>2. tpShells'[s] = [r EXCEPT !.alive = r.alive /\ s \notin P]
      BY <1>1
    <2> HIDE DEF r
    <2>3. (r.alive /\ s \notin P) \in BOOLEAN
      BY <2>1 DEF TpShell
    <2>4. tpShells'[s] \in TpShell /\ tpShells'[s].id = r.id /\ (tpShells'[s].alive => r.alive)
      BY <2>1, <2>2, <2>3 DEF TpShell
    <2> QED
      BY <2>4 DEF r
  <1>3. tpShells' \in [1 .. Len(tpShells) -> TpShell]
    BY <1>2, ShellsNumbered
  <1>4. tpShells' \in Seq(TpShell)
    BY <1>3, ShellsNumbered, SeqDef
  <1> QED
    BY <1>2, <1>4 DEF ShellsOnlyDie

LEMMA DyingKeeps ==
  ASSUME TpTypeOK, ShellsOnlyDie
  PROVE  /\ Len(tpShells') = Len(tpShells)
         /\ \A s : TpLives(s)' => TpLives(s)
         /\ IdsApart => IdsApart'
         /\ (\A s \in DOMAIN tpShells : tpShells[s].id \in 1 .. s) => \A s \in DOMAIN tpShells' : tpShells'[s].id \in 1 .. s
  <1>1. Len(tpShells') \in Nat /\ DOMAIN tpShells' = 1 .. Len(tpShells')
    BY LenProperties DEF ShellsOnlyDie
  <1>2. Len(tpShells') = Len(tpShells)
    BY <1>1, ShellsNumbered DEF ShellsOnlyDie
  <1>3. IdsApart => IdsApart'
    BY DEF ShellsOnlyDie, IdsApart
  <1> QED
    BY <1>2, <1>3 DEF ShellsOnlyDie, TpLives

-----------------------------------------------------------------------------
(* The window: the pane goes, or comes with a client of its own.           *)

LEMMA WindowStep ==
  ASSUME PopupInv, ShellsOnlyDie, tpDelivered' = tpDelivered, tpLast' \in Nat,
         tpActive' \in {tpActive, NoId},
         \/ tpWindow' \in {"closed", "minimized"} /\ tpClient' = NoClient
         \/ tpWindow' = "open" /\ tpClient' = MountPane(tpActive')
  PROVE  PopupInv'
  <1>1. TpTypeOK /\ IdsApart /\ IdsKnown /\ OneShell
    BY DEF PopupInv
  <1>2. /\ Len(tpShells') = Len(tpShells) /\ Len(tpShells) \in Nat /\ IdsApart'
        /\ \A s \in DOMAIN tpShells' : tpShells'[s].id \in 1 .. s
    BY <1>1, DyingKeeps, ShellsNumbered DEF IdsKnown
  <1>3. tpActive' \in 0 .. Len(tpShells')
    BY <1>1, <1>2 DEF IdsKnown, NoId
  <1>4. << >> \in Seq(Nat) /\ DOMAIN << >> = {}
    BY EmptySeq
  <1>5. /\ tpClient' \in TpClientType
        /\ tpClient'.ws # "open"
        /\ (tpWindow' = "open") = (tpClient'.ws # "none")
        /\ tpClient'.id \in 0 .. Len(tpShells')
        /\ tpClient'.shown = NoShell /\ tpClient'.on = NoShell
        /\ tpClient'.pending = << >>
    <2>1. CASE tpWindow' \in {"closed", "minimized"} /\ tpClient' = NoClient
      BY <1>2, <1>4, <2>1 DEF NoClient, TpClientType, NoId, NoShell
    <2>2. CASE tpWindow' = "open" /\ tpClient' = MountPane(tpActive')
      <3>1. tpClient' = [ws |-> "connecting", id |-> tpActive', on |-> NoShell, shown |-> NoShell, role |-> "none",
                         heard |-> FALSE, pending |-> <<>>]
        BY <2>2 DEF MountPane, NoClient
      <3> QED
        BY <1>3, <1>4, <2>2, <3>1 DEF TpClientType, NoShell
    <2> QED
      BY <2>1, <2>2
  <1>6. TpTypeOK'
    BY <1>2, <1>3, <1>5 DEF TpTypeOK, ShellsOnlyDie, TpShell, TpClientType
  <1>7. ClientTied'
    BY <1>4, <1>5 DEF ClientTied
  <1>8. OneShell'
    BY <1>1, <1>5 DEF OneShell, PaneKeepsItsShell, TypedReachesItsShell
  <1> QED
    BY <1>2, <1>3, <1>5, <1>6, <1>7, <1>8 DEF PopupInv, IdsKnown

-----------------------------------------------------------------------------
(* The client.                                                             *)

\* A lost socket, a timer, a shell that dies: the client keeps what it knows.
LEMMA KeptStep ==
  ASSUME PopupInv, ShellsOnlyDie,
         tpClient' \in TpClientType,
         tpClient'.id = tpClient.id, tpClient'.shown = tpClient.shown, tpClient'.pending = tpClient.pending,
         (tpClient'.ws = "none") = (tpClient.ws = "none"),
         tpClient' = tpClient \/ (tpClient'.ws # "open" /\ tpClient'.on = NoShell),
         UNCHANGED <<tpActive, tpWindow, tpDelivered, tpLast>>
  PROVE  PopupInv'
  <1>1. TpTypeOK /\ IdsApart /\ IdsKnown /\ OneShell /\ ClientTied
    BY DEF PopupInv
  <1>2. /\ Len(tpShells') = Len(tpShells) /\ Len(tpShells) \in Nat /\ IdsApart'
        /\ \A s : TpLives(s)' => TpLives(s)
        /\ \A s \in DOMAIN tpShells' : tpShells'[s].id \in 1 .. s
    BY <1>1, DyingKeeps, ShellsNumbered DEF IdsKnown
  <1>3. TpTypeOK'
    BY <1>1 DEF TpTypeOK, ShellsOnlyDie, TpShell, TpClientType
  <1>4. IdsKnown'
    BY <1>1, <1>2 DEF IdsKnown
  <1>5. ClientTied'
    <2>1. tpClient'.shown # NoShell =>
            tpClient'.shown \in DOMAIN tpShells' /\ tpClient'.id = tpShells'[tpClient'.shown].id
      BY <1>1 DEF ClientTied, ShellsOnlyDie
    <2>2. IF tpClient'.ws = "open" THEN tpClient'.on \in DOMAIN tpShells' ELSE tpClient'.on = NoShell
      BY <1>1 DEF ClientTied, ShellsOnlyDie
    <2>3. (\A i \in DOMAIN tpClient.pending :
             /\ tpClient.pending[i] \in 0 .. Len(tpShells)
             /\ TpLives(tpClient.pending[i]) => tpClient.pending[i] = tpClient.shown)'
      BY <1>1, <1>2 DEF ClientTied, TpLives
    <2> QED
      BY <2>1, <2>2, <2>3 DEF ClientTied
  <1>6. OneShell'
    <2>1. PaneKeepsItsShell'
      BY <1>1, <1>2 DEF OneShell, PaneKeepsItsShell
    <2>2. TypedReachesItsShell'
      BY <1>1 DEF OneShell, TypedReachesItsShell
    <2> QED
      BY <2>1, <2>2 DEF OneShell
  <1> QED
    BY <1>2, <1>3, <1>4, <1>5, <1>6 DEF PopupInv

LEMMA SameClientStep ==
  ASSUME PopupInv, ShellsOnlyDie, UNCHANGED <<tpClient, tpActive, tpWindow, tpDelivered, tpLast>>
  PROVE  PopupInv'
  <1>1. /\ tpClient' \in TpClientType
        /\ tpClient'.id = tpClient.id /\ tpClient'.shown = tpClient.shown /\ tpClient'.pending = tpClient.pending
        /\ (tpClient'.ws = "none") = (tpClient.ws = "none")
        /\ tpClient' = tpClient
    BY DEF PopupInv, TpTypeOK, TpClientType
  <1>2. tpClient' = tpClient \/ (tpClient'.ws # "open" /\ tpClient'.on = NoShell)
    BY <1>1
  <1>3. UNCHANGED <<tpActive, tpWindow, tpDelivered, tpLast>>
    OBVIOUS
  <1> QED
    BY <1>1, <1>2, <1>3, KeptStep

\* What an attached client sends, now or from its queue, is its shell's.
LEMMA ArriveStep ==
  ASSUME TypedReachesItsShell, NEW queue, NEW on,
         \A i \in DOMAIN queue : TpLives(queue[i]) => queue[i] = on,
         tpDelivered' \subseteq tpDelivered \cup
           {[meant |-> queue[i], got |-> on, gone |-> ~TpLives(queue[i])] : i \in DOMAIN queue}
  PROVE  TypedReachesItsShell'
  <1>1. ASSUME NEW k \in tpDelivered' PROVE k.meant = k.got \/ k.gone
    <2>1. CASE k \in tpDelivered
      BY <2>1 DEF TypedReachesItsShell
    <2>2. CASE \E i \in DOMAIN queue : k = [meant |-> queue[i], got |-> on, gone |-> ~TpLives(queue[i])]
      <3>1. PICK i \in DOMAIN queue : k = [meant |-> queue[i], got |-> on, gone |-> ~TpLives(queue[i])]
        BY <2>2
      <3>2. k.meant = queue[i] /\ k.got = on /\ k.gone = ~TpLives(queue[i])
        BY <3>1
      <3> QED
        BY <3>2
    <2> QED
      BY <2>1, <2>2
  <1> QED
    BY <1>1 DEF TypedReachesItsShell

LEMMA InputStep == ASSUME PopupInv, sendInput PROVE PopupInv'
  <1>1. TpTypeOK /\ IdsApart /\ IdsKnown /\ OneShell /\ ClientTied
    BY DEF PopupInv
  <1>2. tpClient \in TpClientType /\ tpClient.shown \in Nat
    BY <1>1 DEF TpTypeOK, TpClientType
  <1>3. UNCHANGED <<tpShells, tpActive, tpWindow, tpLast>>
    BY DEF sendInput
  <1>4. CASE TpSendable(tpClient)
    <2>1. tpDelivered' = TpArrive(<<tpClient.shown>>, tpClient) /\ UNCHANGED tpClient
      BY <1>4 DEF sendInput
    <2>2. \A i \in DOMAIN <<tpClient.shown>> : TpLives(<<tpClient.shown>>[i]) => <<tpClient.shown>>[i] = tpClient.on
      BY <1>1, <1>4 DEF OneShell, PaneKeepsItsShell, TpSendable
    <2>3. TypedReachesItsShell'
      BY <1>1, <2>1, <2>2, ArriveStep DEF OneShell, TpArrive
    <2>4. TpTypeOK' /\ IdsApart' /\ IdsKnown' /\ ClientTied' /\ PaneKeepsItsShell'
      BY <1>1, <1>3, <2>1
         DEF TpTypeOK, IdsApart, IdsKnown, ClientTied, OneShell, PaneKeepsItsShell, TpLives
    <2> QED
      BY <2>3, <2>4 DEF PopupInv, OneShell
  <1>5. CASE ~TpSendable(tpClient)
    <2> DEFINE q == Append(tpClient.pending, tpClient.shown)
    <2>1. tpClient' = [tpClient EXCEPT !.pending = q] /\ UNCHANGED tpDelivered
      BY <1>5 DEF sendInput
    <2>2. /\ q \in Seq(Nat)
          /\ Len(tpClient.pending) \in Nat
          /\ DOMAIN tpClient.pending = 1 .. Len(tpClient.pending)
          /\ DOMAIN q = 1 .. Len(tpClient.pending) + 1
          /\ \A i \in DOMAIN tpClient.pending : q[i] = tpClient.pending[i]
          /\ q[Len(tpClient.pending) + 1] = tpClient.shown
      BY <1>2, AppendProperties, LenProperties DEF TpClientType
    <2> HIDE DEF q
    <2>3. /\ tpClient' \in TpClientType /\ tpClient'.pending = q
          /\ tpClient'.id = tpClient.id /\ tpClient'.ws = tpClient.ws
          /\ tpClient'.on = tpClient.on /\ tpClient'.shown = tpClient.shown
      BY <1>2, <2>1, <2>2 DEF TpClientType
    <2>4. \A i \in DOMAIN q :
            q[i] \in 0 .. Len(tpShells) /\ (TpLives(q[i]) => q[i] = tpClient.shown)
      <3>1. tpClient.shown \in 0 .. Len(tpShells)
        BY <1>1, ShellsNumbered DEF ClientTied, NoShell
      <3> SUFFICES ASSUME NEW i \in DOMAIN q
                   PROVE  q[i] \in 0 .. Len(tpShells) /\ (TpLives(q[i]) => q[i] = tpClient.shown)
        OBVIOUS
      <3>2. CASE i \in DOMAIN tpClient.pending
        <4>1. q[i] = tpClient.pending[i]
          BY <2>2, <3>2
        <4> QED
          BY <1>1, <3>2, <4>1 DEF ClientTied
      <3>3. CASE i = Len(tpClient.pending) + 1
        <4>1. q[i] = tpClient.shown
          BY <2>2, <3>3
        <4> QED
          BY <3>1, <4>1
      <3> QED
        BY <2>2, <3>2, <3>3
    <2>5. TpTypeOK'
      BY <1>1, <1>3, <2>3 DEF TpTypeOK, TpClientType
    <2>6. IdsApart' /\ IdsKnown' /\ OneShell'
      BY <1>1, <1>3, <2>1, <2>3
         DEF IdsApart, IdsKnown, OneShell, PaneKeepsItsShell, TypedReachesItsShell, TpLives
    <2>7. ClientTied'
      BY <1>1, <1>3, <2>3, <2>4 DEF ClientTied, TpLives
    <2> QED
      BY <2>5, <2>6, <2>7 DEF PopupInv
  <1> QED
    BY <1>4, <1>5

LEMMA ConnectStep == ASSUME PopupInv, TpConnect PROVE PopupInv'
  <1> DEFINE c == tpClient
             there == TpShellOf(c.id)
             new == Len(tpShells) + 1
             on == IF there # {} THEN CHOOSE s \in there : TRUE ELSE new
             opened == [c EXCEPT !.ws = "open", !.on = on, !.heard = FALSE]
             made == [id |-> IF c.id = NoId THEN new ELSE c.id, alive |-> TRUE]
  <1>1. TpTypeOK /\ IdsApart /\ IdsKnown /\ OneShell /\ ClientTied /\ c \in TpClientType
    BY DEF PopupInv, TpTypeOK, TpClientType
  <1>2. /\ c.ws = "connecting"
        /\ tpShells' = IF there # {} THEN tpShells ELSE Append(tpShells, made)
        /\ UNCHANGED <<tpActive, tpWindow, tpLast>>
        /\ IF TpSendable(opened)
           THEN /\ tpClient' = [opened EXCEPT !.pending = <<>>]
                /\ tpDelivered' = tpDelivered \cup
                     {[meant |-> c.pending[i], got |-> on, gone |-> ~TpLives(c.pending[i])] : i \in DOMAIN c.pending}
           ELSE tpClient' = opened /\ UNCHANGED tpDelivered
    BY DEF TpConnect
  \* The shells: one more at most, and its id is free.
  <1>3. /\ tpShells' \in Seq(TpShell)
        /\ Len(tpShells') \in {Len(tpShells), new}
        /\ \A s \in DOMAIN tpShells : s \in DOMAIN tpShells' /\ tpShells'[s] = tpShells[s]
        /\ on \in DOMAIN tpShells'
        /\ IdsApart'
        /\ \A s \in DOMAIN tpShells' : tpShells'[s].id \in 1 .. s
        /\ \A s \in DOMAIN tpShells : TpLives(s)' <=> TpLives(s)
    <2>1. CASE there # {}
      <3>1. UNCHANGED tpShells /\ on \in there
        BY <1>2, <2>1
      <3> QED
        BY <1>1, <3>1, ShellsNumbered DEF TpShellOf, IdsKnown, IdsApart, TpLives
    <2>2. CASE there = {}
      <3>1. made \in TpShell /\ made.id \in 1 .. new /\ (made.id # new => made.id = c.id)
        BY <1>1, ShellsNumbered DEF IdsKnown, TpShell, NoId
      <3>2. tpShells' = Append(tpShells, made) /\ on = new
        BY <1>2, <2>2
      <3> HIDE DEF made
      <3>3. /\ tpShells' \in Seq(TpShell)
            /\ Len(tpShells') = new
            /\ DOMAIN tpShells' = 1 .. new
            /\ \A s \in DOMAIN tpShells : s \in DOMAIN tpShells' /\ tpShells'[s] = tpShells[s]
            /\ tpShells'[new] = made
        BY <1>1, <3>1, <3>2, ShellsNumbered, AppendProperties, LenProperties
      <3>4. \A s \in DOMAIN tpShells' : s \in DOMAIN tpShells \/ s = new
        BY <1>1, <3>3, ShellsNumbered
      <3>5. \A s \in DOMAIN tpShells' : tpShells'[s].id \in 1 .. s
        BY <1>1, <3>1, <3>3, <3>4 DEF IdsKnown
      <3>6. \A s \in DOMAIN tpShells : tpShells[s].alive => tpShells[s].id # made.id
        <4>1. \A s \in DOMAIN tpShells : tpShells[s].id # new
          BY <1>1, ShellsNumbered DEF IdsKnown
        <4>2. \A s \in DOMAIN tpShells : tpShells[s].alive => tpShells[s].id # c.id
          BY <2>2 DEF TpShellOf
        <4> QED
          BY <3>1, <4>1, <4>2
      <3>7. IdsApart'
        BY <1>1, <3>3, <3>4, <3>6 DEF IdsApart
      <3> QED
        BY <1>1, <3>2, <3>3, <3>5, <3>7, ShellsNumbered DEF TpLives
    <2> QED
      BY <2>1, <2>2
  \* The client is attached to the shell it shows, if that is alive.
  <1>4. TpLives(c.shown) => on = c.shown
    <2>1. ASSUME TpLives(c.shown) PROVE on = c.shown
      <3>1. c.shown # NoShell
        BY <1>1, <2>1, ShellsNumbered DEF TpLives, NoShell
      <3>2. c.shown \in there
        BY <1>1, <2>1, <3>1 DEF TpShellOf, ClientTied, TpLives
      <3>3. \A s \in there : s = c.shown
        BY <1>1, <3>2 DEF TpShellOf, IdsApart
      <3> QED
        BY <3>2, <3>3
    <2> QED
      BY <2>1
  <1> HIDE DEF on, there, made
  <1>5. /\ tpClient' \in TpClientType
        /\ tpClient'.ws = "open" /\ tpClient'.on = on
        /\ tpClient'.id = c.id /\ tpClient'.shown = c.shown
        /\ tpClient'.pending \in {<<>>, c.pending}
    <2>1. on \in Nat
      BY <1>3, LenProperties
    <2>2. /\ opened \in TpClientType
          /\ opened.ws = "open" /\ opened.on = on /\ opened.id = c.id
          /\ opened.shown = c.shown /\ opened.pending = c.pending
      BY <1>1, <2>1 DEF TpClientType
    <2>3. tpClient' \in {opened, [opened EXCEPT !.pending = <<>>]}
      BY <1>2
    <2> HIDE DEF opened
    <2> QED
      BY <2>2, <2>3, EmptySeq DEF TpClientType
  <1>6. Len(tpShells) \in Nat /\ DOMAIN tpShells = 1 .. Len(tpShells) /\ 0 .. Len(tpShells) \subseteq 0 .. Len(tpShells')
    BY <1>1, <1>3, ShellsNumbered
  <1>7. TpTypeOK'
    BY <1>1, <1>2, <1>3, <1>5 DEF TpTypeOK, TpShell, TpClientType
  <1>8. IdsKnown'
    BY <1>1, <1>2, <1>3, <1>5, <1>6 DEF IdsKnown
  <1>9. \A i \in DOMAIN c.pending :
          c.pending[i] \in 0 .. Len(tpShells') /\ (TpLives(c.pending[i]) => c.pending[i] = c.shown)
    BY <1>1, <1>6 DEF ClientTied
  <1>10. TypedReachesItsShell'
    <2>1. \A i \in DOMAIN c.pending : TpLives(c.pending[i]) => c.pending[i] = on
      BY <1>4, <1>9
    <2>2. tpDelivered' \subseteq tpDelivered \cup
            {[meant |-> c.pending[i], got |-> on, gone |-> ~TpLives(c.pending[i])] : i \in DOMAIN c.pending}
      BY <1>2
    <2>3. TypedReachesItsShell
      BY <1>1 DEF OneShell
    <2> QED
      BY <2>1, <2>2, <2>3, ArriveStep
  <1>11. \A s \in 0 .. Len(tpShells) : TpLives(s)' => TpLives(s)
    BY <1>3, <1>6, LenProperties DEF TpLives
  <1>12. PaneKeepsItsShell'
    <2>1. c.shown \in 0 .. Len(tpShells)
      BY <1>1, <1>6 DEF ClientTied, NoShell
    <2>2. TpLives(c.shown)' => TpLives(c.shown)
      BY <1>5, <1>11, <2>1 DEF TpLives
    <2> QED
      BY <1>4, <1>5, <1>11, <2>1 DEF PaneKeepsItsShell, TpLives
  <1>13. ClientTied'
    <2>1. (\A i \in DOMAIN tpClient.pending :
             /\ tpClient.pending[i] \in 0 .. Len(tpShells)
             /\ TpLives(tpClient.pending[i]) => tpClient.pending[i] = tpClient.shown)'
      <3>1. CASE tpClient'.pending = <<>>
        BY <3>1, EmptySeq
      <3>2. CASE tpClient'.pending = c.pending
        BY <1>1, <1>5, <1>9, <1>11, <3>2 DEF ClientTied, TpLives
      <3> QED
        BY <1>5, <3>1, <3>2
    <2>2. tpClient'.shown # NoShell =>
            tpClient'.shown \in DOMAIN tpShells' /\ tpClient'.id = tpShells'[tpClient'.shown].id
      BY <1>1, <1>3, <1>5 DEF ClientTied
    <2> QED
      BY <1>3, <1>5, <2>1, <2>2 DEF ClientTied
  <1> QED
    BY <1>3, <1>7, <1>8, <1>10, <1>12, <1>13 DEF PopupInv, OneShell

LEMMA ReadyStep == ASSUME PopupInv, NEW role \in {"writer", "reader"}, TpReady(role) PROVE PopupInv'
  <1> DEFINE c == tpClient
             ready == ReadyFrame(c, role)
  <1>1. TpTypeOK /\ IdsApart /\ IdsKnown /\ OneShell /\ ClientTied /\ c \in TpClientType
    BY DEF PopupInv, TpTypeOK, TpClientType
  <1>2. /\ c.ws = "open"
        /\ UNCHANGED <<tpShells, tpActive, tpWindow>> /\ tpLast' = c.on
        /\ IF role = "writer"
           THEN tpClient' = [ready EXCEPT !.pending = <<>>] /\ tpDelivered' = TpArrive(c.pending, ready)
           ELSE tpClient' = ready /\ UNCHANGED tpDelivered
    BY DEF TpReady
  <1>3. /\ c.on \in DOMAIN tpShells /\ c.on \in Nat /\ c.on # NoShell
        /\ tpShells[c.on].id \in Nat /\ tpShells[c.on].id \in 0 .. Len(tpShells)
    BY <1>1, <1>2, ShellsNumbered DEF ClientTied, IdsKnown, NoShell
  <1>4. /\ tpClient' \in TpClientType
        /\ tpClient'.ws = "open" /\ tpClient'.on = c.on /\ tpClient'.shown = c.on
        /\ tpClient'.id = tpShells[c.on].id
        /\ tpClient'.pending \in {<<>>, c.pending}
        /\ ready.on = c.on
    <2>1. /\ ready \in TpClientType
          /\ ready.ws = "open" /\ ready.on = c.on /\ ready.shown = c.on
          /\ ready.id = tpShells[c.on].id /\ ready.pending = c.pending
      BY <1>1, <1>2, <1>3 DEF ReadyFrame, TpClientType
    <2>2. tpClient' \in {ready, [ready EXCEPT !.pending = <<>>]}
      BY <1>2
    <2> HIDE DEF ready
    <2> QED
      BY <2>1, <2>2, EmptySeq DEF TpClientType
  \* What was queued at a shell that is alive was queued at this one.
  <1>5. \A i \in DOMAIN c.pending :
          c.pending[i] \in 0 .. Len(tpShells) /\ (TpLives(c.pending[i]) => c.pending[i] = c.on)
    BY <1>1, <1>2 DEF ClientTied, OneShell, PaneKeepsItsShell
  <1>6. TypedReachesItsShell'
    <2>1. tpDelivered' \subseteq tpDelivered \cup
            {[meant |-> c.pending[i], got |-> c.on, gone |-> ~TpLives(c.pending[i])] : i \in DOMAIN c.pending}
      BY <1>2, <1>4 DEF TpArrive
    <2>2. TypedReachesItsShell
      BY <1>1 DEF OneShell
    <2> QED
      BY <1>5, <2>1, <2>2, ArriveStep
  <1>7. TpTypeOK'
    BY <1>1, <1>2, <1>3, <1>4 DEF TpTypeOK, TpClientType
  <1>8. IdsApart' /\ IdsKnown'
    BY <1>1, <1>2, <1>3, <1>4 DEF IdsApart, IdsKnown
  <1>9. PaneKeepsItsShell'
    BY <1>4 DEF PaneKeepsItsShell
  <1>10. ClientTied'
    <2>1. (\A i \in DOMAIN tpClient.pending :
             /\ tpClient.pending[i] \in 0 .. Len(tpShells)
             /\ TpLives(tpClient.pending[i]) => tpClient.pending[i] = tpClient.shown)'
      <3>1. CASE tpClient'.pending = <<>>
        BY <3>1, EmptySeq
      <3>2. CASE tpClient'.pending = c.pending
        BY <1>2, <1>4, <1>5, <3>2 DEF TpLives
      <3> QED
        BY <1>4, <3>1, <3>2
    <2> QED
      BY <1>2, <1>3, <1>4, <2>1 DEF ClientTied
  <1> QED
    BY <1>6, <1>7, <1>8, <1>9, <1>10 DEF PopupInv, OneShell

-----------------------------------------------------------------------------
(* The theorems.                                                           *)

LEMMA PopupInit == TpInit => PopupInv
  <1> SUFFICES ASSUME TpInit PROVE PopupInv
    OBVIOUS
  <1>1. /\ tpShells = <<>> /\ tpActive = 0 /\ tpWindow = "closed" /\ tpDelivered = {} /\ tpLast = 0
        /\ tpClient = [ws |-> "none", id |-> 0, on |-> 0, shown |-> 0, role |-> "none",
                       heard |-> FALSE, pending |-> <<>>]
    BY DEF TpInit, NoClient, NoId, NoShell
  <1>2. /\ <<>> \in Seq(TpShell) /\ <<>> \in Seq(Nat) /\ Len(<<>>) = 0 /\ DOMAIN <<>> = {}
    BY EmptySeq, LenProperties
  <1>3. TpTypeOK
    BY <1>1, <1>2 DEF TpTypeOK, TpShell
  <1>4. IdsApart /\ IdsKnown /\ ClientTied /\ OneShell
    BY <1>1, <1>2 DEF IdsApart, IdsKnown, ClientTied, NoShell, OneShell, PaneKeepsItsShell, TypedReachesItsShell
  <1> QED
    BY <1>3, <1>4 DEF PopupInv

LEMMA PopupNext == PopupInv /\ [TpNext]_tpVars => PopupInv'
  <1> SUFFICES ASSUME PopupInv, [TpNext]_tpVars PROVE PopupInv'
    OBVIOUS
  <1>1. TpTypeOK /\ tpActive \in Nat /\ tpLast \in Nat /\ tpClient \in TpClientType
    BY DEF PopupInv, TpTypeOK, TpClientType
  <1>2. CASE toggleTerminal \/ TpMinimize \/ TpClose
    <2>1. UNCHANGED <<tpShells, tpDelivered, tpLast>>
      BY <1>2 DEF toggleTerminal, TpMinimize, TpClose
    <2>2. /\ tpActive' \in {tpActive, NoId}
          /\ \/ tpWindow' \in {"closed", "minimized"} /\ tpClient' = NoClient
             \/ tpWindow' = "open" /\ tpClient' = MountPane(tpActive')
      BY <1>2 DEF toggleTerminal, TpMinimize, TpClose, openTerminal, closeTerminal, UnmountPane
    <2> QED
      BY <1>1, <2>1, <2>2, NoShellDies, WindowStep
  <1>3. CASE TpKillSession
    <2> DEFINE P == {s \in DOMAIN tpShells : ~(tpActive = NoId \/ tpShells[s].id # tpActive)}
    <2>1. /\ tpShells' = [s \in DOMAIN tpShells |-> [tpShells[s] EXCEPT !.alive = @ /\ s \notin P]]
          /\ tpWindow' = "closed" /\ tpClient' = NoClient /\ tpActive' = NoId /\ tpLast' = NoShell
          /\ tpDelivered' = tpDelivered
      BY <1>3 DEF TpKillSession, closeTerminal, UnmountPane
    <2> HIDE DEF P
    <2>2. ShellsOnlyDie
      BY <1>1, <2>1, DyingShells
    <2> QED
      BY <2>1, <2>2, WindowStep DEF NoShell
  <1>4. CASE TpSocketDrops \/ TpReconnect
    <2>1. UNCHANGED <<tpShells, tpActive, tpWindow, tpDelivered, tpLast>>
      BY <1>4 DEF TpSocketDrops, TpReconnect
    <2>2. /\ tpClient' \in TpClientType
          /\ tpClient'.id = tpClient.id /\ tpClient'.shown = tpClient.shown /\ tpClient'.pending = tpClient.pending
          /\ tpClient.ws # "none" /\ tpClient'.ws \in {"waiting", "connecting"} /\ tpClient'.on = NoShell
      <3>1. CASE TpSocketDrops
        BY <1>1, <3>1 DEF TpSocketDrops, TpDisconnected, TpClientType, NoShell
      <3>2. CASE TpReconnect
        BY <1>1, <3>2 DEF TpReconnect, TpClientType, PopupInv, ClientTied
      <3> QED
        BY <1>4, <3>1, <3>2
    <2> QED
      BY <1>1, <2>1, <2>2, NoShellDies, KeptStep
  <1>5. ASSUME NEW S, TpShellsGone(S) PROVE PopupInv'
    <2>1. ShellsOnlyDie
      BY <1>1, <1>5, DyingShells DEF TpShellsGone
    <2>2. UNCHANGED <<tpActive, tpWindow, tpDelivered, tpLast>>
      BY <1>5 DEF TpShellsGone
    <2>3. CASE tpClient' = tpClient
      BY <2>1, <2>2, <2>3, SameClientStep
    <2>4. CASE tpClient.on \in S /\ tpClient' = TpDisconnected
      <3>1. /\ tpClient' \in TpClientType
            /\ tpClient'.id = tpClient.id /\ tpClient'.shown = tpClient.shown /\ tpClient'.pending = tpClient.pending
            /\ tpClient'.ws = "waiting" /\ tpClient'.on = NoShell
        BY <1>1, <2>4 DEF TpDisconnected, TpClientType, NoShell
      <3>2. tpClient.ws = "open"
        <4>1. tpClient.on # NoShell
          BY <1>1, <1>5, <2>4, ShellsNumbered DEF TpShellsGone, TpLives, NoShell
        <4> QED
          BY <4>1 DEF PopupInv, ClientTied
      <3> QED
        BY <2>1, <2>2, <3>1, <3>2, KeptStep
    <2> QED
      BY <1>5, <2>3, <2>4 DEF TpShellsGone
  <1>6. CASE UNCHANGED tpVars
    BY <1>1, <1>6, NoShellDies, SameClientStep DEF tpVars
  <1> QED
    BY <1>2, <1>3, <1>4, <1>5, <1>6, InputStep, ConnectStep, ReadyStep DEF TpNext

\* A pane that lost its socket comes back to the shell it shows while that lives,
\* and no keystroke reaches a shell beside the one it was typed at; for any number
\* of shells, gestures, lost sockets, exits and restarts.
THEOREM PaneIsOneShells == TpSpec => []OneShell
  <1>1. PopupInv => OneShell
    BY DEF PopupInv
  <1> QED
    BY <1>1, PopupInit, PopupNext, PTL DEF TpSpec

\* The types of the popup, its window and its client; a client is there exactly
\* while the pane is mounted.
THEOREM PopupTyped == TpSpec => []TpTypeOK
  <1>1. PopupInv => TpTypeOK
    BY DEF PopupInv
  <1> QED
    BY <1>1, PopupInit, PopupNext, PTL DEF TpSpec
=============================================================================
