------------------------- MODULE PanelSessionProofs -------------------------
(***************************************************************************)
(* A session that was logged out is out: for any number of sessions,       *)
(* requests, other tabs, restarts and expiries.                            *)
(*                                                                         *)
(* The cache of the store may hold more than the database in two cases     *)
(* only, and the proof follows the requests that make them: a logout       *)
(* between its two deletions, and a lookup that filled the cache with a    *)
(* row that was deleted since. The row is gone when the logout is past     *)
(* its DELETE, unless that failed, and no step brings it back: sessions    *)
(* that are made are new ones.                                             *)
(*                                                                         *)
(* The panel agrees with the service: as long as nothing was mixed, one    *)
(* request at most is in flight, and each of its stages says which view    *)
(* the page has and which one it will have when the answer arrives.        *)
(***************************************************************************)
EXTENDS PanelSession, SequenceTheorems, TLAPS

\* The requests of the tab, in every stage.
PsRequest ==
    [op : {"boot", "login", "lock", "idle", "unlock", "logout"}, sid : Nat, mount : Nat,
     at : {"sent", "found", "in", "dropped", "done"},
     ans : {Waiting, Failed, Value("out"), Value("locked"), Value("open")}]

PsCallsOK ==
    /\ psCalls \in Seq(PsRequest)
    /\ psIssued \in Nat /\ psCookie \in Nat /\ psMount \in Nat

\* A logout of s that has deleted the row and not yet the entry of the cache.
LoggingOut(s) ==
    \E i \in DOMAIN psCalls : psCalls[i].op = "logout" /\ psCalls[i].at = "dropped" /\ psCalls[i].sid = s

\* What the cache holds has a row, but for the two cases.
CacheHasRows == \A s \in psCache \ psRows : s \in psRevived \/ LoggingOut(s)

\* The inductive invariant of the cache, and what the requests are made of.
LogoutInv == PsCallsOK /\ CacheHasRows

-----------------------------------------------------------------------------
(* How the requests in flight change.                                      *)

\* A sequence without its i-th element has all the others.
LEMMA RemoveAtKeeps ==
  ASSUME NEW S, NEW q \in Seq(S), NEW i \in DOMAIN q
  PROVE  /\ RemoveAt(q, i) \in Seq(S)
         /\ Len(RemoveAt(q, i)) = Len(q) - 1
         /\ \A j \in DOMAIN q \ {i} : \E k \in DOMAIN RemoveAt(q, i) : RemoveAt(q, i)[k] = q[j]
  <1> DEFINE a == SubSeq(q, 1, i - 1)
             b == SubSeq(q, i + 1, Len(q))
  <1>1. Len(q) \in Nat /\ DOMAIN q = 1 .. Len(q) /\ \A j \in 1 .. Len(q) : q[j] \in S
    BY LenProperties, ElementOfSeq
  <1>2. /\ a \in Seq(S)
        /\ Len(a) = i - 1
        /\ \A j \in 1 .. i - 1 : a[j] = q[j]
    <2>1. \A j \in 1 .. i - 1 : q[j] \in S
      BY <1>1
    <2> QED
      BY <1>1, <2>1, SubSeqProperties
  <1>3. /\ b \in Seq(S)
        /\ Len(b) = Len(q) - i
        /\ \A j \in 1 .. Len(q) - i : b[j] = q[i + j]
    <2>1. \A j \in i + 1 .. Len(q) : q[j] \in S
      BY <1>1
    <2>2. /\ b \in Seq(S)
          /\ Len(b) = IF i + 1 <= Len(q) THEN Len(q) - (i + 1) + 1 ELSE 0
          /\ \A j \in 1 .. Len(q) - (i + 1) + 1 : b[j] = q[(i + 1) + j - 1]
      BY <1>1, <2>1, SubSeqProperties
    <2>3. \A j \in 1 .. Len(q) - i : (i + 1) + j - 1 = i + j
      BY <1>1
    <2>4. Len(q) - (i + 1) + 1 = Len(q) - i
      BY <1>1
    <2> QED
      BY <1>1, <2>2, <2>3, <2>4
  <1> HIDE DEF a, b
  <1>4. /\ a \o b \in Seq(S)
        /\ Len(a \o b) = Len(a) + Len(b)
        /\ \A k \in 1 .. Len(a) + Len(b) : (a \o b)[k] = IF k <= Len(a) THEN a[k] ELSE b[k - Len(a)]
    BY <1>2, <1>3, ConcatProperties
  <1>5. RemoveAt(q, i) = a \o b
    BY DEF RemoveAt, a, b
  <1>6. ASSUME NEW j \in DOMAIN q \ {i}
        PROVE  \E k \in DOMAIN RemoveAt(q, i) : RemoveAt(q, i)[k] = q[j]
    <2>1. DOMAIN (a \o b) = 1 .. Len(q) - 1
      <3>1. DOMAIN (a \o b) = 1 .. Len(a \o b)
        BY <1>4, LenProperties
      <3>2. Len(a \o b) = Len(q) - 1
        BY <1>1, <1>2, <1>3, <1>4
      <3> QED
        BY <3>1, <3>2
    <2>2. CASE j < i
      <3>1. j \in 1 .. Len(q) - 1 /\ j \in 1 .. i - 1
        BY <1>1, <2>2
      <3>2. (a \o b)[j] = q[j]
        BY <1>1, <1>2, <1>3, <1>4, <3>1
      <3> QED
        BY <1>5, <2>1, <3>1, <3>2
    <2>3. CASE j > i
      <3>1. j - 1 \in 1 .. Len(q) - 1 /\ j - i \in 1 .. Len(q) - i /\ ~(j - 1 <= i - 1)
        BY <1>1, <2>3
      <3>2. (a \o b)[j - 1] = b[j - 1 - (i - 1)]
        <4>1. Len(a) = i - 1
          BY <1>2
        <4>2. j - 1 \in 1 .. Len(a) + Len(b)
          <5>1. Len(a) + Len(b) = Len(q) - 1
            BY <1>1, <1>3, <4>1
          <5> QED
            BY <3>1, <5>1
        <4>3. (a \o b)[j - 1] = IF j - 1 <= Len(a) THEN a[j - 1] ELSE b[j - 1 - Len(a)]
          BY <1>4, <4>2
        <4> QED
          BY <3>1, <4>1, <4>3
      <3>3. b[j - i] = q[i + (j - i)]
        BY <1>3, <3>1
      <3>4. j - 1 - (i - 1) = j - i /\ i + (j - i) = j
        BY <1>1
      <3> QED
        BY <1>5, <2>1, <3>1, <3>2, <3>3, <3>4
    <2> QED
      BY <1>1, <2>2, <2>3
  <1>7. Len(a \o b) = Len(q) - 1
    BY <1>1, <1>2, <1>3, <1>4
  <1> QED
    BY <1>4, <1>5, <1>6, <1>7

\* A request that is sent joins the others.
LEMMA SendKeeps ==
  ASSUME PsCallsOK, NEW c \in PsRequest, psCalls' = Send(psCalls, c)
  PROVE  /\ psCalls' \in Seq(PsRequest)
         /\ \A s : LoggingOut(s) => LoggingOut(s)'
  <1>1. [c EXCEPT !.ans = Waiting] \in PsRequest
    BY DEF PsRequest
  <1>2. /\ psCalls' \in Seq(PsRequest)
        /\ Len(psCalls') = Len(psCalls) + 1
        /\ \A i \in 1 .. Len(psCalls) : psCalls'[i] = psCalls[i]
    BY <1>1, AppendProperties DEF PsCallsOK, Send
  <1>3. /\ Len(psCalls) \in Nat
        /\ DOMAIN psCalls = 1 .. Len(psCalls)
        /\ DOMAIN psCalls' = 1 .. Len(psCalls) + 1
    BY <1>2, LenProperties DEF PsCallsOK
  <1> QED
    BY <1>2, <1>3 DEF LoggingOut

\* A request that reaches another stage leaves the others as they are.
LEMMA ReplaceKeeps ==
  ASSUME PsCallsOK, NEW i \in DOMAIN psCalls, NEW c \in PsRequest,
         psCalls' = [psCalls EXCEPT ![i] = c]
  PROVE  /\ psCalls' \in Seq(PsRequest)
         /\ DOMAIN psCalls' = DOMAIN psCalls
         /\ psCalls'[i] = c
         /\ \A j \in DOMAIN psCalls \ {i} : psCalls'[j] = psCalls[j]
  <1>1. i \in 1 .. Len(psCalls) /\ DOMAIN psCalls = 1 .. Len(psCalls)
    BY LenProperties DEF PsCallsOK
  <1>2. /\ psCalls' \in Seq(PsRequest)
        /\ Len(psCalls') = Len(psCalls)
        /\ \A j \in 1 .. Len(psCalls) : psCalls'[j] = IF j = i THEN c ELSE psCalls[j]
    BY <1>1, ExceptSeq DEF PsCallsOK
  <1> QED
    BY <1>1, <1>2, LenProperties

\* A request with its answer is not one that is logging out.
LEMMA ForgetKeeps ==
  ASSUME PsCallsOK, NEW i \in DOMAIN psCalls, psCalls[i].at = "done",
         psCalls' = Forget(psCalls, i)
  PROVE  /\ psCalls' \in Seq(PsRequest)
         /\ \A s : LoggingOut(s) => LoggingOut(s)'
  <1>1. /\ psCalls' \in Seq(PsRequest)
        /\ \A j \in DOMAIN psCalls \ {i} : \E k \in DOMAIN psCalls' : psCalls'[k] = psCalls[j]
    BY RemoveAtKeeps DEF PsCallsOK, Forget
  <1>2. ASSUME NEW s, LoggingOut(s) PROVE LoggingOut(s)'
    <2>1. PICK j \in DOMAIN psCalls :
            psCalls[j].op = "logout" /\ psCalls[j].at = "dropped" /\ psCalls[j].sid = s
      BY <1>2 DEF LoggingOut
    <2>2. PICK k \in DOMAIN psCalls' : psCalls'[k] = psCalls[j]
      BY <1>1, <2>1
    <2> QED
      BY <2>1, <2>2 DEF LoggingOut
  <1> QED
    BY <1>1, <1>2

-----------------------------------------------------------------------------
(* The invariant.                                                          *)

LEMMA LogoutInit == PsInit => LogoutInv
  <1> SUFFICES ASSUME PsInit PROVE LogoutInv
    OBVIOUS
  <1> DEFINE boot == [op |-> "boot", sid |-> psCookie, mount |-> 0, at |-> "sent", ans |-> Waiting]
  <1>1. boot \in PsRequest /\ [boot EXCEPT !.ans = Waiting] \in PsRequest
    BY DEF PsInit, PsRequest
  <1>2. psCalls \in Seq(PsRequest)
    BY <1>1, EmptySeq, AppendProperties DEF PsInit, Send
  <1>3. PsCallsOK
    BY <1>2 DEF PsCallsOK, PsInit
  <1>4. CacheHasRows
    BY DEF PsInit, CacheHasRows
  <1> QED
    BY <1>3, <1>4 DEF LogoutInv

\* What has to be shown of the state a step leads to.
LEMMA InvAfter ==
  ASSUME psCalls' \in Seq(PsRequest), psIssued' \in Nat, psCookie' \in Nat, psMount' \in Nat,
         \A s \in psCache' \ psRows' : s \in psRevived' \/ LoggingOut(s)'
  PROVE  LogoutInv'
  <1>1. PsCallsOK'
    BY DEF PsCallsOK
  <1>2. CacheHasRows'
    BY DEF CacheHasRows, LoggingOut
  <1> QED
    BY <1>1, <1>2 DEF LogoutInv

\* What it says of the state a step starts from.
LEMMA InvNow ==
  ASSUME LogoutInv
  PROVE  /\ psCalls \in Seq(PsRequest) /\ psIssued \in Nat /\ psCookie \in Nat /\ psMount \in Nat
         /\ \A s \in psCache \ psRows : s \in psRevived \/ LoggingOut(s)
  BY DEF LogoutInv, PsCallsOK, CacheHasRows, LoggingOut

\* A step that neither drops a request nor touches the store keeps the invariant.
LEMMA StoreUntouched ==
  ASSUME LogoutInv, UNCHANGED psStore, psCalls' \in Seq(PsRequest),
         psCookie' \in Nat, psMount' \in Nat, \A s : LoggingOut(s) => LoggingOut(s)'
  PROVE  LogoutInv'
  <1>1. UNCHANGED <<psRows, psCache, psRevived, psIssued>>
    BY DEF psStore
  <1>2. psIssued' \in Nat
    BY <1>1, InvNow
  <1>3. \A s \in psCache' \ psRows' : s \in psRevived' \/ LoggingOut(s)'
    <2> SUFFICES ASSUME NEW s \in psCache' \ psRows' PROVE s \in psRevived' \/ LoggingOut(s)'
      OBVIOUS
    <2>1. s \in psRevived \/ LoggingOut(s)
      BY <1>1, InvNow
    <2> QED
      BY <1>1, <2>1
  <1> QED
    BY <1>2, <1>3, InvAfter

\* The store is as it was, and so is what the page holds of it.
LEMMA SameStore ==
  ASSUME LogoutInv, UNCHANGED <<psRows, psCache, psRevived, psIssued, psCookie, psMount>>,
         psCalls' \in Seq(PsRequest), \A s : LoggingOut(s) => LoggingOut(s)'
  PROVE  LogoutInv'
  <1>1. psIssued' \in Nat /\ psCookie' \in Nat /\ psMount' \in Nat
    BY InvNow
  <1>2. ASSUME NEW s \in psCache' \ psRows' PROVE s \in psRevived' \/ LoggingOut(s)'
    <2>1. s \in psRevived \/ LoggingOut(s)
      BY <1>2, InvNow
    <2> QED
      BY <2>1
  <1> QED
    BY <1>1, <1>2, InvAfter

\* What PsSend adds to the requests.
LEMMA SendStep ==
  ASSUME LogoutInv, NEW op \in {"lock", "idle", "login", "unlock", "logout"}, NEW m \in Nat, PsSendFrom(m, op)
  PROVE  psCalls' \in Seq(PsRequest) /\ \A s : LoggingOut(s) => LoggingOut(s)'
  <1>1. PICK c \in PsRequest : c = [PsCall(op) EXCEPT !.mount = m]
    BY DEF PsCall, PsRequest, LogoutInv, PsCallsOK
  <1> QED
    BY <1>1, SendKeeps DEF PsSendFrom, LogoutInv

\* Showing another view keeps the number of mounts a number.
LEMMA ShowStep ==
  ASSUME PsCallsOK, NEW b, NEW m, NEW u, NEW l, PsShow(b, m, u, l)
  PROVE  psMount' \in Nat
  BY DEF PsShow, PsCallsOK

\* A request that was not logging out gets to another stage.
LEMMA StageKeeps ==
  ASSUME LogoutInv, NEW i \in DOMAIN psCalls, psCalls[i].at # "dropped",
         NEW c \in PsRequest, psCalls' = [psCalls EXCEPT ![i] = c]
  PROVE  psCalls' \in Seq(PsRequest) /\ \A s : LoggingOut(s) => LoggingOut(s)'
  <1>1. /\ psCalls' \in Seq(PsRequest)
        /\ DOMAIN psCalls' = DOMAIN psCalls
        /\ \A j \in DOMAIN psCalls \ {i} : psCalls'[j] = psCalls[j]
    BY ReplaceKeeps DEF LogoutInv
  <1> QED
    BY <1>1 DEF LoggingOut

\* At and Answered replace one request by another.
LEMMA Stages ==
  ASSUME LogoutInv, NEW i \in DOMAIN psCalls
  PROVE  /\ psCalls[i] \in PsRequest
         /\ \A at \in {"found", "in", "dropped"} :
              /\ At(i, at) = [psCalls EXCEPT ![i] = [psCalls[i] EXCEPT !.at = at]]
              /\ [psCalls[i] EXCEPT !.at = at] \in PsRequest
         /\ \A ans \in {Failed, Value("out"), Value("locked"), Value("open")} :
              /\ Answered(i, ans) = [psCalls EXCEPT ![i] = [psCalls[i] EXCEPT !.at = "done", !.ans = ans]]
              /\ [psCalls[i] EXCEPT !.at = "done", !.ans = ans] \in PsRequest
  <1>1. psCalls[i] \in PsRequest
    BY ElementOfSeq, LenProperties DEF LogoutInv, PsCallsOK
  <1>2. ASSUME NEW at \in {"found", "in", "dropped"}
        PROVE  /\ At(i, at) = [psCalls EXCEPT ![i] = [psCalls[i] EXCEPT !.at = at]]
               /\ [psCalls[i] EXCEPT !.at = at] \in PsRequest
    BY <1>1 DEF At, PsRequest
  <1>3. ASSUME NEW ans \in {Failed, Value("out"), Value("locked"), Value("open")}
        PROVE  /\ Answered(i, ans) = [psCalls EXCEPT ![i] = [psCalls[i] EXCEPT !.at = "done", !.ans = ans]]
               /\ [psCalls[i] EXCEPT !.at = "done", !.ans = ans] \in PsRequest
    <2>1. [psCalls[i] EXCEPT !.at = "done", !.ans = ans] \in PsRequest
      BY <1>1, Zenon DEF PsRequest
    <2>2. DOMAIN [psCalls EXCEPT ![i].at = "done", ![i].ans = ans] = DOMAIN psCalls
      OBVIOUS
    <2> QED
      BY <2>1, <2>2 DEF Answered
  <1> QED
    BY <1>1, <1>2, <1>3

\* The request that gets to the next stage, and those that do not.
LEMMA StageOf ==
  ASSUME LogoutInv, NEW i \in DOMAIN psCalls,
         NEW at \in {"found", "in", "dropped"}, psCalls' = At(i, at)
  PROVE  i \in DOMAIN psCalls' /\ psCalls'[i] = [psCalls[i] EXCEPT !.at = at]
  <1> DEFINE d == [psCalls[i] EXCEPT !.at = at]
  <1>1. psCalls' = [psCalls EXCEPT ![i] = d] /\ d \in PsRequest
    BY Stages, Zenon
  <1> HIDE DEF d
  <1>2. PsCallsOK
    BY DEF LogoutInv
  <1>3. i \in DOMAIN psCalls' /\ psCalls'[i] = d
    BY <1>1, <1>2, ReplaceKeeps
  <1> QED
    BY <1>3 DEF d

LEMMA OthersAnswered ==
  ASSUME LogoutInv, NEW i \in DOMAIN psCalls,
         NEW ans \in {Failed, Value("out"), Value("locked"), Value("open")}, psCalls' = Answered(i, ans)
  PROVE  /\ psCalls' \in Seq(PsRequest)
         /\ DOMAIN psCalls' = DOMAIN psCalls
         /\ \A j \in DOMAIN psCalls \ {i} : psCalls'[j] = psCalls[j]
  <1> DEFINE d == [psCalls[i] EXCEPT !.at = "done", !.ans = ans]
  <1>1. psCalls' = [psCalls EXCEPT ![i] = d] /\ d \in PsRequest
    BY Stages, Zenon
  <1> HIDE DEF d
  <1>2. PsCallsOK
    BY DEF LogoutInv
  <1> QED
    BY <1>1, <1>2, ReplaceKeeps, Zenon

\* Nothing but PsLogout takes a request out of the stage between the deletions.
LEMMA StageStep ==
  ASSUME LogoutInv, NEW i \in DOMAIN psCalls, psCalls[i].at # "dropped",
         \/ \E at \in {"found", "in", "dropped"} : psCalls' = At(i, at)
         \/ \E ans \in {Failed, Value("out"), Value("locked"), Value("open")} : psCalls' = Answered(i, ans)
  PROVE  psCalls' \in Seq(PsRequest) /\ \A s : LoggingOut(s) => LoggingOut(s)'
  <1>1. \E c \in PsRequest : psCalls' = [psCalls EXCEPT ![i] = c]
    <2>1. ASSUME NEW at \in {"found", "in", "dropped"}, psCalls' = At(i, at)
          PROVE  \E c \in PsRequest : psCalls' = [psCalls EXCEPT ![i] = c]
      <3> DEFINE d == [psCalls[i] EXCEPT !.at = at]
      <3>1. d \in PsRequest /\ psCalls' = [psCalls EXCEPT ![i] = d]
        BY <2>1, Stages, Zenon
      <3> HIDE DEF d
      <3> QED
        BY <3>1, Zenon
    <2>2. ASSUME NEW ans \in {Failed, Value("out"), Value("locked"), Value("open")}, psCalls' = Answered(i, ans)
          PROVE  \E c \in PsRequest : psCalls' = [psCalls EXCEPT ![i] = c]
      <3> DEFINE d == [psCalls[i] EXCEPT !.at = "done", !.ans = ans]
      <3>1. d \in PsRequest /\ psCalls' = [psCalls EXCEPT ![i] = d]
        BY <2>2, Stages, Zenon
      <3> HIDE DEF d
      <3> QED
        BY <3>1, Zenon
    <2> QED
      BY <2>1, <2>2
  <1>2. PICK c \in PsRequest : psCalls' = [psCalls EXCEPT ![i] = c]
    BY <1>1
  <1> QED
    BY <1>2, StageKeeps

-----------------------------------------------------------------------------
(* The steps of a request in the service.                                  *)

LEMMA LookupStep ==
  ASSUME LogoutInv, NEW i \in DOMAIN psCalls, PsLookup(i)
  PROVE  LogoutInv'
  <1>1. psCalls[i].at # "dropped"
    BY DEF PsLookup
  <1>2. NoSession(psCalls[i]) \in {Failed, Value("out")}
    BY DEF NoSession
  <1>3. psCalls' \in Seq(PsRequest) /\ \A s : LoggingOut(s) => LoggingOut(s)'
    BY <1>1, <1>2, StageStep DEF PsLookup
  <1> QED
    BY <1>3, StoreUntouched DEF PsLookup, psPage, LogoutInv, PsCallsOK

\* Get: whoever fills the cache with a session without a row, it is noted.
LEMMA FillStep ==
  ASSUME LogoutInv, NEW t, CacheFill(t), UNCHANGED psRows,
         psCalls' \in Seq(PsRequest), UNCHANGED <<psIssued, psCookie, psMount>>,
         \A s : LoggingOut(s) => LoggingOut(s)'
  PROVE  LogoutInv'
  <1>1. psIssued' \in Nat /\ psCookie' \in Nat /\ psMount' \in Nat
    BY InvNow
  <1>2. ASSUME NEW s \in psCache' \ psRows' PROVE s \in psRevived' \/ LoggingOut(s)'
    <2>1. s \notin psRows /\ s \in psCache \cup {t} /\ psRevived \subseteq psRevived'
      BY <1>2 DEF CacheFill
    <2>2. CASE s = t
      BY <2>1, <2>2 DEF CacheFill
    <2>3. CASE s \in psCache
      <3>1. s \in psRevived \/ LoggingOut(s)
        BY <2>1, <2>3, InvNow
      <3> QED
        BY <2>1, <3>1
    <2> QED
      BY <2>1, <2>2, <2>3
  <1> QED
    BY <1>1, <1>2, InvAfter

LEMMA ActStep ==
  ASSUME LogoutInv, NEW i \in DOMAIN psCalls, PsAct(i)
  PROVE  LogoutInv'
  <1>1. psCalls[i].at # "dropped"
    BY DEF PsAct
  <1>2. \E ans \in {Failed, Value("locked"), Value("open")} : psCalls' = Answered(i, ans)
    BY DEF PsAct
  <1>3. psCalls' \in Seq(PsRequest) /\ \A s : LoggingOut(s) => LoggingOut(s)'
    BY <1>1, <1>2, StageStep
  <1>4. UNCHANGED <<psRows, psCache, psRevived, psIssued, psCookie, psMount>>
    BY DEF PsAct, psPage
  <1> QED
    BY <1>3, <1>4, SameStore

\* Logout deletes the row and then, the request being marked, the entry.
LEMMA LogoutStep ==
  ASSUME LogoutInv, NEW i \in DOMAIN psCalls, PsLogout(i)
  PROVE  LogoutInv'
  <1> DEFINE c == psCalls[i]
  <1>1. c \in PsRequest /\ c.op = "logout"
    BY Stages, Zenon DEF PsLogout
  <1>2. UNCHANGED <<psIssued, psCookie, psMount, psRevived>>
    BY DEF PsLogout, psPage
  <1>3. CASE c.at = "in"
    <2>1. psRows \ psRows' \subseteq {c.sid} /\ psCache' = psCache /\ psCalls' = At(i, "dropped")
      BY <1>3 DEF PsLogout, Delete, DeleteRow
    <2>2. psCalls' \in Seq(PsRequest) /\ \A s : LoggingOut(s) => LoggingOut(s)'
      BY <1>3, <2>1, StageStep
    <2>3. \E j \in DOMAIN psCalls' : psCalls'[j].op = "logout" /\ psCalls'[j].at = "dropped" /\ psCalls'[j].sid = c.sid
      <3>1. i \in DOMAIN psCalls' /\ psCalls'[i] = [c EXCEPT !.at = "dropped"]
        BY <2>1, StageOf
      <3>2. psCalls'[i].op = "logout" /\ psCalls'[i].at = "dropped" /\ psCalls'[i].sid = c.sid
        BY <1>1, <3>1 DEF PsRequest
      <3> QED
        BY <3>1, <3>2, Zenon
    <2>4. ASSUME NEW s \in psCache' \ psRows' PROVE s \in psRevived' \/ LoggingOut(s)'
      <3>1. CASE s = c.sid
        <4>1. \E j \in DOMAIN psCalls' : psCalls'[j].op = "logout" /\ psCalls'[j].at = "dropped" /\ psCalls'[j].sid = s
          BY <2>3, <3>1
        <4> QED
          BY <4>1 DEF LoggingOut
      <3>2. CASE s # c.sid
        <4>1. s \in psCache \ psRows /\ psRevived' = psRevived
          BY <1>2, <2>1, <3>2
        <4>2. s \in psRevived \/ LoggingOut(s)
          BY <4>1, InvNow
        <4> QED
          BY <2>2, <4>1, <4>2
      <3> QED
        BY <3>1, <3>2
    <2>5. psIssued' \in Nat /\ psCookie' \in Nat /\ psMount' \in Nat
      BY <1>2, InvNow
    <2> QED
      BY <2>2, <2>4, <2>5, InvAfter
  <1>4. CASE c.at = "dropped"
    <2>1. psCache' = psCache \ {c.sid} /\ psRows' = psRows /\ psCalls' = Answered(i, Value("out"))
      BY <1>4 DEF PsLogout, Delete
    <2>2. /\ psCalls' \in Seq(PsRequest)
          /\ DOMAIN psCalls' = DOMAIN psCalls
          /\ \A j \in DOMAIN psCalls \ {i} : psCalls'[j] = psCalls[j]
      <3>1. Value("out") \in {Failed, Value("out"), Value("locked"), Value("open")}
        OBVIOUS
      <3> QED
        BY <2>1, <3>1, OthersAnswered
    <2>3. ASSUME NEW s \in psCache' \ psRows' PROVE s \in psRevived' \/ LoggingOut(s)'
      <3>1. s \in psCache \ psRows /\ s # c.sid /\ psRevived' = psRevived
        BY <1>2, <2>1
      <3>2. s \in psRevived \/ LoggingOut(s)
        BY <3>1, InvNow
      <3>3. ASSUME LoggingOut(s) PROVE LoggingOut(s)'
        <4>1. PICK j \in DOMAIN psCalls :
                psCalls[j].op = "logout" /\ psCalls[j].at = "dropped" /\ psCalls[j].sid = s
          BY <3>3 DEF LoggingOut
        <4>2. j # i
          BY <3>1, <4>1
        <4> QED
          <5>1. j \in DOMAIN psCalls' /\ psCalls'[j] = psCalls[j]
            BY <2>2, <4>2
          <5> QED
            BY <4>1, <5>1 DEF LoggingOut
      <3> QED
        BY <3>1, <3>2, <3>3
    <2>4. psIssued' \in Nat /\ psCookie' \in Nat /\ psMount' \in Nat
      BY <1>2, InvNow
    <2> QED
      BY <2>2, <2>3, <2>4, InvAfter
  <1>5. c.at \in {"in", "dropped"}
    BY DEF PsLogout
  <1> QED
    BY <1>3, <1>4, <1>5

\* A login makes a session with a row.
LEMMA LoginStep ==
  ASSUME LogoutInv, NEW i \in DOMAIN psCalls, PsLogin(i)
  PROVE  LogoutInv'
  <1> DEFINE c == psCalls[i]
             d == [c EXCEPT !.at = "done", !.ans = Value("open")]
             made == [d EXCEPT !.sid = psIssued']
  <1>1. c.at # "dropped" /\ UNCHANGED <<psCookie, psMount, psRevived>>
    BY DEF PsLogin, psPage
  <1>2. CASE psCalls' = Answered(i, Failed) /\ UNCHANGED <<psIssued, psRows, psCache>>
    <2>1. psCalls' \in Seq(PsRequest) /\ \A s : LoggingOut(s) => LoggingOut(s)'
      BY <1>1, <1>2, StageStep
    <2> QED
      BY <1>1, <1>2, <2>1, SameStore
  <1>3. CASE /\ psIssued' = psIssued + 1
             /\ psRows' = psRows \cup {psIssued'} /\ psCache' = psCache \cup {psIssued'}
             /\ psCalls' = [Answered(i, Value("open")) EXCEPT ![i].sid = psIssued']
    <2>1. psIssued' \in Nat
      BY <1>3 DEF LogoutInv, PsCallsOK
    <2>2. d \in PsRequest /\ Answered(i, Value("open")) = [psCalls EXCEPT ![i] = d]
      BY Stages, Zenon
    <2>3. made \in PsRequest
      BY <2>1, <2>2 DEF PsRequest
    <2>4. psCalls' = [psCalls EXCEPT ![i] = made]
      <3> HIDE DEF d, c
      <3> QED
        BY <1>3, <2>2 DEF made
    <2>5. psCalls' \in Seq(PsRequest) /\ \A s : LoggingOut(s) => LoggingOut(s)'
      BY <1>1, <2>3, <2>4, StageKeeps
    <2>6. psCookie' \in Nat /\ psMount' \in Nat
      BY <1>1, InvNow
    <2>7. ASSUME NEW s \in psCache' \ psRows' PROVE s \in psRevived' \/ LoggingOut(s)'
      <3>1. s \in psCache \ psRows
        BY <1>3, <2>7
      <3>2. s \in psRevived \/ LoggingOut(s)
        BY <3>1, InvNow
      <3> QED
        BY <1>1, <2>5, <3>2
    <2> QED
      BY <2>1, <2>5, <2>6, <2>7, InvAfter
  <1> QED
    BY <1>2, <1>3 DEF PsLogin

-----------------------------------------------------------------------------
(* The other steps.                                                        *)

\* A click or a timer sends a request, or nothing.
LEMMA PageStep ==
  ASSUME LogoutInv,
         SignIn \/ logout \/ lock \/ UnlockSubmit \/ PsActivity \/ PsTimePasses \/ fireLock
  PROVE  LogoutInv'
  <1>1. CASE SignIn \/ logout \/ lock \/ UnlockSubmit
    <2>1. psMount \in Nat /\ \E op \in {"lock", "login", "unlock", "logout"} : PsSendFrom(psMount, op)
      BY <1>1, InvNow DEF SignIn, logout, lock, UnlockSubmit, PsClick, PsSend
    <2>2. psCalls' \in Seq(PsRequest) /\ \A s : LoggingOut(s) => LoggingOut(s)'
      BY <2>1, SendStep
    <2>3. UNCHANGED <<psStore, psCookie, psMount>>
      BY <1>1 DEF SignIn, logout, lock, UnlockSubmit, PsClick
    <2> QED
      BY <2>2, <2>3, StoreUntouched DEF LogoutInv, PsCallsOK
  <1>2. CASE PsActivity \/ PsTimePasses
    <2>1. UNCHANGED <<psStore, psCookie, psMount, psCalls>>
      BY <1>2 DEF PsActivity, PsTimePasses
    <2> QED
      BY <2>1, StoreUntouched DEF LogoutInv, PsCallsOK, LoggingOut
  <1>3. CASE fireLock
    <2>1. UNCHANGED <<psStore, psCookie, psMount>> /\ \E m \in Nat : PsSendFrom(m, "idle")
      BY <1>3, InvNow DEF fireLock, PsSend
    <2>2. psCalls' \in Seq(PsRequest) /\ \A s : LoggingOut(s) => LoggingOut(s)'
      BY <2>1, SendStep
    <2> QED
      BY <2>1, <2>2, StoreUntouched DEF LogoutInv, PsCallsOK
  <1> QED
    BY <1>1, <1>2, <1>3

LEMMA ArrivalStep ==
  ASSUME LogoutInv, NEW i \in DOMAIN psCalls, PsAnswerArrives(i) \/ PsIdleLockFails(i)
  PROVE  LogoutInv'
  <1>1. psCalls[i].at = "done" /\ psCalls' = Forget(psCalls, i) /\ UNCHANGED psStore
    BY DEF PsAnswerArrives, PsIdleLockFails
  <1>2. psCalls' \in Seq(PsRequest) /\ \A s : LoggingOut(s) => LoggingOut(s)'
    BY <1>1, ForgetKeeps DEF LogoutInv
  <1>3. psCookie' \in Nat
    <2>1. psCalls[i].sid \in Nat
      BY Stages, Zenon DEF PsRequest
    <2> QED
      BY <2>1 DEF PsAnswerArrives, PsIdleLockFails, CookieAfter, LogoutInv, PsCallsOK
  <1>4. psMount' \in Nat
    <2>1. CASE PsAnswerArrives(i)
      <3>1. \E m : PsShow("ready", m, UserAfter(psCalls[i]), LockedAfter(psCalls[i]))
        BY <2>1 DEF PsAnswerArrives
      <3> QED
        BY <3>1, ShowStep DEF LogoutInv
    <2>2. CASE PsIdleLockFails(i)
      BY <2>2 DEF PsIdleLockFails, LogoutInv, PsCallsOK
    <2> QED
      BY <2>1, <2>2
  <1> QED
    BY <1>1, <1>2, <1>3, <1>4, StoreUntouched

LEMMA LostStep ==
  ASSUME LogoutInv, NEW i \in DOMAIN psCalls, PsLost(i)
  PROVE  LogoutInv'
  <1>1. psCalls[i].at # "dropped"
    BY DEF PsLost
  <1>2. NoSession(psCalls[i]) \in {Failed, Value("out")}
    BY DEF NoSession
  <1>3. psCalls' \in Seq(PsRequest) /\ \A s : LoggingOut(s) => LoggingOut(s)'
    BY <1>1, <1>2, StageStep DEF PsLost
  <1> QED
    BY <1>3, StoreUntouched DEF PsLost, psPage, LogoutInv, PsCallsOK

\* While nothing is half-way through the service no logout is.
LEMMA QuietMeansNoLogout == PsQuiet => \A s : ~LoggingOut(s)
  BY DEF PsQuiet, LoggingOut

LEMMA AroundStep ==
  ASSUME LogoutInv,
         \/ PsReload \/ PsOtherGet \/ PsOther \/ PsRestart
         \/ \E s \in psFills : PsOtherFill(s)
         \/ \E s \in Valid : PsExpires(s)
  PROVE  LogoutInv'
  <1>1. CASE PsReload
    <2> DEFINE boot == [PsCall("boot") EXCEPT !.mount = psMount + 1]
    <2>1. boot \in PsRequest /\ [boot EXCEPT !.ans = Waiting] \in PsRequest
      <3> DEFINE c == PsCall("boot")
      <3>1. c \in PsRequest /\ psMount + 1 \in Nat
        BY DEF PsCall, PsRequest, LogoutInv, PsCallsOK
      <3> HIDE DEF c
      <3>2. [c EXCEPT !.mount = psMount + 1] \in PsRequest
        BY <3>1 DEF PsRequest
      <3>3. boot \in PsRequest
        BY <3>2 DEF c
      <3> HIDE DEF boot
      <3> QED
        BY <3>3 DEF PsRequest
    <2>2. psCalls' \in Seq(PsRequest)
      BY <1>1, <2>1, EmptySeq, AppendProperties DEF PsReload, Send
    <2>3. psMount' \in Nat /\ UNCHANGED <<psStore, psCookie>> /\ PsQuiet
      BY <1>1 DEF PsReload, LogoutInv, PsCallsOK
    <2> QED
      BY <2>2, <2>3, QuietMeansNoLogout, StoreUntouched DEF LogoutInv, PsCallsOK
  <1>2. CASE PsOtherGet
    BY <1>2 DEF PsOtherGet, psPage, LogoutInv, PsCallsOK, CacheHasRows, LoggingOut
  <1>3. CASE PsOther
    <2>1. UNCHANGED <<psIssued, psMount, psRevived, psCalls>> /\ psCookie' \in Nat
      BY <1>3 DEF PsOther, psPage, LogoutInv, PsCallsOK
    <2>2. psCache' \ psRows' \subseteq psCache \ psRows
      BY <1>3 DEF PsOther, DeleteRow
    <2> QED
      BY <2>1, <2>2 DEF LogoutInv, PsCallsOK, CacheHasRows, LoggingOut
  <1>4. CASE PsRestart
    BY <1>4 DEF PsRestart, psPage, LogoutInv, PsCallsOK, CacheHasRows, LoggingOut
  <1>5. ASSUME NEW s \in psFills, PsOtherFill(s) PROVE LogoutInv'
    <2>1. /\ CacheFill(s)
          /\ UNCHANGED <<psRows, psCalls, psIssued, psCookie, psMount>>
      BY <1>5 DEF PsOtherFill, psPage
    <2> QED
      BY <2>1, FillStep DEF LogoutInv, PsCallsOK, LoggingOut
  <1>6. ASSUME NEW s \in Valid, PsExpires(s) PROVE LogoutInv'
    <2>1. /\ psCache' = psCache \ {s} /\ psRows' = psRows \ {s} /\ psRevived' = psRevived \ {s}
          /\ UNCHANGED <<psCalls, psIssued, psCookie, psMount>>
      BY <1>6 DEF PsExpires, psPage
    <2> QED
      BY <2>1 DEF LogoutInv, PsCallsOK, CacheHasRows, LoggingOut
  <1> QED
    BY <1>1, <1>2, <1>3, <1>4, <1>5, <1>6

LEMMA LogoutNext == LogoutInv /\ [PsNext]_psVars => LogoutInv'
  <1> SUFFICES ASSUME LogoutInv, [PsNext]_psVars PROVE LogoutInv'
    OBVIOUS
  <1>1. CASE SignIn \/ logout \/ lock \/ UnlockSubmit \/ PsActivity \/ PsTimePasses \/ fireLock
    BY <1>1, PageStep
  <1>2. ASSUME NEW i \in DOMAIN psCalls,
               \/ PsLookup(i) \/ PsFill(i) \/ PsAct(i) \/ PsLogout(i) \/ PsLogin(i)
               \/ PsAnswerArrives(i) \/ PsIdleLockFails(i) \/ PsLost(i)
        PROVE  LogoutInv'
    <2>1. CASE PsFill(i)
      <3>1. psCalls[i].at # "dropped" /\ psCalls' = At(i, "in")
        BY <2>1 DEF PsFill
      <3>2. psCalls' \in Seq(PsRequest) /\ \A s : LoggingOut(s) => LoggingOut(s)'
        BY <3>1, StageStep
      <3> QED
        BY <2>1, <3>2, FillStep DEF PsFill, psPage
    <2> QED
      BY <1>2, <2>1, LookupStep, ActStep, LogoutStep, LoginStep, ArrivalStep, LostStep
  <1>3. CASE \/ PsReload \/ PsOtherGet \/ PsOther \/ PsRestart
             \/ \E s \in psFills : PsOtherFill(s)
             \/ \E s \in Valid : PsExpires(s)
    BY <1>3, AroundStep
  <1>4. CASE UNCHANGED psVars
    BY <1>4, StoreUntouched DEF psVars, psStore, LogoutInv, PsCallsOK, LoggingOut
  <1> QED
    BY <1>1, <1>2, <1>3, <1>4 DEF PsNext

-----------------------------------------------------------------------------
(* Types of the store and the page, and what the panel shows. As long as   *)
(* nothing was mixed one request is in flight at most, and each stage of   *)
(* it says what the view is and what it will be when the answer is there.  *)

\* A request names a session that was made, the one it was let in with.
CallTyped(c, n) ==
    /\ c.sid \in 0 .. n
    /\ c.at \in {"found", "in", "dropped"} => c.sid # 0

CallsTyped == \A i \in DOMAIN psCalls : CallTyped(psCalls[i], psIssued)

PsStoreTyped ==
    /\ psIssued \in PsSessions
    /\ psCookie \in 0 .. psIssued
    /\ psRows \subseteq 1 .. psIssued /\ psCache \subseteq 1 .. psIssued /\ psLocks \subseteq 1 .. psIssued
    /\ psFills \subseteq 1 .. psIssued /\ psRevived \subseteq 1 .. psIssued
    /\ psUndeleted \subseteq 1 .. psIssued /\ psOut \subseteq 1 .. psIssued

PsPageTyped ==
    /\ psBoot \in {"loading", "ready"}
    /\ psMeta \in BOOLEAN /\ psUser \in BOOLEAN /\ psLocked \in BOOLEAN
    /\ psIdle \in [ticker : BOOLEAN, overdue : BOOLEAN]
    /\ psIdle.ticker => PsView = "shell"
    /\ psStray \in Nat

TabTyped == LogoutInv /\ PsStoreTyped /\ PsPageTyped /\ CallsTyped

\* The view that says of the session what the service says.
ViewFor(s) == IF s \notin Valid THEN "login" ELSE IF s \in psLocks THEN "lockscreen" ELSE "shell"

\* The view a request is sent from.
ViewOfOp(op) == CASE op = "login" -> "login" [] op = "unlock" -> "lockscreen" [] OTHER -> "shell"

InFlight == {psCalls[i] : i \in DOMAIN psCalls}

\* The only request in flight, stage by stage.
OnItsWay(c) ==
    /\ c.op = "boot" <=> psBoot = "loading"
    /\ c.at # "done" => c.sid = psCookie
    /\ c.at # "done" /\ c.op # "boot" => PsView = ViewOfOp(c.op)
    /\ c.at \in {"sent", "found", "in"} /\ c.op # "boot" => PsView = ViewFor(psCookie)
    /\ c.at \in {"found", "in"} => psCookie \in Valid /\ c.op # "login"
    /\ c.at = "dropped" => c.op = "logout"
    /\ c.at = "done" => /\ PsViewOf("ready", UserAfter(c), LockedAfter(c)) = ViewFor(CookieAfter(c))
                        /\ LockedAfter(c) => UserAfter(c)
                        /\ c.op = "idle" => c.ans # Failed

Agreeing ==
    /\ psStray = 0
    /\ Len(psCalls) <= 1
    /\ psLocked => psUser
    /\ psCalls = <<>> => psBoot = "ready" /\ PsView = ViewFor(psCookie)
    /\ \A c \in InFlight : OnItsWay(c)

AgreeInv == ~psMixed => Agreeing

-----------------------------------------------------------------------------
(* The requests after a step.                                              *)

LEMMA RemoveAtTakes ==
  ASSUME NEW S, NEW q \in Seq(S), NEW i \in DOMAIN q
  PROVE  \A k \in DOMAIN RemoveAt(q, i) : \E j \in DOMAIN q : RemoveAt(q, i)[k] = q[j]
  <1> DEFINE T == {q[j] : j \in DOMAIN q}
  <1>1. q \in Seq(T)
    <2>1. Len(q) \in Nat /\ DOMAIN q = 1 .. Len(q) /\ q = [j \in 1 .. Len(q) |-> q[j]]
      BY LenProperties, SeqDef
    <2>2. q \in [1 .. Len(q) -> T]
      BY <2>1
    <2> QED
      BY <2>1, <2>2, SeqDef
  <1>2. RemoveAt(q, i) \in Seq(T)
    <2> HIDE DEF T
    <2> QED
      BY <1>1, RemoveAtKeeps
  <1>3. \A k \in DOMAIN RemoveAt(q, i) : RemoveAt(q, i)[k] \in T
    <2> HIDE DEF T
    <2> QED
      BY <1>2, ElementOfSeq, LenProperties
  <1> QED
    BY <1>3

LEMMA SentTo ==
  ASSUME LogoutInv, NEW c \in PsRequest, psCalls' = Send(psCalls, c)
  PROVE  /\ Len(psCalls') = Len(psCalls) + 1
         /\ DOMAIN psCalls' = DOMAIN psCalls \cup {Len(psCalls) + 1}
         /\ psCalls'[Len(psCalls) + 1] = [c EXCEPT !.ans = Waiting]
         /\ \A k \in DOMAIN psCalls : psCalls'[k] = psCalls[k]
  <1> DEFINE d == [c EXCEPT !.ans = Waiting]
  <1>1. d \in PsRequest
    BY DEF PsRequest
  <1>2. psCalls \in Seq(PsRequest) /\ psCalls' = Append(psCalls, d)
    BY DEF LogoutInv, PsCallsOK, Send
  <1> HIDE DEF d
  <1>3. /\ psCalls' \in Seq(PsRequest)
        /\ Len(psCalls') = Len(psCalls) + 1
        /\ \A k \in 1 .. Len(psCalls) : psCalls'[k] = psCalls[k]
        /\ psCalls'[Len(psCalls) + 1] = d
    BY <1>1, <1>2, AppendProperties
  <1>4. /\ Len(psCalls) \in Nat
        /\ DOMAIN psCalls = 1 .. Len(psCalls)
        /\ DOMAIN psCalls' = 1 .. Len(psCalls) + 1
    BY <1>2, <1>3, LenProperties
  <1>5. DOMAIN psCalls' = DOMAIN psCalls \cup {Len(psCalls) + 1}
    BY <1>4
  <1> QED
    BY <1>3, <1>4, <1>5 DEF d

LEMMA ForgottenAt ==
  ASSUME LogoutInv, NEW i \in DOMAIN psCalls, psCalls' = Forget(psCalls, i)
  PROVE  /\ Len(psCalls') = Len(psCalls) - 1
         /\ \A k \in DOMAIN psCalls' : \E j \in DOMAIN psCalls : psCalls'[k] = psCalls[j]
         /\ Len(psCalls) <= 1 => psCalls' = <<>>
  <1>1. psCalls \in Seq(PsRequest) /\ psCalls' = RemoveAt(psCalls, i)
    BY DEF LogoutInv, PsCallsOK, Forget
  <1>2. psCalls' \in Seq(PsRequest) /\ Len(psCalls') = Len(psCalls) - 1
    BY <1>1, RemoveAtKeeps
  <1>3. \A k \in DOMAIN psCalls' : \E j \in DOMAIN psCalls : psCalls'[k] = psCalls[j]
    BY <1>1, RemoveAtTakes
  <1>4. Len(psCalls) <= 1 => psCalls' = <<>>
    <2>1. Len(psCalls) \in Nat /\ Len(psCalls') \in Nat
      BY <1>1, <1>2, LenProperties
    <2> QED
      BY <1>2, <2>1, EmptySeq
  <1> QED
    BY <1>2, <1>3, <1>4

\* At and Answered replace one request, and it is another stage of the same.
LEMMA StagedAt ==
  ASSUME LogoutInv, NEW i \in DOMAIN psCalls, NEW at \in {"found", "in", "dropped"}, psCalls' = At(i, at)
  PROVE  \E d \in PsRequest :
           /\ DOMAIN psCalls' = DOMAIN psCalls /\ psCalls'[i] = d
           /\ \A j \in DOMAIN psCalls \ {i} : psCalls'[j] = psCalls[j]
           /\ d.op = psCalls[i].op /\ d.sid = psCalls[i].sid /\ d.at = at /\ d.ans = psCalls[i].ans
  <1> DEFINE e == [psCalls[i] EXCEPT !.at = at]
  <1>1. psCalls' = [psCalls EXCEPT ![i] = e] /\ e \in PsRequest /\ psCalls[i] \in PsRequest
    BY Stages, Zenon
  <1>2. /\ e.op = psCalls[i].op /\ e.sid = psCalls[i].sid /\ e.at = at /\ e.ans = psCalls[i].ans
    BY <1>1 DEF PsRequest
  <1> HIDE DEF e
  <1>3. PsCallsOK
    BY DEF LogoutInv
  <1> QED
    BY <1>1, <1>2, <1>3, ReplaceKeeps

LEMMA AnsweredAt ==
  ASSUME LogoutInv, NEW i \in DOMAIN psCalls,
         NEW ans \in {Failed, Value("out"), Value("locked"), Value("open")}, psCalls' = Answered(i, ans)
  PROVE  \E d \in PsRequest :
           /\ DOMAIN psCalls' = DOMAIN psCalls /\ psCalls'[i] = d
           /\ \A j \in DOMAIN psCalls \ {i} : psCalls'[j] = psCalls[j]
           /\ d.op = psCalls[i].op /\ d.sid = psCalls[i].sid /\ d.at = "done" /\ d.ans = ans
  <1> DEFINE e == [psCalls[i] EXCEPT !.at = "done", !.ans = ans]
  <1>1. psCalls' = [psCalls EXCEPT ![i] = e] /\ e \in PsRequest /\ psCalls[i] \in PsRequest
    BY Stages, Zenon
  <1>2. /\ e.op = psCalls[i].op /\ e.sid = psCalls[i].sid /\ e.at = "done" /\ e.ans = ans
    BY <1>1 DEF PsRequest
  <1> HIDE DEF e
  <1>3. PsCallsOK
    BY DEF LogoutInv
  <1> QED
    BY <1>1, <1>2, <1>3, ReplaceKeeps

\* A login that succeeds is answered with the session it made.
LEMMA MadeAt ==
  ASSUME LogoutInv, NEW i \in DOMAIN psCalls, NEW s \in Nat,
         psCalls' = [Answered(i, Value("open")) EXCEPT ![i].sid = s]
  PROVE  \E d \in PsRequest :
           /\ DOMAIN psCalls' = DOMAIN psCalls /\ psCalls'[i] = d
           /\ \A j \in DOMAIN psCalls \ {i} : psCalls'[j] = psCalls[j]
           /\ d.op = psCalls[i].op /\ d.sid = s /\ d.at = "done" /\ d.ans = Value("open")
  <1> DEFINE e == [psCalls[i] EXCEPT !.at = "done", !.ans = Value("open")]
             made == [e EXCEPT !.sid = s]
  <1>1. Answered(i, Value("open")) = [psCalls EXCEPT ![i] = e] /\ e \in PsRequest /\ psCalls[i] \in PsRequest
    BY Stages, Zenon
  <1>2. /\ made \in PsRequest
        /\ made.op = psCalls[i].op /\ made.sid = s /\ made.at = "done" /\ made.ans = Value("open")
    BY <1>1 DEF PsRequest
  <1> HIDE DEF e
  <1>3. psCalls' = [psCalls EXCEPT ![i] = made]
    BY <1>1
  <1> HIDE DEF made
  <1>4. PsCallsOK
    BY DEF LogoutInv
  <1> QED
    BY <1>2, <1>3, <1>4, ReplaceKeeps
-----------------------------------------------------------------------------
(* The types.                                                              *)

\* Requests that stay, and new ones of the right type.
LEMMA CallsTypedAfter ==
  ASSUME TabTyped, psIssued' \in Nat, psIssued' >= psIssued,
         \A k \in DOMAIN psCalls' : \/ \E j \in DOMAIN psCalls : psCalls'[k] = psCalls[j]
                                    \/ CallTyped(psCalls'[k], psIssued')
  PROVE  CallsTyped'
  <1>1. psIssued \in Nat
    BY DEF TabTyped, LogoutInv, PsCallsOK
  <1>2. ASSUME NEW j \in DOMAIN psCalls PROVE CallTyped(psCalls[j], psIssued')
    <2>1. CallTyped(psCalls[j], psIssued)
      BY DEF TabTyped, CallsTyped
    <2> QED
      BY <1>1, <2>1 DEF CallTyped
  <1>3. \A k \in DOMAIN psCalls' : CallTyped(psCalls'[k], psIssued')
    BY <1>2
  <1> QED
    BY <1>3 DEF CallsTyped

\* The store stays as it is.
LEMMA SameStoreTyped ==
  ASSUME TabTyped, UNCHANGED psStore, psCookie' \in 0 .. psIssued
  PROVE  PsStoreTyped'
  BY DEF TabTyped, PsStoreTyped, psStore

LEMMA SamePageTyped ==
  ASSUME TabTyped, UNCHANGED psPage
  PROVE  PsPageTyped'
  BY DEF TabTyped, PsPageTyped, psPage, PsView, PsViewOf

\* The view stays, and a ticker is started from the Shell only.
LEMMA IdlePageTyped ==
  ASSUME TabTyped, UNCHANGED <<psBoot, psMeta, psUser, psLocked>>, psStray' \in Nat,
         psIdle' \in [ticker : BOOLEAN, overdue : BOOLEAN], psIdle'.ticker => PsView = "shell"
  PROVE  PsPageTyped'
  <1>1. PsView' = PsView
    BY DEF PsView, PsViewOf
  <1>2. /\ psBoot \in {"loading", "ready"}
        /\ psMeta \in BOOLEAN /\ psUser \in BOOLEAN /\ psLocked \in BOOLEAN
    BY DEF TabTyped, PsPageTyped
  <1> QED
    BY <1>1, <1>2, Zenon DEF PsPageTyped

\* The ticker as it is, stopped, and started again.
LEMMA IdleFacts ==
  ASSUME TabTyped
  PROVE  /\ psIdle \in [ticker : BOOLEAN, overdue : BOOLEAN] /\ (psIdle.ticker => PsView = "shell")
         /\ Touched \in [ticker : BOOLEAN, overdue : BOOLEAN]
         /\ NoTicker \in [ticker : BOOLEAN, overdue : BOOLEAN] /\ ~NoTicker.ticker
         /\ psStray \in Nat
  <1>1. psIdle \in [ticker : BOOLEAN, overdue : BOOLEAN] /\ (psIdle.ticker => PsView = "shell") /\ psStray \in Nat
    BY DEF TabTyped, PsPageTyped
  <1>2. NoTicker \in [ticker : BOOLEAN, overdue : BOOLEAN] /\ ~NoTicker.ticker
    BY DEF NoTicker
  <1>3. [ticker |-> TRUE, overdue |-> FALSE] \in [ticker : BOOLEAN, overdue : BOOLEAN]
    OBVIOUS
  <1>4. Touched \in [ticker : BOOLEAN, overdue : BOOLEAN]
    BY <1>1, <1>3, Zenon DEF Touched
  <1> QED
    BY <1>1, <1>2, <1>4

\* A request of the tab.
LEMMA SendTyped ==
  ASSUME TabTyped, NEW op \in {"lock", "idle", "login", "unlock", "logout"}, NEW m \in Nat, PsSendFrom(m, op),
         UNCHANGED psStore
  PROVE  CallsTyped'
  <1>1. PICK c \in PsRequest : c = [PsCall(op) EXCEPT !.mount = m]
    BY DEF PsCall, PsRequest, TabTyped, LogoutInv, PsCallsOK
  <1>2. c.sid = psCookie /\ c.at = "sent"
    BY <1>1 DEF PsCall
  <1>3. PICK d \in PsRequest : d = [c EXCEPT !.ans = Waiting]
    BY DEF PsRequest
  <1>4. d.sid = psCookie /\ d.at = "sent"
    BY <1>2, <1>3 DEF PsRequest
  <1>5. psCalls' = Send(psCalls, c)
    BY <1>1 DEF PsSendFrom
  <1>6. /\ DOMAIN psCalls' = DOMAIN psCalls \cup {Len(psCalls) + 1}
        /\ psCalls'[Len(psCalls) + 1] = d
        /\ \A k \in DOMAIN psCalls : psCalls'[k] = psCalls[k]
    BY <1>3, <1>5, SentTo DEF TabTyped
  <1>7. psIssued' = psIssued /\ psIssued \in Nat /\ psCookie \in 0 .. psIssued
    BY DEF psStore, TabTyped, LogoutInv, PsCallsOK, PsStoreTyped
  <1>8. CallTyped(d, psIssued')
    BY <1>4, <1>7 DEF CallTyped
  <1> QED
    BY <1>6, <1>7, <1>8, CallsTypedAfter

\* One request reaches another stage.
LEMMA StageTyped ==
  ASSUME TabTyped, NEW i \in DOMAIN psCalls, NEW d, psIssued' \in Nat, psIssued' >= psIssued,
         DOMAIN psCalls' = DOMAIN psCalls, psCalls'[i] = d,
         \A j \in DOMAIN psCalls \ {i} : psCalls'[j] = psCalls[j],
         d.sid \in 0 .. psIssued', d.at \in {"found", "in", "dropped"} => d.sid # 0
  PROVE  CallsTyped'
  <1>1. CallTyped(d, psIssued')
    BY DEF CallTyped
  <1>2. ASSUME NEW k \in DOMAIN psCalls'
        PROVE  \/ \E j \in DOMAIN psCalls : psCalls'[k] = psCalls[j]
               \/ CallTyped(psCalls'[k], psIssued')
    BY <1>1
  <1> QED
    BY <1>2, CallsTypedAfter

\* At and Answered keep the session of the request.
LEMMA NextStageTyped ==
  ASSUME TabTyped, NEW i \in DOMAIN psCalls, psIssued' = psIssued,
         \/ \E at \in {"found", "in", "dropped"} : psCalls' = At(i, at) /\ psCalls[i].sid # 0
         \/ \E ans \in {Failed, Value("out"), Value("locked"), Value("open")} : psCalls' = Answered(i, ans)
  PROVE  CallsTyped'
  <1>1. psIssued' \in Nat /\ psIssued' >= psIssued /\ psCalls[i].sid \in 0 .. psIssued'
    BY DEF TabTyped, LogoutInv, PsCallsOK, CallsTyped, CallTyped
  <1>2. ASSUME NEW at \in {"found", "in", "dropped"}, psCalls' = At(i, at), psCalls[i].sid # 0
        PROVE  CallsTyped'
    <2>1. PICK d \in PsRequest :
             /\ DOMAIN psCalls' = DOMAIN psCalls /\ psCalls'[i] = d
             /\ \A j \in DOMAIN psCalls \ {i} : psCalls'[j] = psCalls[j]
             /\ d.op = psCalls[i].op /\ d.sid = psCalls[i].sid /\ d.at = at /\ d.ans = psCalls[i].ans
      BY <1>2, StagedAt DEF TabTyped
    <2>2. d.sid \in 0 .. psIssued' /\ d.sid # 0
      BY <1>1, <1>2, <2>1
    <2> QED
      BY <1>1, <2>1, <2>2, StageTyped
  <1>3. ASSUME NEW ans \in {Failed, Value("out"), Value("locked"), Value("open")}, psCalls' = Answered(i, ans)
        PROVE  CallsTyped'
    <2>1. PICK d \in PsRequest :
             /\ DOMAIN psCalls' = DOMAIN psCalls /\ psCalls'[i] = d
             /\ \A j \in DOMAIN psCalls \ {i} : psCalls'[j] = psCalls[j]
             /\ d.op = psCalls[i].op /\ d.sid = psCalls[i].sid /\ d.at = "done" /\ d.ans = ans
      BY <1>3, AnsweredAt DEF TabTyped
    <2>2. d.sid \in 0 .. psIssued' /\ d.at \notin {"found", "in", "dropped"}
      BY <1>1, <2>1
    <2> QED
      BY <1>1, <2>1, <2>2, StageTyped
  <1> QED
    BY <1>2, <1>3

\* Requests that were there, and no other.
LEMMA FewerTyped ==
  ASSUME TabTyped, NEW i \in DOMAIN psCalls, psCalls' = Forget(psCalls, i), psIssued' = psIssued
  PROVE  CallsTyped'
  <1>1. psIssued' \in Nat /\ psIssued' >= psIssued
    BY DEF TabTyped, LogoutInv, PsCallsOK
  <1>2. \A k \in DOMAIN psCalls' : \E j \in DOMAIN psCalls : psCalls'[k] = psCalls[j]
    BY ForgottenAt DEF TabTyped
  <1> QED
    BY <1>1, <1>2, CallsTypedAfter

\* What a request says of the session it was let in with.
LEMMA CallFacts ==
  ASSUME TabTyped, NEW i \in DOMAIN psCalls
  PROVE  /\ psCalls[i] \in PsRequest
         /\ psIssued \in Nat /\ psCookie \in 0 .. psIssued
         /\ psCalls[i].sid \in 0 .. psIssued
         /\ psCalls[i].at \in {"found", "in", "dropped"} => psCalls[i].sid \in 1 .. psIssued
  <1>1. psCalls[i] \in PsRequest /\ psIssued \in Nat /\ psCookie \in 0 .. psIssued
    BY Stages, Zenon DEF TabTyped, LogoutInv, PsCallsOK, PsStoreTyped
  <1>2. CallTyped(psCalls[i], psIssued)
    BY DEF TabTyped, CallsTyped
  <1> QED
    BY <1>1, <1>2 DEF CallTyped

\* The view changes, and the ticker with it.
LEMMA ShowTyped ==
  ASSUME TabTyped, NEW b \in {"loading", "ready"}, NEW m \in BOOLEAN, NEW u \in BOOLEAN, NEW l \in BOOLEAN,
         PsShow(b, m, u, l), psStray' \in Nat
  PROVE  PsPageTyped'
  <1>1. PsPageTyped
    BY DEF TabTyped
  <1>2. PsView' = PsViewOf(b, u, l)
    BY DEF PsShow, PsView, PsViewOf
  <1>3. psIdle' \in [ticker : BOOLEAN, overdue : BOOLEAN] /\ (psIdle'.ticker => PsView' = "shell")
    <2>1. CASE PsView' = PsView
      <3>1. psIdle' = psIdle
        BY <1>2, <2>1 DEF PsShow
      <3> QED
        BY <1>1, <2>1, <3>1 DEF PsPageTyped
    <2>2. CASE PsView' # PsView
      <3>1. psIdle' = IdleOf(PsView', m)
        BY <1>2, <2>2 DEF PsShow
      <3> QED
        BY <3>1 DEF IdleOf, NoTicker
    <2> QED
      BY <2>1, <2>2
  <1>4. psBoot' = b /\ psMeta' = m /\ psUser' = u /\ psLocked' = l
    BY DEF PsShow
  <1> QED
    BY <1>3, <1>4 DEF PsPageTyped
LEMMA ServiceTyped ==
  ASSUME TabTyped, NEW i \in DOMAIN psCalls,
         PsLookup(i) \/ PsFill(i) \/ PsAct(i) \/ PsLogout(i) \/ PsLogin(i)
  PROVE  PsStoreTyped' /\ PsPageTyped' /\ CallsTyped'
  <1> DEFINE c == psCalls[i]
  <1>1. /\ c \in PsRequest /\ psIssued \in Nat /\ c.sid \in 0 .. psIssued
        /\ c.at \in {"found", "in", "dropped"} => c.sid \in 1 .. psIssued
    BY CallFacts
  <1>2. PsPageTyped'
    <2>1. UNCHANGED psPage
      BY DEF PsLookup, PsFill, PsAct, PsLogout, PsLogin
    <2> QED
      BY <2>1, SamePageTyped
  <1>3. PsStoreTyped
    BY DEF TabTyped
  <1>4. CASE PsLookup(i)
    <2>1. UNCHANGED <<psStore, psCookie>>
      BY <1>4 DEF PsLookup
    <2>2. PsStoreTyped'
      BY <1>3, <2>1, SameStoreTyped DEF PsStoreTyped
    <2>3. NoSession(c) \in {Failed, Value("out")}
      BY DEF NoSession
    <2>4. c.sid \in psCache \cup psRows => c.sid # 0
      BY <1>1, <1>3 DEF PsStoreTyped
    <2>5. \/ \E at \in {"found", "in", "dropped"} : psCalls' = At(i, at) /\ c.sid # 0
          \/ \E ans \in {Failed, Value("out"), Value("locked"), Value("open")} : psCalls' = Answered(i, ans)
      BY <1>4, <2>3, <2>4 DEF PsLookup
    <2>6. CallsTyped'
      BY <2>1, <2>5, NextStageTyped DEF psStore
    <2> QED
      BY <1>2, <2>2, <2>6
  <1>5. CASE PsFill(i)
    <2>1. /\ c.sid \in 1 .. psIssued /\ psCalls' = At(i, "in")
          /\ UNCHANGED <<psRows, psLocks, psIssued, psFills, psUndeleted, psOut, psCookie>>
      BY <1>1, <1>5 DEF PsFill
    <2>2. psCache' = psCache \cup {c.sid} /\ psRevived' \subseteq psRevived \cup {c.sid}
      BY <1>5 DEF PsFill, CacheFill
    <2>3. PsStoreTyped'
      BY <1>3, <2>1, <2>2 DEF PsStoreTyped
    <2>4. CallsTyped'
      BY <1>1, <2>1, NextStageTyped
    <2> QED
      BY <1>2, <2>3, <2>4
  <1>6. CASE PsAct(i)
    <2>1. /\ c.sid \in 1 .. psIssued
          /\ psLocks' \subseteq psLocks \cup {c.sid}
          /\ UNCHANGED <<psRows, psCache, psIssued, psFills, psRevived, psUndeleted, psOut, psCookie>>
          /\ \E ans \in {Failed, Value("locked"), Value("open")} : psCalls' = Answered(i, ans)
      BY <1>1, <1>6 DEF PsAct
    <2>2. PsStoreTyped'
      BY <1>3, <2>1 DEF PsStoreTyped
    <2>3. CallsTyped'
      BY <2>1, NextStageTyped
    <2> QED
      BY <1>2, <2>2, <2>3
  <1>7. CASE PsLogout(i)
    <2>1. /\ c.sid \in 1 .. psIssued
          /\ psRows' \subseteq psRows /\ psCache' \subseteq psCache
          /\ psUndeleted' \subseteq psUndeleted \cup {c.sid} /\ psOut' \subseteq psOut \cup {c.sid}
          /\ UNCHANGED <<psLocks, psIssued, psFills, psRevived, psCookie>>
          /\ psCalls' = At(i, "dropped") \/ psCalls' = Answered(i, Value("out"))
      BY <1>1, <1>7 DEF PsLogout, Delete, DeleteRow
    <2>2. PsStoreTyped'
      BY <1>3, <2>1 DEF PsStoreTyped
    <2>3. CallsTyped'
      BY <1>1, <2>1, NextStageTyped
    <2> QED
      BY <1>2, <2>2, <2>3
  <1>8. CASE PsLogin(i)
    <2>1. UNCHANGED <<psLocks, psFills, psRevived, psUndeleted, psOut, psCookie>>
      BY <1>8 DEF PsLogin
    <2>2. CASE psCalls' = Answered(i, Failed) /\ UNCHANGED <<psIssued, psRows, psCache>>
      <3>1. PsStoreTyped'
        BY <1>3, <2>1, <2>2 DEF PsStoreTyped
      <3>2. CallsTyped'
        BY <2>2, NextStageTyped
      <3> QED
        BY <1>2, <3>1, <3>2
    <2>3. CASE /\ psIssued < PsMaxSessions /\ psIssued' = psIssued + 1
               /\ psRows' = psRows \cup {psIssued'} /\ psCache' = psCache \cup {psIssued'}
               /\ psCalls' = [Answered(i, Value("open")) EXCEPT ![i].sid = psIssued']
      <3>1. psIssued' \in PsSessions /\ psIssued' \in Nat /\ psIssued' >= psIssued
        BY <1>1, <1>3, <2>3, PsSessionsAssumption DEF PsStoreTyped, PsSessions
      <3>2. 1 .. psIssued \subseteq 1 .. psIssued' /\ psIssued' \in 1 .. psIssued' /\ 0 .. psIssued \subseteq 0 .. psIssued'
        BY <1>1, <2>3
      <3>3. PsStoreTyped'
        BY <1>3, <2>1, <2>3, <3>1, <3>2 DEF PsStoreTyped
      <3>4. PICK s \in Nat : s = psIssued'
        BY <3>1
      <3>5. PICK d \in PsRequest :
             /\ DOMAIN psCalls' = DOMAIN psCalls /\ psCalls'[i] = d
             /\ \A j \in DOMAIN psCalls \ {i} : psCalls'[j] = psCalls[j]
             /\ d.op = psCalls[i].op /\ d.sid = s /\ d.at = "done" /\ d.ans = Value("open")
        <4>1. psCalls' = [Answered(i, Value("open")) EXCEPT ![i].sid = s]
          BY <2>3, <3>4
        <4> QED
          BY <4>1, MadeAt DEF TabTyped
      <3>6. d.sid \in 0 .. psIssued' /\ d.at \notin {"found", "in", "dropped"}
        BY <3>1, <3>4, <3>5
      <3>7. CallsTyped'
        BY <3>1, <3>5, <3>6, StageTyped
      <3> QED
        BY <1>2, <3>3, <3>7
    <2> QED
      BY <1>8, <2>2, <2>3 DEF PsLogin
  <1> QED
    BY <1>4, <1>5, <1>6, <1>7, <1>8

LEMMA GesturesTyped ==
  ASSUME TabTyped,
         SignIn \/ logout \/ lock \/ UnlockSubmit \/ PsActivity \/ PsTimePasses \/ fireLock
  PROVE  PsStoreTyped' /\ PsPageTyped' /\ CallsTyped'
  <1>1. UNCHANGED <<psStore, psCookie, psBoot, psMeta, psUser, psLocked>>
    BY DEF SignIn, logout, lock, UnlockSubmit, PsClick, PsActivity, PsTimePasses, fireLock
  <1>2. PsStoreTyped'
    BY <1>1, SameStoreTyped DEF TabTyped, PsStoreTyped
  <1>5. CASE SignIn \/ logout \/ lock \/ UnlockSubmit
    <2>1. PICK op \in {"lock", "login", "unlock", "logout"} :
            PsSendFrom(psMount, op) /\ psIdle' \in {psIdle, Touched} /\ psStray' = psStray
                                    /\ (psIdle' = psIdle \/ PsView = "shell")
      BY <1>5 DEF SignIn, logout, lock, UnlockSubmit, PsClick, PsSend
    <2>2. CallsTyped'
      BY <1>1, <2>1, SendTyped, InvNow DEF TabTyped
    <2>3. /\ psIdle' \in [ticker : BOOLEAN, overdue : BOOLEAN] /\ psStray' \in Nat
          /\ psIdle'.ticker => PsView = "shell"
      BY <2>1, IdleFacts
    <2>4. PsPageTyped'
      BY <1>1, <2>3, IdlePageTyped
    <2> QED
      BY <1>2, <2>2, <2>4
  <1>6. CASE PsActivity \/ PsTimePasses
    <2>1. UNCHANGED <<psCalls, psStray>>
      BY <1>6 DEF PsActivity, PsTimePasses
    <2>2. CallsTyped'
      <3>1. psIssued' = psIssued
        BY <1>1 DEF psStore
      <3> QED
        BY <2>1, <3>1 DEF TabTyped, CallsTyped
    <2>3. psIdle' \in [ticker : BOOLEAN, overdue : BOOLEAN] /\ (psIdle'.ticker => PsView = "shell")
      <3>1. CASE PsActivity
        BY <3>1, IdleFacts DEF PsActivity
      <3>2. CASE PsTimePasses
        BY <3>2, IdleFacts DEF PsTimePasses
      <3> QED
        BY <1>6, <3>1, <3>2
    <2>4. PsPageTyped'
      BY <1>1, <2>1, <2>3, IdleFacts, IdlePageTyped
    <2> QED
      BY <1>2, <2>2, <2>4
  <1>7. CASE fireLock
    <2>1. \E m \in Nat : PsSendFrom(m, "idle")
      BY <1>7, InvNow DEF fireLock, PsSend, TabTyped
    <2>2. CallsTyped'
      BY <1>1, <2>1, SendTyped
    <2>3. psIdle' \in {psIdle, NoTicker} /\ psStray' \in Nat
      BY <1>7, IdleFacts DEF fireLock
    <2>4. PsPageTyped'
      BY <1>1, <2>3, IdleFacts, IdlePageTyped
    <2> QED
      BY <1>2, <2>2, <2>4
  <1> QED
    BY <1>5, <1>6, <1>7

\* What an answer makes of the view.
LEMMA AfterAnswer ==
  ASSUME TabTyped, NEW c \in PsRequest, c.at = "done"
  PROVE  UserAfter(c) \in BOOLEAN /\ LockedAfter(c) \in BOOLEAN
  BY DEF TabTyped, PsPageTyped, UserAfter, LockedAfter, PsRequest

LEMMA AnswersTyped ==
  ASSUME TabTyped, NEW i \in DOMAIN psCalls, PsAnswerArrives(i) \/ PsIdleLockFails(i) \/ PsLost(i)
  PROVE  PsStoreTyped' /\ PsPageTyped' /\ CallsTyped'
  <1>1. PICK c \in PsRequest : c = psCalls[i]
    BY CallFacts
  <1>2. c.sid \in 0 .. psIssued /\ psIssued \in Nat /\ psCookie \in 0 .. psIssued
    BY <1>1, CallFacts
  <1>3. UNCHANGED psStore /\ psCookie' \in 0 .. psIssued
    BY <1>1, <1>2 DEF PsAnswerArrives, PsIdleLockFails, PsLost, CookieAfter
  <1>4. PsStoreTyped' /\ psIssued' = psIssued
    BY <1>3, SameStoreTyped DEF psStore
  <1>5. CASE PsAnswerArrives(i)
    <2>1. PICK m \in BOOLEAN : PsShow("ready", m, UserAfter(c), LockedAfter(c))
      BY <1>1, <1>5 DEF PsAnswerArrives, TabTyped, PsPageTyped
    <2>2. psStray' \in Nat /\ psCalls' = Forget(psCalls, i) /\ c.at = "done"
      BY <1>1, <1>5 DEF PsAnswerArrives, TabTyped, PsPageTyped
    <2>3. UserAfter(c) \in BOOLEAN /\ LockedAfter(c) \in BOOLEAN
      BY <2>2, AfterAnswer
    <2>4. PsPageTyped'
      BY <2>1, <2>2, <2>3, ShowTyped
    <2>5. CallsTyped'
      BY <1>4, <2>2, FewerTyped
    <2> QED
      BY <1>4, <2>4, <2>5
  <1>6. CASE PsIdleLockFails(i)
    <2>1. psCalls' = Forget(psCalls, i) /\ UNCHANGED <<psBoot, psMeta, psUser, psLocked>>
      BY <1>6 DEF PsIdleLockFails
    <2>2. CallsTyped'
      BY <1>4, <2>1, FewerTyped
    <2>3. \/ psIdle' = [ticker |-> TRUE, overdue |-> FALSE] /\ PsView = "shell" /\ psStray' = psStray
          \/ psIdle' = psIdle /\ psStray' = psStray + 1
      BY <1>6 DEF PsIdleLockFails
    <2>4. /\ psIdle' \in [ticker : BOOLEAN, overdue : BOOLEAN] /\ psStray' \in Nat
          /\ psIdle'.ticker => PsView = "shell"
      <3>1. CASE psIdle' = [ticker |-> TRUE, overdue |-> FALSE] /\ PsView = "shell" /\ psStray' = psStray
        BY <3>1, IdleFacts
      <3>2. CASE psIdle' = psIdle /\ psStray' = psStray + 1
        BY <3>2, IdleFacts
      <3> QED
        BY <2>3, <3>1, <3>2
    <2>5. PsPageTyped'
      BY <2>1, <2>4, IdlePageTyped
    <2> QED
      BY <1>4, <2>2, <2>5
  <1>7. CASE PsLost(i)
    <2>1. NoSession(psCalls[i]) \in {Failed, Value("out")} /\ psCalls' = Answered(i, NoSession(psCalls[i]))
      BY <1>7 DEF NoSession, PsLost
    <2>2. CallsTyped'
      BY <1>4, <2>1, NextStageTyped
    <2>3. PsPageTyped'
      BY <1>7, SamePageTyped DEF PsLost
    <2> QED
      BY <1>4, <2>2, <2>3
  <1> QED
    BY <1>5, <1>6, <1>7

\* The request the page is loaded with.
LEMMA FirstCall ==
  ASSUME PsInit
  PROVE  \E d \in PsRequest : psCalls = <<d>> /\ d.sid = psCookie /\ d.at = "sent" /\ d.op = "boot"
  <1>1. PICK c \in PsRequest : c = [op |-> "boot", sid |-> psCookie, mount |-> 0, at |-> "sent", ans |-> Waiting]
    BY DEF PsInit, PsRequest
  <1>2. PICK d \in PsRequest : d = [c EXCEPT !.ans = Waiting]
    BY DEF PsRequest
  <1>3. d.sid = psCookie /\ d.at = "sent" /\ d.op = "boot"
    BY <1>1, <1>2
  <1>4. psCalls = <<d>>
    BY <1>1, <1>2 DEF PsInit, Send
  <1> QED
    BY <1>3, <1>4

LEMMA BootCall ==
  ASSUME TabTyped, PsReload
  PROVE  \E d \in PsRequest : psCalls' = <<d>> /\ d.sid = psCookie /\ d.at = "sent" /\ d.op = "boot"
  <1>1. PICK b \in PsRequest : b = PsCall("boot")
    BY DEF PsCall, PsRequest, TabTyped, LogoutInv, PsCallsOK
  <1>2. b.sid = psCookie /\ b.at = "sent" /\ b.op = "boot" /\ psMount + 1 \in Nat
    BY <1>1 DEF PsCall, TabTyped, LogoutInv, PsCallsOK
  <1>3. PICK c \in PsRequest : c = [b EXCEPT !.mount = psMount + 1]
    BY <1>2 DEF PsRequest
  <1>4. PICK d \in PsRequest : d = [c EXCEPT !.ans = Waiting]
    BY DEF PsRequest
  <1>5. d.sid = psCookie /\ d.at = "sent" /\ d.op = "boot"
    BY <1>2, <1>3, <1>4 DEF PsRequest
  <1>6. psCalls' = <<d>>
    BY <1>1, <1>3, <1>4 DEF PsReload, Send
  <1> QED
    BY <1>5, <1>6

LEMMA AroundTyped ==
  ASSUME TabTyped,
         \/ PsReload \/ PsOtherGet \/ PsOther \/ PsRestart
         \/ \E s \in psFills : PsOtherFill(s)
         \/ \E s \in Valid : PsExpires(s)
  PROVE  PsStoreTyped' /\ PsPageTyped' /\ CallsTyped'
  <1>1. PsStoreTyped /\ PsPageTyped /\ psIssued \in Nat
    BY DEF TabTyped, LogoutInv, PsCallsOK
  <1>2. CASE PsReload
    <2>1. UNCHANGED <<psStore, psCookie>>
      BY <1>2 DEF PsReload
    <2>2. PsStoreTyped'
      BY <1>1, <2>1, SameStoreTyped DEF PsStoreTyped
    <2>3. PsPageTyped'
      BY <1>2 DEF PsReload, PsPageTyped, NoTicker
    <2>5. PICK d \in PsRequest : psCalls' = <<d>> /\ d.sid = psCookie /\ d.at = "sent"
      BY <1>2, BootCall
    <2>6. CallTyped(d, psIssued')
      BY <1>1, <2>1, <2>5 DEF CallTyped, PsStoreTyped, psStore
    <2>7. CallsTyped'
      BY <2>5, <2>6 DEF CallsTyped
    <2> QED
      BY <2>2, <2>3, <2>7
  <1>3. CASE PsOtherGet \/ PsOther \/ PsRestart \/ (\E s \in psFills : PsOtherFill(s)) \/ \E s \in Valid : PsExpires(s)
    <2>1. UNCHANGED <<psPage, psCalls, psIssued>>
      BY <1>3 DEF PsOtherGet, PsOther, PsRestart, PsOtherFill, PsExpires
    <2>2. PsPageTyped'
      BY <2>1, SamePageTyped
    <2>3. CallsTyped'
      BY <2>1 DEF TabTyped, CallsTyped, CallTyped
    <2>4. PsStoreTyped'
      <3>1. CASE PsOtherGet
        <4>1. UNCHANGED <<psRows, psCache, psLocks, psRevived, psUndeleted, psOut, psCookie>> /\ psFills' = psFills \cup {psCookie} /\ psCookie \in psRows
          BY <3>1 DEF PsOtherGet
        <4> QED
          BY <1>1, <2>1, <4>1 DEF PsStoreTyped
      <3>2. CASE PsOther
        <4>1. /\ psLocks' \subseteq psLocks \cup {psCookie} /\ psRows' \subseteq psRows /\ psCache' \subseteq psCache
              /\ psCookie' \in {psCookie, 0} /\ psCookie \in Valid /\ UNCHANGED <<psFills, psRevived>>
              /\ psUndeleted' \subseteq psUndeleted \cup {psCookie} /\ psOut' \subseteq psOut \cup {psCookie}
          BY <3>2 DEF PsOther, DeleteRow
        <4>2. psCookie \in 1 .. psIssued
          BY <1>1, <4>1 DEF PsStoreTyped, Valid
        <4> QED
          BY <1>1, <2>1, <4>1, <4>2 DEF PsStoreTyped
      <3>3. CASE PsRestart
        BY <1>1, <2>1, <3>3 DEF PsRestart, PsStoreTyped
      <3>4. ASSUME NEW s \in psFills, PsOtherFill(s) PROVE PsStoreTyped'
        BY <1>1, <2>1, <3>4 DEF PsOtherFill, CacheFill, PsStoreTyped
      <3>5. ASSUME NEW s \in Valid, PsExpires(s) PROVE PsStoreTyped'
        BY <1>1, <2>1, <3>5 DEF PsExpires, PsStoreTyped
      <3> QED
        BY <1>3, <3>1, <3>2, <3>3, <3>4, <3>5
    <2> QED
      BY <2>2, <2>3, <2>4
  <1> QED
    BY <1>2, <1>3

LEMMA TabTypedInit == PsInit => TabTyped
  <1> SUFFICES ASSUME PsInit PROVE TabTyped
    OBVIOUS
  <1>1. LogoutInv
    BY LogoutInit
  <1>2. PsStoreTyped
    BY PsSessionsAssumption DEF PsInit, PsStoreTyped, PsSessions
  <1>3. PsPageTyped
    BY DEF PsInit, PsPageTyped, NoTicker
  <1>4. PICK d \in PsRequest : psCalls = <<d>> /\ d.sid = psCookie /\ d.at = "sent"
    BY FirstCall
  <1>5. CallTyped(d, psIssued)
    BY <1>2, <1>4 DEF CallTyped, PsStoreTyped
  <1>6. CallsTyped
    BY <1>4, <1>5 DEF CallsTyped
  <1> QED
    BY <1>1, <1>2, <1>3, <1>6 DEF TabTyped

LEMMA TabTypedNext == TabTyped /\ [PsNext]_psVars => TabTyped'
  <1> SUFFICES ASSUME TabTyped, [PsNext]_psVars PROVE TabTyped'
    OBVIOUS
  <1>1. LogoutInv'
    BY LogoutNext DEF TabTyped
  <1>2. CASE SignIn \/ logout \/ lock \/ UnlockSubmit \/ PsActivity \/ PsTimePasses \/ fireLock
    BY <1>1, <1>2, GesturesTyped DEF TabTyped
  <1>3. ASSUME NEW i \in DOMAIN psCalls,
               \/ PsLookup(i) \/ PsFill(i) \/ PsAct(i) \/ PsLogout(i) \/ PsLogin(i)
               \/ PsAnswerArrives(i) \/ PsIdleLockFails(i) \/ PsLost(i)
        PROVE  TabTyped'
    BY <1>1, <1>3, ServiceTyped, AnswersTyped DEF TabTyped
  <1>4. CASE \/ PsReload \/ PsOtherGet \/ PsOther \/ PsRestart
             \/ \E s \in psFills : PsOtherFill(s)
             \/ \E s \in Valid : PsExpires(s)
    BY <1>1, <1>4, AroundTyped DEF TabTyped
  <1>5. CASE UNCHANGED psVars
    <2>1. UNCHANGED <<psStore, psPage, psCookie, psCalls, psIssued>>
      BY <1>5 DEF psVars, psStore, psPage
    <2>2. PsStoreTyped' /\ PsPageTyped'
      BY <2>1, SameStoreTyped, SamePageTyped DEF TabTyped, PsStoreTyped
    <2>3. CallsTyped'
      BY <2>1 DEF TabTyped, CallsTyped, CallTyped
    <2> QED
      BY <1>1, <2>2, <2>3 DEF TabTyped
  <1> QED
    BY <1>2, <1>3, <1>4, <1>5 DEF PsNext

\* The session's store and the tab keep their types, and the ticker of the idle
\* lock runs only while the Shell is on show.
THEOREM SessionPageTyped == PsSpec => []PsTypeOK
  <1>1. TabTyped => PsTypeOK
    BY DEF TabTyped, PsStoreTyped, PsPageTyped, PsTypeOK
  <1> QED
    BY <1>1, TabTypedInit, TabTypedNext, PTL DEF PsSpec
-----------------------------------------------------------------------------
(* A session that was logged out.                                          *)

\* The row is deleted, or a DELETE of it failed.
RowGone(s) == s \in psRows => s \in psUndeleted

\* From the DELETE of a logout on, and for ever.
OutInv ==
    /\ \A s \in psOut : RowGone(s)
    /\ \A i \in DOMAIN psCalls : psCalls[i].at = "dropped" => RowGone(psCalls[i].sid)

\* What has to be shown of a step: no row comes back, and a logout is past its DELETE
\* only after it.
LEMMA OutAfter ==
  ASSUME TabTyped, OutInv, \A s \in 1 .. psIssued : RowGone(s) => RowGone(s)',
         \A s \in psOut' \ psOut : RowGone(s)',
         \A k \in DOMAIN psCalls' : psCalls'[k].at = "dropped" =>
            RowGone(psCalls[k].sid)' \/ \E j \in DOMAIN psCalls : psCalls'[k] = psCalls[j]
  PROVE  OutInv'
  <1>1. ASSUME NEW s \in psOut PROVE RowGone(s)'
    BY DEF TabTyped, PsStoreTyped, OutInv
  <1>2. ASSUME NEW k \in DOMAIN psCalls', psCalls'[k].at = "dropped"
        PROVE  RowGone(psCalls[k].sid)'
    <2>1. CASE \E j \in DOMAIN psCalls : psCalls'[k] = psCalls[j]
      <3>1. PICK j \in DOMAIN psCalls : psCalls'[k] = psCalls[j]
        BY <2>1
      <3>2. RowGone(psCalls[j].sid) /\ psCalls[j].sid \in 1 .. psIssued
        BY <1>2, <3>1, CallFacts DEF OutInv
      <3> QED
        BY <3>1, <3>2
    <2> QED
      BY <1>2, <2>1
  <1> QED
    BY <1>1, <1>2 DEF OutInv

\* A step of the page, and of a request that is not a logout.
LEMMA OutKept ==
  ASSUME TabTyped, OutInv, UNCHANGED <<psUndeleted, psOut>>,
         psRows' \cap 1 .. psIssued \subseteq psRows,
         \A k \in DOMAIN psCalls' : \/ psCalls'[k].at # "dropped"
                                    \/ \E j \in DOMAIN psCalls : psCalls'[k] = psCalls[j]
  PROVE  OutInv'
  <1>1. \A s \in 1 .. psIssued : RowGone(s) => RowGone(s)'
    BY DEF RowGone
  <1> QED
    BY <1>1, OutAfter

\* A request that is sent has not deleted anything.
LEMMA SentKeepsOut ==
  ASSUME TabTyped, OutInv, UNCHANGED psStore,
         NEW c \in PsRequest, psCalls' = Send(psCalls, c), c.at = "sent"
  PROVE  OutInv'
  <1>1. /\ DOMAIN psCalls' = DOMAIN psCalls \cup {Len(psCalls) + 1}
        /\ psCalls'[Len(psCalls) + 1] = [c EXCEPT !.ans = Waiting]
        /\ \A k \in DOMAIN psCalls : psCalls'[k] = psCalls[k]
    BY SentTo DEF TabTyped
  <1>2. psCalls'[Len(psCalls) + 1].at = "sent"
    BY <1>1 DEF PsRequest
  <1>3. ASSUME NEW k \in DOMAIN psCalls'
        PROVE  psCalls'[k].at # "dropped" \/ \E j \in DOMAIN psCalls : psCalls'[k] = psCalls[j]
    BY <1>1, <1>2
  <1> QED
    BY <1>3, OutKept DEF psStore

LEMMA GesturesKeepOut ==
  ASSUME TabTyped, OutInv,
         SignIn \/ logout \/ lock \/ UnlockSubmit \/ PsActivity \/ PsTimePasses \/ fireLock
  PROVE  OutInv'
  <1>1. UNCHANGED psStore
    BY DEF SignIn, logout, lock, UnlockSubmit, PsClick, PsActivity, PsTimePasses, fireLock
  <1>2. CASE PsActivity \/ PsTimePasses
    BY <1>1, <1>2, OutKept DEF PsActivity, PsTimePasses, psStore
  <1>3. CASE SignIn \/ logout \/ lock \/ UnlockSubmit \/ fireLock
    <2>1. PICK op \in {"lock", "idle", "login", "unlock", "logout"}, m \in Nat : PsSendFrom(m, op)
      BY <1>3, InvNow DEF SignIn, logout, lock, UnlockSubmit, PsClick, fireLock, PsSend, TabTyped
    <2>2. PICK c \in PsRequest : c = [PsCall(op) EXCEPT !.mount = m]
      BY DEF PsCall, PsRequest, TabTyped, LogoutInv, PsCallsOK
    <2>3. c.at = "sent" /\ psCalls' = Send(psCalls, c)
      BY <2>1, <2>2 DEF PsCall, PsSendFrom
    <2> QED
      BY <1>1, <2>3, SentKeepsOut
  <1> QED
    BY <1>2, <1>3

\* A request that gets on, but for the stage between the deletions.
LEMMA StageKeepsOut ==
  ASSUME TabTyped, OutInv, NEW i \in DOMAIN psCalls, UNCHANGED <<psUndeleted, psOut>>,
         psRows' \cap 1 .. psIssued \subseteq psRows, NEW d, d.at # "dropped",
         DOMAIN psCalls' = DOMAIN psCalls, psCalls'[i] = d,
         \A j \in DOMAIN psCalls \ {i} : psCalls'[j] = psCalls[j]
  PROVE  OutInv'
  <1>1. ASSUME NEW k \in DOMAIN psCalls'
        PROVE  psCalls'[k].at # "dropped" \/ \E j \in DOMAIN psCalls : psCalls'[k] = psCalls[j]
    BY Zenon
  <1> QED
    BY <1>1, OutKept

LEMMA ServiceKeepsOut ==
  ASSUME TabTyped, OutInv, NEW i \in DOMAIN psCalls,
         PsLookup(i) \/ PsFill(i) \/ PsAct(i) \/ PsLogin(i) \/ PsLost(i)
  PROVE  OutInv'
  <1> DEFINE Staged == \E d \in PsRequest :
                         /\ DOMAIN psCalls' = DOMAIN psCalls /\ psCalls'[i] = d
                         /\ \A j \in DOMAIN psCalls \ {i} : psCalls'[j] = psCalls[j]
                         /\ d.at # "dropped"
  <1>1. UNCHANGED <<psUndeleted, psOut>> /\ psIssued \in Nat
    BY CallFacts DEF PsLookup, PsFill, PsAct, PsLogin, PsLost, psStore
  <1>2. psRows' \cap 1 .. psIssued \subseteq psRows
    BY <1>1 DEF PsLookup, PsFill, PsAct, PsLogin, PsLost, psStore
  <1>3. NoSession(psCalls[i]) \in {Failed, Value("out")}
    BY DEF NoSession
  <1>4. \/ \E at \in {"found", "in"} : psCalls' = At(i, at)
        \/ \E ans \in {Failed, Value("out"), Value("locked"), Value("open")} : psCalls' = Answered(i, ans)
        \/ psCalls' = [Answered(i, Value("open")) EXCEPT ![i].sid = psIssued + 1]
    BY <1>3 DEF PsLookup, PsFill, PsAct, PsLogin, PsLost
  <1>5. Staged
    <2>1. ASSUME NEW at \in {"found", "in"}, psCalls' = At(i, at)
          PROVE  Staged
      <3>1. at # "dropped"
        OBVIOUS
      <3> QED
        BY <2>1, <3>1, StagedAt DEF TabTyped
    <2>2. ASSUME NEW ans \in {Failed, Value("out"), Value("locked"), Value("open")}, psCalls' = Answered(i, ans)
          PROVE  Staged
      BY <2>2, AnsweredAt DEF TabTyped
    <2>3. CASE psCalls' = [Answered(i, Value("open")) EXCEPT ![i].sid = psIssued + 1]
      <3>1. PICK s \in Nat : s = psIssued + 1
        BY <1>1
      <3> QED
        BY <2>3, <3>1, MadeAt DEF TabTyped
    <2> QED
      BY <1>4, <2>1, <2>2, <2>3
  <1> QED
    BY <1>1, <1>2, <1>5, StageKeepsOut

\* Logout: the row is deleted or the DELETE failed, and only then it is answered.
LEMMA LogoutKeepsOut ==
  ASSUME TabTyped, OutInv, NEW i \in DOMAIN psCalls, PsLogout(i)
  PROVE  OutInv'
  <1>1. PICK s : s = psCalls[i].sid
    OBVIOUS
  <1>2. CASE psCalls[i].at = "in"
    <2>1. DeleteRow(s) /\ psCalls' = At(i, "dropped") /\ psOut' = psOut
      BY <1>1, <1>2 DEF PsLogout, Delete
    <2>2. RowGone(s)' /\ \A t : RowGone(t) => RowGone(t)'
      BY <2>1 DEF DeleteRow, RowGone
    <2>3. PICK d \in PsRequest :
           /\ DOMAIN psCalls' = DOMAIN psCalls /\ psCalls'[i] = d
           /\ \A j \in DOMAIN psCalls \ {i} : psCalls'[j] = psCalls[j]
           /\ d.op = psCalls[i].op /\ d.sid = psCalls[i].sid /\ d.at = "dropped" /\ d.ans = psCalls[i].ans
      BY <2>1, StagedAt DEF TabTyped
    <2>4. psCalls'[i].sid = s
      BY <1>1, <2>3
    <2>5. ASSUME NEW k \in DOMAIN psCalls'
          PROVE  RowGone(psCalls[k].sid)' \/ \E j \in DOMAIN psCalls : psCalls'[k] = psCalls[j]
      <3>1. CASE k = i
        BY <2>2, <2>4, <3>1
      <3>2. CASE k # i
        BY <2>3, <3>2, Zenon
      <3> QED
        BY <3>1, <3>2
    <2> QED
      BY <2>1, <2>2, <2>5, OutAfter
  <1>3. CASE psCalls[i].at = "dropped"
    <2>1. /\ UNCHANGED <<psRows, psUndeleted>> /\ psOut' = psOut \cup {s}
          /\ psCalls' = Answered(i, Value("out"))
      BY <1>1, <1>3 DEF PsLogout, Delete
    <2>2. RowGone(s) /\ \A t : RowGone(t)' <=> RowGone(t)
      BY <1>1, <1>3, <2>1 DEF OutInv, RowGone
    <2>3. PICK d \in PsRequest :
           /\ DOMAIN psCalls' = DOMAIN psCalls /\ psCalls'[i] = d
           /\ \A j \in DOMAIN psCalls \ {i} : psCalls'[j] = psCalls[j]
           /\ d.op = psCalls[i].op /\ d.sid = psCalls[i].sid /\ d.at = "done" /\ d.ans = Value("out")
      BY <2>1, AnsweredAt DEF TabTyped
    <2>4. psCalls'[i].at # "dropped"
      BY <2>3
    <2>5. ASSUME NEW k \in DOMAIN psCalls', psCalls'[k].at = "dropped"
          PROVE  \E j \in DOMAIN psCalls : psCalls'[k] = psCalls[j]
      BY <2>3, <2>4, <2>5, Zenon
    <2> QED
      BY <2>1, <2>2, <2>5, OutAfter
  <1> QED
    BY <1>2, <1>3 DEF PsLogout

LEMMA ArrivalKeepsOut ==
  ASSUME TabTyped, OutInv, NEW i \in DOMAIN psCalls, PsAnswerArrives(i) \/ PsIdleLockFails(i)
  PROVE  OutInv'
  <1>1. psCalls' = Forget(psCalls, i) /\ UNCHANGED psStore
    BY DEF PsAnswerArrives, PsIdleLockFails
  <1>2. \A k \in DOMAIN psCalls' : \E j \in DOMAIN psCalls : psCalls'[k] = psCalls[j]
    BY <1>1, ForgottenAt DEF TabTyped
  <1> QED
    BY <1>1, <1>2, OutKept DEF psStore

LEMMA AroundKeepsOut ==
  ASSUME TabTyped, OutInv,
         \/ PsReload \/ PsOtherGet \/ PsOther \/ PsRestart
         \/ \E s \in psFills : PsOtherFill(s)
         \/ \E s \in Valid : PsExpires(s)
  PROVE  OutInv'
  <1>1. CASE PsReload
    <2>1. PICK d \in PsRequest : psCalls' = <<d>> /\ d.at = "sent"
      BY <1>1, BootCall
    <2>2. \A k \in DOMAIN psCalls' : psCalls'[k].at # "dropped"
      BY <2>1
    <2> QED
      BY <1>1, <2>2, OutKept DEF PsReload, psStore
  <1>2. CASE PsOther
    <2>1. psCalls' = psCalls /\ \A t : RowGone(t) => RowGone(t)'
      BY <1>2 DEF PsOther, DeleteRow, RowGone
    <2>2. \A s \in psOut' \ psOut : RowGone(s)'
      BY <1>2 DEF PsOther, DeleteRow, RowGone
    <2> QED
      BY <2>1, <2>2, OutAfter
  <1>3. CASE PsOtherGet \/ PsRestart \/ (\E s \in psFills : PsOtherFill(s)) \/ \E s \in Valid : PsExpires(s)
    <2>1. UNCHANGED <<psUndeleted, psOut, psCalls>> /\ psRows' \subseteq psRows
      BY <1>3 DEF PsOtherGet, PsRestart, PsOtherFill, PsExpires
    <2> QED
      BY <2>1, OutKept
  <1> QED
    BY <1>1, <1>2, <1>3

LEMMA OutNext == TabTyped /\ OutInv /\ [PsNext]_psVars => OutInv'
  <1> SUFFICES ASSUME TabTyped, OutInv, [PsNext]_psVars PROVE OutInv'
    OBVIOUS
  <1>1. CASE UNCHANGED psVars
    BY <1>1, OutKept DEF psVars
  <1> QED
    BY <1>1, GesturesKeepOut, ServiceKeepsOut, LogoutKeepsOut, ArrivalKeepsOut, AroundKeepsOut DEF PsNext

LEMMA OutInit == PsInit => OutInv
  <1> SUFFICES ASSUME PsInit PROVE OutInv
    OBVIOUS
  <1>1. PICK d \in PsRequest : psCalls = <<d>> /\ d.at = "sent"
    BY FirstCall
  <1> QED
    BY <1>1 DEF PsInit, OutInv

LEMMA OutMeansOut == TabTyped /\ OutInv => LoggedOutIsOut
  BY DEF TabTyped, LogoutInv, CacheHasRows, LoggingOut, OutInv, RowGone, LoggedOutIsOut

\* Store.Delete against Store.Get: a session whose logout was answered has no row,
\* unless the DELETE failed, and the cache holds it no longer, but for a lookup that
\* read the row before the deletion; however many tabs, requests, restarts and
\* expiries there are.
THEOREM LogoutWorks == PsSpec => []LoggedOutIsOut
  <1> QED
    BY TabTypedInit, TabTypedNext, OutInit, OutNext, OutMeansOut, PTL DEF PsSpec
-----------------------------------------------------------------------------
(* The panel agrees with the service.                                      *)

\* The only request in flight.
LEMMA OnlyOne ==
  ASSUME TabTyped, Agreeing, NEW i \in DOMAIN psCalls
  PROVE  DOMAIN psCalls = {i} /\ Len(psCalls) = 1 /\ OnItsWay(psCalls[i])
  <1>1. psCalls \in Seq(PsRequest) /\ Len(psCalls) <= 1 /\ OnItsWay(psCalls[i])
    BY DEF TabTyped, LogoutInv, PsCallsOK, Agreeing, InFlight
  <1>2. Len(psCalls) \in Nat /\ DOMAIN psCalls = 1 .. Len(psCalls)
    BY <1>1, LenProperties
  <1> QED
    BY <1>1, <1>2

\* It reaches another stage, on the same page.
LEMMA Onward ==
  ASSUME TabTyped, Agreeing, TabTyped', UNCHANGED psPage, NEW i \in DOMAIN psCalls, NEW d,
         DOMAIN psCalls' = DOMAIN psCalls, psCalls'[i] = d, OnItsWay(d)'
  PROVE  Agreeing'
  <1>1. DOMAIN psCalls = {i} /\ Len(psCalls) = 1
    BY OnlyOne
  <1>2. psCalls' \in Seq(PsRequest) /\ psCalls \in Seq(PsRequest)
    BY DEF TabTyped, LogoutInv, PsCallsOK
  <1>3. Len(psCalls') = 1
    <2>1. DOMAIN psCalls' = 1 .. Len(psCalls') /\ Len(psCalls') \in Nat
      BY <1>2, LenProperties
    <2>2. DOMAIN psCalls = 1 .. 1
      BY <1>1, <1>2, LenProperties
    <2>3. 1 .. Len(psCalls') = 1 .. 1
      BY <2>1, <2>2
    <2>4. 1 \in 1 .. Len(psCalls')
      BY <2>3
    <2>5. Len(psCalls') \in 1 .. 1
      BY <2>1, <2>3, <2>4
    <2> QED
      BY <2>5
  <1>4. psCalls' # <<>>
    <2>1. Len(<<>>) = 0
      BY EmptySeq
    <2> QED
      BY <1>3, <2>1
  <1>5. psStray' = 0 /\ (psLocked' => psUser')
    BY DEF Agreeing, psPage
  <1>6. InFlight' = {d}
    BY <1>1 DEF InFlight
  <1>7. \A c \in InFlight' : OnItsWay(c)'
    BY <1>6
  <1> QED
    BY <1>3, <1>4, <1>5, <1>7 DEF Agreeing

\* What is on show, and what it is about, stays.
LEMMA ShownStays ==
  ASSUME UNCHANGED <<psPage, psCookie>>
  PROVE  /\ PsView' = PsView /\ psBoot' = psBoot
         /\ \A c : UserAfter(c)' = UserAfter(c) /\ LockedAfter(c)' = LockedAfter(c) /\ CookieAfter(c)' = CookieAfter(c)
  BY DEF psPage, PsView, PsViewOf, UserAfter, LockedAfter, CookieAfter

\* The store says of every session what it said.
LEMMA ServiceStays ==
  ASSUME Valid' = Valid, psLocks' = psLocks
  PROVE  \A s : ViewFor(s)' = ViewFor(s)
  BY DEF ViewFor

LEMMA LookupAgrees ==
  ASSUME TabTyped, Agreeing, TabTyped', NEW i \in DOMAIN psCalls, PsLookup(i)
  PROVE  Agreeing'
  <1>1. PICK c \in PsRequest : c = psCalls[i]
    BY CallFacts
  <1>2. OnItsWay(c) /\ c.at = "sent" /\ c.op # "login" /\ UNCHANGED <<psPage, psCookie, psRows, psCache, psLocks>>
    BY <1>1, OnlyOne DEF PsLookup, psStore
  <1>3. /\ PsView' = PsView /\ psBoot' = psBoot
        /\ \A e : UserAfter(e)' = UserAfter(e) /\ LockedAfter(e)' = LockedAfter(e) /\ CookieAfter(e)' = CookieAfter(e)
    BY <1>2, ShownStays
  <1>4. Valid' = Valid /\ \A s : ViewFor(s)' = ViewFor(s)
    BY <1>2, ServiceStays DEF Valid
  <1>5. /\ c.sid = psCookie
        /\ c.op = "boot" <=> psBoot = "loading"
        /\ c.op # "boot" => PsView = ViewOfOp(c.op) /\ PsView = ViewFor(psCookie)
    BY <1>2 DEF OnItsWay
  <1>6. CASE c.sid \in Valid
    <2>1. PICK at \in {"found", "in"} : psCalls' = At(i, at)
      BY <1>1, <1>6 DEF PsLookup, Valid
    <2>2. PICK d \in PsRequest :
             /\ DOMAIN psCalls' = DOMAIN psCalls /\ psCalls'[i] = d
             /\ \A j \in DOMAIN psCalls \ {i} : psCalls'[j] = psCalls[j]
             /\ d.op = psCalls[i].op /\ d.sid = psCalls[i].sid /\ d.at = at /\ d.ans = psCalls[i].ans
      BY <2>1, StagedAt DEF TabTyped
    <2>3. OnItsWay(d)'
      BY <1>1, <1>2, <1>3, <1>4, <1>5, <1>6, <2>1, <2>2 DEF OnItsWay
    <2> QED
      BY <1>2, <2>2, <2>3, Onward
  <1>7. CASE c.sid \notin Valid
    <2>1. psCalls' = Answered(i, NoSession(c))
      BY <1>1, <1>7 DEF PsLookup, Valid
    <2>2. c.op = "boot"
      <3>1. c.op # "boot" => ViewOfOp(c.op) = "login"
        BY <1>5, <1>7 DEF ViewFor
      <3> QED
        BY <1>2, <3>1 DEF ViewOfOp
    <2>3. NoSession(c) = Value("out")
      BY <2>2 DEF NoSession
    <2>4. PICK d \in PsRequest :
             /\ DOMAIN psCalls' = DOMAIN psCalls /\ psCalls'[i] = d
             /\ \A j \in DOMAIN psCalls \ {i} : psCalls'[j] = psCalls[j]
             /\ d.op = psCalls[i].op /\ d.sid = psCalls[i].sid /\ d.at = "done" /\ d.ans = Value("out")
      BY <2>1, <2>3, AnsweredAt DEF TabTyped
    <2>5. d.op = "boot" /\ d.ans = Value("out") /\ d.at = "done"
      BY <1>1, <2>2, <2>4
    <2>6. ~UserAfter(d) /\ ~LockedAfter(d) /\ CookieAfter(d) = psCookie
      BY <2>5 DEF UserAfter, LockedAfter, CookieAfter, Value, Failed
    <2>7. ViewFor(psCookie) = "login" /\ PsViewOf("ready", UserAfter(d), LockedAfter(d)) = "login"
      BY <1>5, <1>7, <2>6 DEF ViewFor, PsViewOf
    <2>8. OnItsWay(d)'
      BY <1>3, <1>4, <1>5, <2>2, <2>5, <2>6, <2>7 DEF OnItsWay
    <2> QED
      BY <1>2, <2>4, <2>8, Onward
  <1> QED
    BY <1>6, <1>7
LEMMA FillAgrees ==
  ASSUME TabTyped, Agreeing, TabTyped', NEW i \in DOMAIN psCalls, PsFill(i)
  PROVE  Agreeing'
  <1>1. PICK c \in PsRequest : c = psCalls[i]
    BY CallFacts
  <1>2. OnItsWay(c) /\ c.at = "found" /\ UNCHANGED <<psPage, psCookie, psRows, psLocks>> /\ psCalls' = At(i, "in")
    BY <1>1, OnlyOne DEF PsFill
  <1>3. /\ PsView' = PsView /\ psBoot' = psBoot
        /\ \A e : UserAfter(e)' = UserAfter(e) /\ LockedAfter(e)' = LockedAfter(e) /\ CookieAfter(e)' = CookieAfter(e)
    BY <1>2, ShownStays
  <1>4. c.sid \in Valid /\ psCache' = psCache \cup {c.sid}
    BY <1>1, <1>2 DEF OnItsWay, PsFill, CacheFill
  <1>5. Valid' = Valid
    BY <1>2, <1>4 DEF Valid
  <1>6. \A s : ViewFor(s)' = ViewFor(s)
    BY <1>2, <1>5, ServiceStays
  <1>7. PICK d \in PsRequest :
           /\ DOMAIN psCalls' = DOMAIN psCalls /\ psCalls'[i] = d
           /\ \A j \in DOMAIN psCalls \ {i} : psCalls'[j] = psCalls[j]
           /\ d.op = psCalls[i].op /\ d.sid = psCalls[i].sid /\ d.at = "in" /\ d.ans = psCalls[i].ans
    BY <1>2, StagedAt DEF TabTyped
  <1>8. OnItsWay(d)'
    BY <1>1, <1>2, <1>3, <1>5, <1>6, <1>7 DEF OnItsWay
  <1> QED
    BY <1>2, <1>7, <1>8, Onward

LEMMA ActAgrees ==
  ASSUME TabTyped, Agreeing, TabTyped', NEW i \in DOMAIN psCalls, PsAct(i)
  PROVE  Agreeing'
  <1>1. PICK c \in PsRequest : c = psCalls[i]
    BY CallFacts
  <1>2. /\ OnItsWay(c) /\ c.at = "in" /\ c.op # "logout"
        /\ UNCHANGED <<psPage, psCookie, psRows, psCache>>
    BY <1>1, OnlyOne DEF PsAct
  <1>3. /\ PsView' = PsView /\ psBoot' = psBoot
        /\ \A e : UserAfter(e)' = UserAfter(e) /\ LockedAfter(e)' = LockedAfter(e) /\ CookieAfter(e)' = CookieAfter(e)
    BY <1>2, ShownStays
  <1>4. /\ c.sid = psCookie /\ psCookie \in Valid /\ Valid' = Valid /\ c.op # "login"
        /\ c.op = "boot" <=> psBoot = "loading"
        /\ c.op # "boot" => PsView = ViewOfOp(c.op) /\ PsView = ViewFor(psCookie)
    BY <1>2 DEF OnItsWay, Valid
  <1>5. ViewFor(psCookie) = (IF psCookie \in psLocks THEN "lockscreen" ELSE "shell")
        /\ ViewFor(psCookie)' = (IF psCookie \in psLocks' THEN "lockscreen" ELSE "shell")
    BY <1>2, <1>4 DEF ViewFor
  <1>6. \E ans \in {Failed, Value("locked"), Value("open")} :
          /\ psCalls' = Answered(i, ans)
          /\ \/ c.op = "boot" /\ ans = Value(IF psCookie \in psLocks THEN "locked" ELSE "open") /\ psLocks' = psLocks
             \/ c.op \in {"lock", "idle"} /\ ans = Value("locked") /\ psLocks' = psLocks \cup {psCookie}
             \/ c.op = "unlock" /\ ans = Value("open") /\ psLocks' = psLocks \ {psCookie}
             \/ c.op = "unlock" /\ ans = Failed /\ psLocks' = psLocks
    BY <1>1, <1>4 DEF PsAct
  <1>7. PICK ans \in {Failed, Value("locked"), Value("open")} :
          /\ psCalls' = Answered(i, ans)
          /\ \/ c.op = "boot" /\ ans = Value(IF psCookie \in psLocks THEN "locked" ELSE "open") /\ psLocks' = psLocks
             \/ c.op \in {"lock", "idle"} /\ ans = Value("locked") /\ psLocks' = psLocks \cup {psCookie}
             \/ c.op = "unlock" /\ ans = Value("open") /\ psLocks' = psLocks \ {psCookie}
             \/ c.op = "unlock" /\ ans = Failed /\ psLocks' = psLocks
    BY <1>6
  <1>8. PICK d \in PsRequest :
           /\ DOMAIN psCalls' = DOMAIN psCalls /\ psCalls'[i] = d
           /\ \A j \in DOMAIN psCalls \ {i} : psCalls'[j] = psCalls[j]
           /\ d.op = psCalls[i].op /\ d.sid = psCalls[i].sid /\ d.at = "done" /\ d.ans = ans
    BY <1>7, AnsweredAt DEF TabTyped
  <1>9. d.op = c.op /\ d.at = "done" /\ d.ans = ans
    BY <1>1, <1>8
  <1>10. CookieAfter(d) = psCookie
    BY <1>4, <1>7, <1>9 DEF CookieAfter
  <1>11. psLocked \in BOOLEAN /\ psUser \in BOOLEAN /\ (psLocked => psUser)
    BY DEF TabTyped, PsPageTyped, Agreeing
  <1>12. CASE c.op = "boot"
    <2>1. /\ d.ans = Value(IF psCookie \in psLocks THEN "locked" ELSE "open") /\ psLocks' = psLocks /\ d.op = "boot"
      BY <1>7, <1>9, <1>12
    <2>2. UserAfter(d) /\ (LockedAfter(d) <=> psCookie \in psLocks)
      BY <2>1 DEF UserAfter, LockedAfter, Value, Failed
    <2>3. PsViewOf("ready", UserAfter(d), LockedAfter(d)) = ViewFor(psCookie)'
      BY <1>5, <2>1, <2>2 DEF PsViewOf
    <2>4. OnItsWay(d)'
      BY <1>2, <1>3, <1>4, <1>9, <1>10, <1>12, <2>1, <2>2, <2>3 DEF OnItsWay
    <2> QED
      BY <1>2, <1>8, <2>4, Onward
  <1>13. CASE c.op \in {"lock", "idle"}
    <2>1. d.ans = Value("locked") /\ psLocks' = psLocks \cup {psCookie} /\ d.op \in {"lock", "idle"} /\ d.ans # Failed
      BY <1>7, <1>9, <1>13 DEF Value, Failed
    <2>2. UserAfter(d) = psUser /\ LockedAfter(d)
      BY <2>1 DEF UserAfter, LockedAfter
    <2>3. psUser
      BY <1>2, <1>4, <1>13 DEF ViewOfOp, PsView, PsViewOf
    <2>4. PsViewOf("ready", UserAfter(d), LockedAfter(d)) = ViewFor(psCookie)'
      BY <1>5, <2>1, <2>2 DEF PsViewOf
    <2>5. OnItsWay(d)'
      BY <1>2, <1>3, <1>4, <1>9, <1>10, <1>13, <2>1, <2>2, <2>3, <2>4 DEF OnItsWay
    <2> QED
      BY <1>2, <1>8, <2>5, Onward
  <1>14. CASE c.op = "unlock"
    <2>1. PsView = "lockscreen" /\ psLocked /\ psUser /\ psCookie \in psLocks /\ psBoot # "loading"
      BY <1>4, <1>5, <1>11, <1>14 DEF ViewOfOp, PsView, PsViewOf
    <2>2. CASE ans = Value("open") /\ psLocks' = psLocks \ {psCookie}
      <3>1. UserAfter(d) = psUser /\ ~LockedAfter(d)
        BY <1>9, <1>14, <2>2 DEF UserAfter, LockedAfter, Value, Failed
      <3>2. PsViewOf("ready", UserAfter(d), LockedAfter(d)) = ViewFor(psCookie)'
        BY <1>5, <2>1, <2>2, <3>1 DEF PsViewOf
      <3>3. OnItsWay(d)'
        BY <1>2, <1>3, <1>4, <1>9, <1>10, <1>14, <2>1, <3>1, <3>2 DEF OnItsWay
      <3> QED
        BY <1>2, <1>8, <3>3, Onward
    <2>3. CASE ans = Failed /\ psLocks' = psLocks
      <3>1. UserAfter(d) = psUser /\ LockedAfter(d) = psLocked
        BY <1>9, <1>14, <2>3 DEF UserAfter, LockedAfter
      <3>2. PsViewOf("ready", UserAfter(d), LockedAfter(d)) = ViewFor(psCookie)'
        BY <1>5, <2>1, <2>3, <3>1 DEF PsViewOf
      <3>3. OnItsWay(d)'
        BY <1>2, <1>3, <1>4, <1>9, <1>10, <1>14, <2>1, <3>1, <3>2 DEF OnItsWay
      <3> QED
        BY <1>2, <1>8, <3>3, Onward
    <2> QED
      BY <1>7, <1>14, <2>2, <2>3
  <1> QED
    BY <1>7, <1>12, <1>13, <1>14

LEMMA LogoutAgrees ==
  ASSUME TabTyped, Agreeing, TabTyped', NEW i \in DOMAIN psCalls, PsLogout(i)
  PROVE  Agreeing'
  <1>1. PICK c \in PsRequest : c = psCalls[i]
    BY CallFacts
  <1>2. /\ OnItsWay(c) /\ c.at \in {"in", "dropped"} /\ c.op = "logout" /\ c.sid = psCookie
        /\ UNCHANGED <<psPage, psCookie, psLocks>>
    BY <1>1, OnlyOne DEF PsLogout, OnItsWay
  <1>3. /\ PsView' = PsView /\ psBoot' = psBoot
        /\ \A e : UserAfter(e)' = UserAfter(e) /\ LockedAfter(e)' = LockedAfter(e) /\ CookieAfter(e)' = CookieAfter(e)
    BY <1>2, ShownStays
  <1>4. PsView = "shell" /\ psBoot # "loading"
    BY <1>2 DEF OnItsWay, ViewOfOp
  <1>5. CASE c.at = "in"
    <2>1. psCalls' = At(i, "dropped")
      BY <1>1, <1>2, <1>5 DEF PsLogout, Delete
    <2>2. PICK d \in PsRequest :
             /\ DOMAIN psCalls' = DOMAIN psCalls /\ psCalls'[i] = d
             /\ \A j \in DOMAIN psCalls \ {i} : psCalls'[j] = psCalls[j]
             /\ d.op = psCalls[i].op /\ d.sid = psCalls[i].sid /\ d.at = "dropped" /\ d.ans = psCalls[i].ans
      BY <2>1, StagedAt DEF TabTyped
    <2>3. OnItsWay(d)'
      BY <1>1, <1>2, <1>3, <1>4, <2>1, <2>2 DEF OnItsWay, ViewOfOp
    <2> QED
      BY <1>2, <2>2, <2>3, Onward
  <1>6. CASE c.at = "dropped"
    <2>1. psCalls' = Answered(i, Value("out")) /\ psRows' = psRows /\ psCache' = psCache \ {psCookie}
      BY <1>1, <1>2, <1>6 DEF PsLogout, Delete, OnItsWay
    <2>2. PICK d \in PsRequest :
             /\ DOMAIN psCalls' = DOMAIN psCalls /\ psCalls'[i] = d
             /\ \A j \in DOMAIN psCalls \ {i} : psCalls'[j] = psCalls[j]
             /\ d.op = psCalls[i].op /\ d.sid = psCalls[i].sid /\ d.at = "done" /\ d.ans = Value("out")
      BY <2>1, AnsweredAt DEF TabTyped
    <2>3. d.op = "logout" /\ d.at = "done" /\ d.ans = Value("out") /\ d.ans # Failed
      BY <1>1, <1>2, <2>2 DEF Value, Failed
    <2>4. ~UserAfter(d) /\ LockedAfter(d) = psLocked /\ CookieAfter(d) = 0
      BY <2>3 DEF UserAfter, LockedAfter, CookieAfter
    <2>5. psLocked = FALSE
      BY <1>4 DEF PsView, PsViewOf, TabTyped, PsPageTyped
    <2>6. 0 \notin Valid'
      <3>1. psRows' \subseteq 1 .. psIssued' /\ psCache' \subseteq 1 .. psIssued'
        BY DEF TabTyped, PsStoreTyped
      <3> QED
        BY <3>1 DEF Valid
    <2>7. PsViewOf("ready", UserAfter(d), LockedAfter(d)) = ViewFor(0)'
      BY <2>4, <2>5, <2>6 DEF PsViewOf, ViewFor
    <2>8. OnItsWay(d)'
      BY <1>3, <1>4, <2>3, <2>4, <2>5, <2>7 DEF OnItsWay
    <2> QED
      BY <1>2, <2>2, <2>8, Onward
  <1> QED
    BY <1>2, <1>5, <1>6

LEMMA LoginAgrees ==
  ASSUME TabTyped, Agreeing, TabTyped', NEW i \in DOMAIN psCalls, PsLogin(i)
  PROVE  Agreeing'
  <1>1. PICK c \in PsRequest : c = psCalls[i]
    BY CallFacts
  <1>2. /\ OnItsWay(c) /\ c.at = "sent" /\ c.op = "login"
        /\ UNCHANGED <<psPage, psCookie, psLocks>>
    BY <1>1, OnlyOne DEF PsLogin, OnItsWay
  <1>3. /\ PsView' = PsView /\ psBoot' = psBoot
        /\ \A e : UserAfter(e)' = UserAfter(e) /\ LockedAfter(e)' = LockedAfter(e) /\ CookieAfter(e)' = CookieAfter(e)
    BY <1>2, ShownStays
  <1>4. PsView = "login" /\ psBoot # "loading" /\ ViewFor(psCookie) = "login"
    BY <1>2 DEF OnItsWay, ViewOfOp
  <1>5. psLocked = FALSE /\ psUser = FALSE
    BY <1>4 DEF PsView, PsViewOf, TabTyped, PsPageTyped
  <1>6. /\ psIssued \in Nat /\ psCookie \in 0 .. psIssued
        /\ psLocks \subseteq 1 .. psIssued
    BY CallFacts DEF TabTyped, PsStoreTyped
  <1>7. CASE psCalls' = Answered(i, Failed) /\ UNCHANGED <<psIssued, psRows, psCache>>
    <2>1. PICK d \in PsRequest :
             /\ DOMAIN psCalls' = DOMAIN psCalls /\ psCalls'[i] = d
             /\ \A j \in DOMAIN psCalls \ {i} : psCalls'[j] = psCalls[j]
             /\ d.op = psCalls[i].op /\ d.sid = psCalls[i].sid /\ d.at = "done" /\ d.ans = Failed
      BY <1>7, AnsweredAt DEF TabTyped
    <2>2. d.op = "login" /\ d.at = "done" /\ d.ans = Failed
      BY <1>1, <1>2, <2>1
    <2>3. UserAfter(d) = FALSE /\ LockedAfter(d) = FALSE /\ CookieAfter(d) = psCookie
      BY <1>5, <2>2 DEF UserAfter, LockedAfter, CookieAfter
    <2>4. ViewFor(psCookie)' = ViewFor(psCookie)
      BY <1>2, <1>7, ServiceStays DEF Valid
    <2>5. PsViewOf("ready", UserAfter(d), LockedAfter(d)) = "login"
      BY <2>3 DEF PsViewOf
    <2>6. OnItsWay(d)'
      BY <1>2, <1>3, <1>4, <2>2, <2>3, <2>4, <2>5 DEF OnItsWay
    <2> QED
      BY <1>2, <2>1, <2>6, Onward
  <1>8. CASE /\ psIssued' = psIssued + 1
             /\ psRows' = psRows \cup {psIssued'}
             /\ psCalls' = [Answered(i, Value("open")) EXCEPT ![i].sid = psIssued']
    <2>1. PICK s \in Nat : s = psIssued'
      BY <1>6, <1>8
    <2>2. PICK d \in PsRequest :
           /\ DOMAIN psCalls' = DOMAIN psCalls /\ psCalls'[i] = d
           /\ \A j \in DOMAIN psCalls \ {i} : psCalls'[j] = psCalls[j]
           /\ d.op = psCalls[i].op /\ d.sid = s /\ d.at = "done" /\ d.ans = Value("open")
      <3>1. psCalls' = [Answered(i, Value("open")) EXCEPT ![i].sid = s]
        BY <1>8, <2>1
      <3> QED
        BY <3>1, MadeAt DEF TabTyped
    <2>3. d.op = "login" /\ d.at = "done" /\ d.sid = s /\ d.ans = Value("open") /\ d.ans # Failed
      BY <1>1, <1>2, <2>2 DEF Value, Failed
    <2>4. UserAfter(d) = TRUE /\ LockedAfter(d) = FALSE /\ CookieAfter(d) = s
      BY <2>3 DEF UserAfter, LockedAfter, CookieAfter
    <2>5. s \in Valid' /\ s \notin psLocks'
      BY <1>2, <1>6, <1>8, <2>1 DEF Valid
    <2>6. ViewFor(s)' = "shell" /\ PsViewOf("ready", UserAfter(d), LockedAfter(d)) = "shell"
      BY <2>4, <2>5 DEF ViewFor, PsViewOf
    <2>7. OnItsWay(d)'
      BY <1>3, <1>4, <2>3, <2>4, <2>6 DEF OnItsWay
    <2> QED
      BY <1>2, <2>2, <2>7, Onward
  <1> QED
    BY <1>7, <1>8 DEF PsLogin
\* Nothing that matters changes.
LEMMA SameAgrees ==
  ASSUME Agreeing, UNCHANGED <<psCookie, psCalls, psRows, psStray, psBoot, psUser, psLocked>>,
         Valid' = Valid, PsView' = PsView, InFlight' = InFlight, \A s : ViewFor(s)' = ViewFor(s)
  PROVE  Agreeing'
  <1>1. ASSUME NEW c \in InFlight PROVE OnItsWay(c)'
    <2>1. OnItsWay(c)
      BY DEF Agreeing
    <2>2. UserAfter(c)' = UserAfter(c) /\ LockedAfter(c)' = LockedAfter(c) /\ CookieAfter(c)' = CookieAfter(c)
      BY DEF UserAfter, LockedAfter, CookieAfter
    <2> QED
      BY <2>1, <2>2 DEF OnItsWay
  <1> QED
    BY <1>1 DEF Agreeing

\* The panel shows what an answer says.
LEMMA AnswerAgrees ==
  ASSUME TabTyped, Agreeing, TabTyped', NEW i \in DOMAIN psCalls, PsAnswerArrives(i)
  PROVE  Agreeing'
  <1>1. PICK c \in PsRequest : c = psCalls[i]
    BY CallFacts
  <1>2. OnItsWay(c) /\ Len(psCalls) = 1
    BY <1>1, OnlyOne
  <1>3. PICK m : PsShow("ready", m, UserAfter(c), LockedAfter(c))
    BY <1>1 DEF PsAnswerArrives
  <1>4. /\ c.at = "done" /\ psCookie' = CookieAfter(c) /\ psCalls' = Forget(psCalls, i)
        /\ UNCHANGED <<psStray, psRows, psCache, psLocks>>
    BY <1>1 DEF PsAnswerArrives, psStore
  <1>5. psCalls' = <<>>
    BY <1>2, <1>4, ForgottenAt DEF TabTyped
  <1>6. psBoot' = "ready" /\ psUser' = UserAfter(c) /\ psLocked' = LockedAfter(c)
    BY <1>3 DEF PsShow
  <1>7. PsView' = PsViewOf("ready", UserAfter(c), LockedAfter(c))
    BY <1>6 DEF PsView, PsViewOf
  <1>8. PsViewOf("ready", UserAfter(c), LockedAfter(c)) = ViewFor(CookieAfter(c)) /\ (LockedAfter(c) => UserAfter(c))
    BY <1>2, <1>4 DEF OnItsWay
  <1>9. Valid' = Valid /\ psLocks' = psLocks
    BY <1>4 DEF Valid
  <1>10. PICK s : s = CookieAfter(c)
    OBVIOUS
  <1>11. ViewFor(s)' = ViewFor(s)
    BY <1>9, ServiceStays
  <1>12. PsView' = ViewFor(psCookie)'
    BY <1>4, <1>7, <1>8, <1>9, <1>10, <1>11 DEF ViewFor
  <1>13. InFlight' = {} /\ Len(psCalls') = 0
    BY <1>5, EmptySeq DEF InFlight
  <1>14. psStray' = 0
    BY <1>4 DEF Agreeing
  <1> QED
    BY <1>6, <1>8, <1>12, <1>13, <1>14 DEF Agreeing

\* The lock of an idle Shell does not fail.
LEMMA NoIdleLockFails ==
  ASSUME TabTyped, Agreeing, NEW i \in DOMAIN psCalls
  PROVE  ~PsIdleLockFails(i)
  BY OnlyOne DEF OnItsWay, PsIdleLockFails

\* A request is sent while no other is in flight.
LEMMA SendAgrees ==
  ASSUME TabTyped, Agreeing, NEW op \in {"lock", "idle", "login", "unlock", "logout"}, PsSend(op), ~psMixed',
         UNCHANGED <<psStore, psCookie, psBoot, psMeta, psUser, psLocked>>, psStray' = 0,
         PsView = ViewOfOp(op)
  PROVE  Agreeing'
  <1>1. psCalls = <<>> /\ psBoot = "ready" /\ PsView = ViewFor(psCookie) /\ (psLocked => psUser)
    BY DEF PsSend, PsSendFrom, Agreeing
  <1>2. PICK c \in PsRequest : c = [PsCall(op) EXCEPT !.mount = psMount]
    BY DEF PsCall, PsRequest, TabTyped, LogoutInv, PsCallsOK
  <1>3. PICK d \in PsRequest : d = [c EXCEPT !.ans = Waiting]
    BY DEF PsRequest
  <1>4. c.op = op /\ c.sid = psCookie /\ c.at = "sent"
    BY <1>2 DEF PsCall
  <1>5. d.op = op /\ d.sid = psCookie /\ d.at = "sent"
    BY <1>3, <1>4 DEF PsRequest
  <1>6. psCalls' = <<d>>
    BY <1>1, <1>2, <1>3 DEF PsSend, PsSendFrom, Send
  <1>7. InFlight' = {d} /\ Len(psCalls') = 1 /\ psCalls' # <<>>
    BY <1>6 DEF InFlight
  <1>8. UNCHANGED <<psRows, psCache, psLocks>>
    BY DEF psStore
  <1>9. PsView' = PsView /\ Valid' = Valid
    BY <1>8 DEF PsView, PsViewOf, Valid
  <1>10. ViewFor(psCookie)' = ViewFor(psCookie)
    BY <1>8, <1>9 DEF ViewFor
  <1>11. OnItsWay(d)'
    BY <1>1, <1>5, <1>9, <1>10 DEF OnItsWay
  <1> QED
    BY <1>1, <1>7, <1>11 DEF Agreeing

LEMMA GesturesAgree ==
  ASSUME TabTyped, AgreeInv, ~psMixed',
         SignIn \/ logout \/ lock \/ UnlockSubmit \/ PsActivity \/ PsTimePasses \/ fireLock
  PROVE  Agreeing'
  <1>1. UNCHANGED <<psStore, psCookie, psBoot, psMeta, psUser, psLocked>>
    BY DEF SignIn, logout, lock, UnlockSubmit, PsClick, PsActivity, PsTimePasses, fireLock
  <1>2. ~psMixed
    BY DEF SignIn, logout, lock, UnlockSubmit, PsClick, PsActivity, PsTimePasses, fireLock, PsSend, PsSendFrom
  <1>3. Agreeing
    BY <1>2 DEF AgreeInv
  <1>4. CASE SignIn \/ logout \/ lock \/ UnlockSubmit
    <2>1. PICK op \in {"lock", "login", "unlock", "logout"} :
            PsSend(op) /\ psStray' = psStray /\ PsView = ViewOfOp(op)
      BY <1>4 DEF SignIn, logout, lock, UnlockSubmit, PsClick, ViewOfOp
    <2>2. psStray' = 0
      BY <1>3, <2>1 DEF Agreeing
    <2> QED
      BY <1>1, <1>3, <2>1, <2>2, SendAgrees
  <1>5. CASE fireLock
    <2>1. psStray = 0
      BY <1>3 DEF Agreeing
    <2>2. psIdle.ticker /\ PsSend("idle") /\ psStray' = 0
      BY <1>5, <2>1 DEF fireLock
    <2>3. PsView = ViewOfOp("idle")
      BY <2>2, IdleFacts DEF ViewOfOp
    <2> QED
      BY <1>1, <1>3, <2>2, <2>3, SendAgrees
  <1>6. CASE PsActivity \/ PsTimePasses
    <2>1. UNCHANGED <<psStray, psCalls>>
      BY <1>6 DEF PsActivity, PsTimePasses
    <2>2. UNCHANGED <<psRows, psCache, psLocks>>
      BY <1>1 DEF psStore
    <2>3. Valid' = Valid /\ PsView' = PsView /\ InFlight' = InFlight
      BY <1>1, <2>1, <2>2 DEF Valid, PsView, PsViewOf, InFlight
    <2>4. \A s : ViewFor(s)' = ViewFor(s)
      BY <2>2, <2>3, ServiceStays
    <2> QED
      BY <1>1, <1>3, <2>1, <2>2, <2>3, <2>4, SameAgrees
  <1> QED
    BY <1>4, <1>5, <1>6

LEMMA AroundAgrees ==
  ASSUME TabTyped, AgreeInv, TabTyped', ~psMixed',
         \/ PsReload \/ PsOtherGet \/ PsOther \/ PsRestart
         \/ \E s \in psFills : PsOtherFill(s)
         \/ \E s \in Valid : PsExpires(s)
  PROVE  Agreeing'
  <1>1. CASE PsReload
    <2>1. PICK d \in PsRequest : psCalls' = <<d>> /\ d.sid = psCookie /\ d.at = "sent" /\ d.op = "boot"
      BY <1>1, BootCall
    <2>2. InFlight' = {d} /\ Len(psCalls') = 1 /\ psCalls' # <<>>
      BY <2>1 DEF InFlight
    <2>3. psBoot' = "loading" /\ psLocked' = FALSE /\ psStray' = 0 /\ psCookie' = psCookie
      BY <1>1 DEF PsReload
    <2>4. OnItsWay(d)'
      BY <2>1, <2>3 DEF OnItsWay
    <2> QED
      BY <2>2, <2>3, <2>4 DEF Agreeing
  <1>2. CASE PsOtherGet \/ PsRestart \/ \E s \in psFills : PsOtherFill(s)
    <2>1. ~psMixed /\ UNCHANGED <<psPage, psCookie, psCalls, psRows>>
      <3>1. CASE PsOtherGet
        BY <3>1 DEF PsOtherGet
      <3>2. CASE PsRestart
        BY <3>2 DEF PsRestart
      <3>3. CASE \E s \in psFills : PsOtherFill(s)
        BY <3>3 DEF PsOtherFill
      <3> QED
        BY <1>2, <3>1, <3>2, <3>3
    <2>2. Agreeing
      BY <2>1 DEF AgreeInv
    <2>3. Valid' = Valid /\ psLocks' = psLocks
      <3>1. CASE PsOtherGet
        BY <3>1 DEF PsOtherGet, Valid
      <3>2. CASE PsRestart
        <4>1. psLocks = {} /\ psRevived = {} /\ psCache' = {} /\ psLocks' = {} /\ psRows' = psRows /\ PsQuiet
          BY <3>2 DEF PsRestart
        <4>2. psCache \subseteq psRows
          BY <4>1, QuietMeansNoLogout, InvNow DEF TabTyped
        <4> QED
          BY <4>1, <4>2 DEF Valid
      <3>3. ASSUME NEW s \in psFills, PsOtherFill(s) PROVE Valid' = Valid /\ psLocks' = psLocks
        BY <3>3 DEF PsOtherFill, CacheFill, Valid
      <3> QED
        BY <1>2, <3>1, <3>2, <3>3
    <2>4. \A s : ViewFor(s)' = ViewFor(s)
      BY <2>3, ServiceStays
    <2>5. PsView' = PsView /\ InFlight' = InFlight /\ UNCHANGED <<psStray, psBoot, psUser, psLocked>>
      BY <2>1 DEF psPage, PsView, PsViewOf, InFlight
    <2> QED
      BY <2>1, <2>2, <2>3, <2>4, <2>5, SameAgrees
  <1>3. CASE PsOther \/ \E s \in Valid : PsExpires(s)
    BY <1>3 DEF PsOther, PsExpires
  <1> QED
    BY <1>1, <1>2, <1>3

LEMMA AgreeNext == TabTyped /\ TabTyped' /\ AgreeInv /\ [PsNext]_psVars => AgreeInv'
  <1> SUFFICES ASSUME TabTyped, TabTyped', AgreeInv, [PsNext]_psVars, ~psMixed' PROVE Agreeing'
    BY DEF AgreeInv
  <1>1. CASE SignIn \/ logout \/ lock \/ UnlockSubmit \/ PsActivity \/ PsTimePasses \/ fireLock
    BY <1>1, GesturesAgree
  <1>2. ASSUME NEW i \in DOMAIN psCalls,
               \/ PsLookup(i) \/ PsFill(i) \/ PsAct(i) \/ PsLogout(i) \/ PsLogin(i)
               \/ PsAnswerArrives(i) \/ PsIdleLockFails(i) \/ PsLost(i)
        PROVE  Agreeing'
    <2>1. ~PsLost(i)
      BY DEF PsLost
    <2>2. ~psMixed
      BY <1>2, <2>1 DEF PsLookup, PsFill, PsAct, PsLogout, PsLogin, PsAnswerArrives, PsIdleLockFails
    <2>3. Agreeing
      BY <2>2 DEF AgreeInv
    <2> QED
      BY <1>2, <2>1, <2>3, LookupAgrees, FillAgrees, ActAgrees, LogoutAgrees, LoginAgrees, AnswerAgrees, NoIdleLockFails
  <1>3. CASE \/ PsReload \/ PsOtherGet \/ PsOther \/ PsRestart
             \/ \E s \in psFills : PsOtherFill(s)
             \/ \E s \in Valid : PsExpires(s)
    BY <1>3, AroundAgrees
  <1>4. CASE UNCHANGED psVars
    <2>1. UNCHANGED <<psRows, psCache, psLocks, psPage, psCookie, psCalls, psMixed>>
      BY <1>4 DEF psVars, psPage
    <2>2. Agreeing
      BY <2>1 DEF AgreeInv
    <2>3. Valid' = Valid /\ PsView' = PsView /\ InFlight' = InFlight /\ UNCHANGED <<psStray, psBoot, psUser, psLocked>>
      BY <2>1 DEF Valid, PsView, PsViewOf, InFlight, psPage
    <2>4. \A s : ViewFor(s)' = ViewFor(s)
      BY <2>1, <2>3, ServiceStays
    <2> QED
      BY <2>1, <2>2, <2>3, <2>4, SameAgrees
  <1> QED
    BY <1>1, <1>2, <1>3, <1>4 DEF PsNext

LEMMA AgreeInit == PsInit => AgreeInv
  <1> SUFFICES ASSUME PsInit PROVE Agreeing
    BY DEF AgreeInv
  <1>1. PICK d \in PsRequest : psCalls = <<d>> /\ d.sid = psCookie /\ d.at = "sent" /\ d.op = "boot"
    BY FirstCall
  <1>2. InFlight = {d} /\ Len(psCalls) = 1 /\ psCalls # <<>>
    BY <1>1 DEF InFlight
  <1>3. psBoot = "loading" /\ psLocked = FALSE /\ psStray = 0
    BY DEF PsInit
  <1>4. OnItsWay(d)
    BY <1>1, <1>3 DEF OnItsWay
  <1> QED
    BY <1>2, <1>3, <1>4 DEF Agreeing

LEMMA ShownIsService == TabTyped /\ AgreeInv => PageAgrees
  <1> SUFFICES ASSUME TabTyped, Agreeing, psBoot = "ready", psCalls = <<>>
               PROVE  CASE PsView = "login" -> psCookie \notin Valid
                        [] PsView = "lockscreen" -> psCookie \in Valid \cap psLocks
                        [] PsView = "shell" -> psCookie \in Valid \ psLocks
    BY DEF AgreeInv, PageAgrees
  <1>1. PsView = ViewFor(psCookie)
    BY DEF Agreeing
  <1> QED
    BY <1>1 DEF ViewFor

\* Once its requests are answered the panel shows the lockscreen for a locked
\* session, the Shell for an open one and the login screen without a session,
\* unless requests overlapped, an answer was lost or somebody else acted since
\* the page was loaded: through lookups that fill the cache, logouts between
\* their two deletions, the idle lock, restarts and reloads.
THEOREM PanelAgreesWithService == PsSpec => []PageAgrees
  <1> QED
    BY TabTypedInit, TabTypedNext, AgreeInit, AgreeNext, ShownIsService, PTL DEF PsSpec
=============================================================================
