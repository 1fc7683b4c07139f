-------------------------- MODULE WebSessionProofs --------------------------
(***************************************************************************)
(* Proofs about WebSession: the connection of a tab, for any users, fleets *)
(* and limits, and any sequence of logins, failures and late events.       *)
(***************************************************************************)
EXTENDS WebSession, Extrema

-----------------------------------------------------------------------------
(* The inductive invariants.                                               *)

(* AppShell is mounted exactly while there is a token, and its hook has    *)
(* closed over that token.                                                 *)
MountedInv ==
  IF shell = NoShell THEN token = NoToken
  ELSE token # NoToken /\ ~hook[shell].isUnmounted /\ hook[shell].accessToken = token

(* The hook of an AppShell that was unmounted has no timer and starts      *)
(* none.                                                                   *)
UnmountedInv == \A h \in Shells \ {shell} : hook[h].isUnmounted /\ hook[h].timers = 0

(* The mounted hook waits for its timer, or its ref holds its one socket.  *)
Linked ==
  \/ hook[shell].timers = 1 /\ hook[shell].ws = NoSocket /\ Live(shell) = {}
  \/ hook[shell].timers = 0 /\ hook[shell].ws \in Sockets /\ Live(shell) = {hook[shell].ws}
LinkInv == shell # NoShell => Linked

(* A socket holds on to its hook, and outlives the session only to close.  *)
SocketInv ==
  \A s \in Sockets : sock[s] # Free =>
    /\ hook[sock[s].hook].accessToken # NoToken
    /\ sock[s].hook # shell => sock[s].state = "closing"
    /\ sock[s].hook = shell => sock[s].token = token

(* A login request is under way only without a session.                    *)
LoginInv ==
  /\ shell # NoShell => login = NoLogin
  /\ login.answer \in {"200", "stored"} => login.token # NoToken

(* The API accepts a token that is good, and refuses one that never will   *)
(* be good again.                                                          *)
QueryInv ==
  /\ query.answer = "200" => query.token # NoToken
  /\ query.answer = "401" => ~Validate(query.token)

LiveType == [hook : Shells, token : Tokens \ {NoToken},
             state : {"connecting", "open", "closing"}, filter : SUBSET Devices]

LEMMA SocketCases ==
  ASSUME ConnectionType, NEW s \in Sockets
  PROVE  /\ sock[s] = Free => sock[s].state = "free" /\ sock[s].hook \notin Shells
         /\ sock[s] # Free => sock[s] \in LiveType /\ sock[s].state # "free"
  <1>1. sock[s] \in SocketType
    BY DEF ConnectionType
  <1>2. NoShell \notin Shells
    BY WebAssumption DEF NoShell
  <1>3. CASE sock[s] = Free
    BY <1>2, <1>3 DEF Free
  <1>4. CASE sock[s] # Free
    BY <1>1, <1>4 DEF SocketType, LiveType
  <1> QED BY <1>3, <1>4

(* A record of a live socket is not Free.                                  *)
LEMMA LiveNotFree ==
  ASSUME NEW r \in LiveType
  PROVE  r # Free /\ r \in SocketType
  BY DEF LiveType, SocketType, Free

(* A socket that is open or being opened belongs to the mounted hook.      *)
LEMMA OpenIsOwn ==
  ASSUME ConnectionType, SocketInv, NEW s \in Sockets, sock[s].state \in {"connecting", "open"}
  PROVE  sock[s] \in LiveType /\ sock[s].hook = shell /\ shell \in Shells /\ sock[s].token = token
  <1>1. sock[s] # Free /\ sock[s] \in LiveType
    BY SocketCases
  <1>2. sock[s].hook = shell /\ sock[s].token = token
    BY <1>1 DEF SocketInv
  <1> QED BY <1>1, <1>2 DEF LiveType

Closed(r) == [r EXCEPT !.state = "closing", !.filter = {}]

LEMMA ClosingIs ==
  ASSUME ConnectionType, NEW s \in Sockets, sock[s] # Free
  PROVE  /\ Closing(s) = [sock EXCEPT ![s] = Closed(sock[s])]
         /\ Closed(sock[s]) \in LiveType /\ Closed(sock[s]).hook = sock[s].hook
         /\ Closed(sock[s]).token = sock[s].token /\ Closed(sock[s]).state = "closing"
  <1>1. sock[s] \in LiveType /\ sock \in [Sockets -> SocketType]
    BY SocketCases DEF ConnectionType
  <1>2. /\ Closed(sock[s]) \in LiveType /\ Closed(sock[s]).hook = sock[s].hook
        /\ Closed(sock[s]).token = sock[s].token /\ Closed(sock[s]).state = "closing"
    BY <1>1 DEF LiveType, Closed
  <1>3. Closing(s) = [sock EXCEPT ![s] = Closed(sock[s])]
    <2>1. Closing(s) = [x \in Sockets |-> IF x = s THEN Closed(sock[s]) ELSE sock[x]]
      BY <1>1 DEF Closing, Closed
    <2> QED BY <1>1, <2>1
  <1> QED BY <1>2, <1>3

-----------------------------------------------------------------------------
(* The steps that keep the sockets and the hooks in place.                 *)

Connection == ConnectionType /\ MountedInv /\ UnmountedInv /\ LinkInv /\ SocketInv

LEMMA SameConnection ==
  ASSUME Connection, UNCHANGED <<shell, hook, sock, token>>
  PROVE  Connection'
  BY DEF Connection, ConnectionType, MountedInv, UnmountedInv, LinkInv, Linked, Live, SocketInv

(* One socket of the mounted hook changes its state or its filter, and     *)
(* nothing of a hook but its delay.                                        *)
LEMMA SocketChanges ==
  ASSUME Connection, NEW s \in Sockets, sock[s].state \in {"connecting", "open"},
         NEW new \in LiveType, new.hook = sock[s].hook, new.token = sock[s].token,
         sock' = [sock EXCEPT ![s] = new], UNCHANGED <<shell, token>>,
         hook' \in [Shells -> HookType],
         \A h \in Shells : /\ hook'[h].isUnmounted = hook[h].isUnmounted
                           /\ hook'[h].accessToken = hook[h].accessToken
                           /\ hook'[h].timers = hook[h].timers /\ hook'[h].ws = hook[h].ws
  PROVE  Connection'
  <1>1. /\ ConnectionType /\ MountedInv /\ UnmountedInv /\ LinkInv /\ SocketInv
        /\ sock[s] # Free /\ sock[s].hook = shell /\ shell \in Shells /\ new # Free
        /\ sock[s].token = token
    BY OpenIsOwn, LiveNotFree, SocketCases DEF Connection
  <1>2. ConnectionType'
    BY <1>1, LiveNotFree DEF ConnectionType
  <1>3. Live(shell)' = Live(shell)
    BY <1>1 DEF Live, ConnectionType
  <1>4. MountedInv' /\ UnmountedInv' /\ LinkInv'
    BY <1>1, <1>3 DEF MountedInv, UnmountedInv, LinkInv, Linked
  <1>5. SocketInv'
    <2> SUFFICES ASSUME NEW x \in Sockets, sock'[x] # Free
                 PROVE  /\ hook'[sock'[x].hook].accessToken # NoToken
                        /\ sock'[x].hook # shell => sock'[x].state = "closing"
                        /\ sock'[x].hook = shell => sock'[x].token = token
      BY DEF SocketInv
    <2>1. sock[x] # Free /\ sock'[x].hook = sock[x].hook /\ sock'[x].token = sock[x].token
      BY <1>1 DEF ConnectionType
    <2>2. sock[x].hook \in Shells
      BY <1>1, <2>1, SocketCases DEF LiveType
    <2>3. x # s => sock'[x] = sock[x]
      BY <1>1 DEF ConnectionType
    <2> QED BY <1>1, <2>1, <2>2, <2>3 DEF SocketInv
  <1> QED BY <1>2, <1>4, <1>5 DEF Connection

LEMMA SocketCloses ==
  ASSUME Connection, NEW s \in Sockets, sock[s].state \in {"connecting", "open"},
         sock' = Closing(s), UNCHANGED <<shell, hook, token>>
  PROVE  Connection'
  <1>1. ConnectionType /\ SocketInv
    BY DEF Connection
  <1>2. sock[s] # Free
    BY <1>1, SocketCases
  <1> QED BY <1>1, <1>2, ClosingIs, SocketChanges DEF ConnectionType

LEMMA UpgradeConnection ==
  ASSUME Connection, NEW s \in Sockets, Upgrade(s)
  PROVE  Connection'
  <1>1. ConnectionType /\ SocketInv /\ hook \in [Shells -> HookType] /\ sock \in [Sockets -> SocketType]
    BY DEF Connection, ConnectionType
  <1>2. /\ sock[s].state = "connecting" /\ UNCHANGED <<shell, token>>
        /\ sock' = [sock EXCEPT ![s].state = "open"]
        /\ hook' = [hook EXCEPT ![sock[s].hook].reconnectDelay = InitialDelay]
    BY DEF Upgrade, auth
  <1>3. sock[s] \in LiveType /\ sock[s].hook = shell /\ shell \in Shells
    BY <1>1, <1>2, OpenIsOwn
  <1> DEFINE new == [sock[s] EXCEPT !.state = "open"]
  <1>4. new \in LiveType /\ new.hook = sock[s].hook /\ new.token = sock[s].token
    BY <1>3 DEF LiveType
  <1>5. sock' = [sock EXCEPT ![s] = new]
    BY <1>1, <1>2
  <1>6. hook' \in [Shells -> HookType]
    <2>1. InitialDelay \in InitialDelay .. MaxDelay
      BY WebAssumption
    <2> QED BY <1>1, <1>2, <1>3, <2>1 DEF HookType
  <1>7. \A h \in Shells : /\ hook'[h].isUnmounted = hook[h].isUnmounted
                          /\ hook'[h].accessToken = hook[h].accessToken
                          /\ hook'[h].timers = hook[h].timers /\ hook'[h].ws = hook[h].ws
    BY <1>1, <1>2, <1>3 DEF HookType
  <1> HIDE DEF new
  <1> QED BY <1>2, <1>4, <1>5, <1>6, <1>7, SocketChanges

(* What subscribe sends changes the filter of the socket, or costs it.     *)
LEMMA SubscribeConnection ==
  ASSUME Connection, NEW ids \in SUBSET Devices, subscribe(ids), UNCHANGED <<shell, hook, token>>
  PROVE  Connection'
  <1> DEFINE s == IF shell = NoShell THEN NoSocket ELSE hook[shell].ws
  <1>1. sock' = IF s = NoSocket \/ sock[s].state # "open" THEN sock
                ELSE IF Cardinality(ids) > MaxSubscribe THEN Closing(s)
                ELSE [sock EXCEPT ![s].filter = ids]
    BY DEF subscribe
  <1>2. CASE sock' = sock
    BY <1>2, SameConnection
  <1>3. CASE sock' # sock
    <2>1. s # NoSocket /\ sock[s].state = "open"
      BY <1>1, <1>3
    <2>2. s \in Sockets
      BY <2>1 DEF Connection, ConnectionType, HookType
    <2> HIDE DEF s
    <2>3. CASE sock' = Closing(s)
      BY <2>1, <2>2, <2>3, SocketCloses
    <2>4. CASE sock' = [sock EXCEPT ![s].filter = ids]
      <3> DEFINE new == [sock[s] EXCEPT !.filter = ids]
      <3>1. sock[s] \in LiveType /\ sock \in [Sockets -> SocketType]
        BY <2>1, <2>2, OpenIsOwn DEF Connection, ConnectionType
      <3>2. new \in LiveType /\ new.hook = sock[s].hook /\ new.token = sock[s].token
        BY <3>1 DEF LiveType
      <3>3. sock' = [sock EXCEPT ![s] = new]
        BY <2>2, <2>4, <3>1
      <3> HIDE DEF new
      <3> QED BY <2>1, <2>2, <3>2, <3>3, SocketChanges DEF Connection, ConnectionType
    <2> QED BY <1>1, <2>1, <2>3, <2>4
  <1> QED BY <1>2, <1>3

-----------------------------------------------------------------------------
(* The steps that make or end a socket, a timer or a hook.                 *)

LEMMA GoneType == Gone \in HookType /\ NoToken \in Tokens
  <1>1. NoToken \in Tokens /\ InitialDelay \in InitialDelay .. MaxDelay /\ 0 \in 0 .. 1
    BY WebAssumption DEF Tokens
  <1> QED BY <1>1 DEF Gone, HookType

LEMMA BackoffType ==
  ASSUME NEW d \in InitialDelay .. MaxDelay
  PROVE  Backoff(d) \in InitialDelay .. MaxDelay
  <1>1. d \in Int /\ d * 2 \in Int /\ MaxDelay \in Int
    BY WebAssumption
  <1>2. Backoff(d) = IF d * 2 <= MaxDelay THEN d * 2 ELSE MaxDelay
    BY <1>1, MinOfTwo DEF Backoff
  <1> QED BY <1>2, WebAssumption

LEMMA OnCloseConnection ==
  ASSUME Connection, NEW s \in Sockets, OnClose(s)
  PROVE  Connection'
  <1> DEFINE h == sock[s].hook
             closed == [hook[h] EXCEPT !.ws = IF @ = s THEN NoSocket ELSE @]
             again  == [closed EXCEPT !.timers = @ + 1, !.reconnectDelay = Backoff(@)]
  <1>1. /\ ConnectionType /\ MountedInv /\ UnmountedInv /\ LinkInv /\ SocketInv
        /\ hook \in [Shells -> HookType] /\ sock \in [Sockets -> SocketType]
    BY DEF Connection, ConnectionType
  <1>2. /\ sock[s].state = "closing" /\ sock' = [sock EXCEPT ![s] = Free]
        /\ UNCHANGED <<shell, token>>
    BY DEF OnClose, auth
  <1>3. sock[s] # Free /\ h \in Shells
    BY <1>1, <1>2, SocketCases DEF LiveType
  <1>4. closed \in HookType /\ closed.timers = hook[h].timers
        /\ closed.isUnmounted = hook[h].isUnmounted /\ closed.accessToken = hook[h].accessToken
    BY <1>1, <1>3 DEF HookType
  <1>5. \A x \in Sockets : sock'[x] # Free => x # s /\ sock'[x] = sock[x] /\ sock[x] # Free
    BY <1>1, <1>2
  <1>6. \A x \in Sockets : sock[x] # Free => sock[x].hook \in Shells
    BY <1>1, SocketCases DEF LiveType
  <1>7. sock' \in [Sockets -> SocketType]
    BY <1>1, <1>2 DEF SocketType
  <1>8. \A g \in Shells : Live(g)' = Live(g) \ {s}
    BY <1>1, <1>2, <1>5 DEF Live
  <1>9. CASE hook[h].isUnmounted
    <2>1. h # shell
      BY <1>1, <1>3, <1>9, WebAssumption DEF MountedInv, NoShell
    <2>2. hook' = [hook EXCEPT ![h] = IF closed.isUnmounted /\ closed.timers = 0 /\ Live(h) \ {s} = {}
                                      THEN Gone ELSE closed]
      BY <1>9 DEF OnClose, Collected
    <2> HIDE DEF closed
    <2>3. hook' \in [Shells -> HookType]
      BY <1>1, <1>4, <2>2, GoneType
    <2>4. /\ hook'[h].isUnmounted /\ hook'[h].timers = 0
          /\ hook'[h].accessToken = hook[h].accessToken \/ Live(h) \ {s} = {}
      <3>1. hook[h].timers = 0
        BY <1>1, <1>3, <2>1 DEF UnmountedInv
      <3>2. Gone.isUnmounted /\ Gone.timers = 0
        BY DEF Gone
      <3> QED BY <1>1, <1>3, <1>4, <1>9, <2>2, <3>1, <3>2
    <2>5. \A g \in Shells \ {h} : hook'[g] = hook[g]
      BY <1>1, <2>2
    <2> HIDE DEF h
    <2>6. ConnectionType' /\ UnmountedInv'
      BY <1>1, <1>2, <1>7, <2>3, <2>4, <2>5 DEF ConnectionType, UnmountedInv
    <2>7. shell # NoShell => shell \in Shells /\ hook'[shell] = hook[shell] /\ Live(shell)' = Live(shell)
      <3>1. shell # NoShell => shell \in Shells /\ s \notin Live(shell)
        BY <1>1, <2>1 DEF ConnectionType, Live, h
      <3>2. shell # NoShell => Live(shell)' = Live(shell)
        BY <1>1, <1>2, <1>5, <3>1 DEF Live
      <3> QED BY <2>1, <2>5, <3>1, <3>2
    <2>8. MountedInv' /\ LinkInv'
      BY <1>1, <1>2, <2>7 DEF MountedInv, LinkInv, Linked
    <2>9. SocketInv'
      <3> SUFFICES ASSUME NEW x \in Sockets, sock'[x] # Free
                   PROVE  /\ hook'[sock'[x].hook].accessToken # NoToken
                          /\ sock'[x].hook # shell' => sock'[x].state = "closing"
                          /\ sock'[x].hook = shell' => sock'[x].token = token'
        BY DEF SocketInv
      <3>1. x # s /\ sock'[x] = sock[x] /\ sock[x] # Free /\ sock[x].hook \in Shells
        BY <1>5, <1>6
      <3>2. sock[x].hook = h => Live(h) \ {s} # {}
        BY <3>1 DEF Live
      <3>3. hook'[sock[x].hook].accessToken = hook[sock[x].hook].accessToken
        BY <2>4, <2>5, <3>1, <3>2
      <3> QED BY <1>1, <1>2, <3>1, <3>3 DEF SocketInv
    <2> QED BY <2>6, <2>8, <2>9 DEF Connection
  <1>10. CASE ~hook[h].isUnmounted
    <2>1. h = shell /\ shell # NoShell
      BY <1>1, <1>3, <1>10, WebAssumption DEF UnmountedInv, NoShell
    <2>2. s \in Live(shell)
      BY <1>3, <2>1 DEF Live
    <2>3. hook[h].timers = 0 /\ hook[h].ws = s /\ Live(shell) = {s}
      BY <1>1, <2>1, <2>2 DEF LinkInv, Linked
    <2>4. hook' = [hook EXCEPT ![h] = again]
      BY <1>10 DEF OnClose
    <2>5. closed.ws = NoSocket /\ closed.timers = 0
      BY <1>1, <1>3, <2>3 DEF HookType
    <2> HIDE DEF closed
    <2>6. /\ again \in HookType /\ again.timers = 1 /\ again.ws = NoSocket
          /\ again.isUnmounted = closed.isUnmounted /\ again.accessToken = closed.accessToken
      <3>1. Backoff(closed.reconnectDelay) \in InitialDelay .. MaxDelay
        BY <1>4, BackoffType DEF HookType
      <3>2. PICK d \in InitialDelay .. MaxDelay : d = Backoff(closed.reconnectDelay)
        BY <3>1
      <3>3. again = [closed EXCEPT !.timers = 1, !.reconnectDelay = d]
        BY <2>5, <3>2
      <3>4. 1 \in 0 .. 1
        OBVIOUS
      <3> QED BY <1>4, <2>5, <3>3, <3>4 DEF HookType
    <2> HIDE DEF again
    <2>7. hook'[h] = again /\ \A g \in Shells \ {h} : hook'[g] = hook[g]
      BY <1>1, <1>3, <2>4
    <2>8. ConnectionType'
      BY <1>1, <1>2, <1>7, <2>4, <2>6 DEF ConnectionType
    <2>9. Live(shell)' = {}
      BY <1>2, <1>3, <1>8, <2>1, <2>3
    <2>10. MountedInv' /\ UnmountedInv' /\ LinkInv'
      BY <1>1, <1>2, <1>4, <2>1, <2>6, <2>7, <2>9 DEF MountedInv, UnmountedInv, LinkInv, Linked
    <2>11. SocketInv'
      BY <1>1, <1>2, <1>4, <1>5, <1>6, <2>6, <2>7 DEF SocketInv
    <2> QED BY <2>8, <2>10, <2>11 DEF Connection
  <1> QED BY <1>9, <1>10

(* The slot a new socket takes is free.                                    *)
LEMMA FreeSlot ==
  ASSUME Slots # {}
  PROVE  Min(Slots) \in Sockets /\ sock[Min(Slots)] = Free
  <1>1. Slots \in SUBSET Nat
    BY WebAssumption DEF Slots
  <1>2. Min(Slots) \in Slots
    BY <1>1, MinIsLeast
  <1> QED BY <1>2 DEF Slots

(* The hook of a new mount is one no socket refers to.                     *)
LEMMA FreshHook ==
  ASSUME Connection, Unused # {}
  PROVE  Min(Unused) \in Shells /\ hook[Min(Unused)] = Gone /\ Live(Min(Unused)) = {}
  <1>1. Unused \in SUBSET Nat
    BY WebAssumption DEF Unused
  <1>2. Min(Unused) \in Unused
    BY <1>1, MinIsLeast
  <1>3. hook[Min(Unused)].accessToken = NoToken
    BY <1>2 DEF Unused, Gone
  <1> QED BY <1>2, <1>3 DEF Unused, Live, Connection, SocketInv

LEMMA OpeningType ==
  ASSUME NEW h \in Shells, NEW t \in Tokens \ {NoToken}
  PROVE  /\ Opening(h, t) \in LiveType /\ Opening(h, t) # Free /\ Opening(h, t) \in SocketType
         /\ Opening(h, t).hook = h /\ Opening(h, t).token = t
  <1>1. Opening(h, t) \in LiveType /\ Opening(h, t).hook = h /\ Opening(h, t).token = t
    BY DEF Opening, LiveType
  <1> QED BY <1>1, LiveNotFree

(* A socket is opened for hook h of the mounted AppShell, which had none.  *)
LEMMA SocketOpens ==
  ASSUME Connection, NEW h \in Shells, shell' = h, NEW s \in Sockets, sock[s] = Free,
         NEW t \in Tokens \ {NoToken}, token' = t, Live(h) = {},
         sock' = [sock EXCEPT ![s] = Opening(h, t)],
         NEW r \in HookType, hook' = [hook EXCEPT ![h] = r],
         ~r.isUnmounted, r.accessToken = t, r.timers = 0, r.ws = s,
         \A g \in Shells \ {h} : hook[g].isUnmounted /\ hook[g].timers = 0,
         \A x \in Sockets : sock[x] # Free => sock[x].state = "closing"
  PROVE  Connection'
  <1>1. /\ ConnectionType /\ SocketInv /\ h # NoShell
        /\ hook \in [Shells -> HookType] /\ sock \in [Sockets -> SocketType]
    BY WebAssumption DEF Connection, ConnectionType, NoShell
  <1>2. /\ sock'[s] = Opening(h, t) /\ \A x \in Sockets \ {s} : sock'[x] = sock[x]
        /\ hook'[h] = r /\ \A g \in Shells \ {h} : hook'[g] = hook[g]
    BY <1>1
  <1>3. Opening(h, t) # Free /\ Opening(h, t) \in SocketType
        /\ Opening(h, t).hook = h /\ Opening(h, t).token = t
    BY OpeningType
  <1>4. ConnectionType'
    BY <1>1, <1>3 DEF ConnectionType
  <1>5. MountedInv' /\ UnmountedInv'
    BY <1>1, <1>2 DEF MountedInv, UnmountedInv
  <1>6. Live(shell)' = {s}
    BY <1>2, <1>3 DEF Live
  <1>7. LinkInv'
    BY <1>2, <1>6 DEF LinkInv, Linked
  <1>8. SocketInv'
    <2> SUFFICES ASSUME NEW x \in Sockets, sock'[x] # Free
                 PROVE  /\ hook'[sock'[x].hook].accessToken # NoToken
                        /\ sock'[x].hook # h => sock'[x].state = "closing"
                        /\ sock'[x].hook = h => sock'[x].token = t
      BY DEF SocketInv
    <2>1. CASE x = s
      BY <1>2, <1>3, <2>1
    <2>2. CASE x # s
      <3>1. sock'[x] = sock[x] /\ sock[x] # Free /\ sock[x].hook \in Shells
        BY <1>1, <1>2, <2>2, SocketCases DEF LiveType
      <3>2. sock[x].hook # h
        BY <3>1 DEF Live
      <3> QED BY <1>1, <1>2, <3>1, <3>2 DEF SocketInv
    <2> QED BY <2>1, <2>2
  <1> QED BY <1>4, <1>5, <1>7, <1>8 DEF Connection

LEMMA ReconnectConnection ==
  ASSUME Connection, NEW h \in Shells, Reconnect(h)
  PROVE  Connection'
  <1>1. /\ ConnectionType /\ MountedInv /\ UnmountedInv /\ LinkInv /\ SocketInv
        /\ hook \in [Shells -> HookType] /\ sock \in [Sockets -> SocketType]
    BY DEF Connection, ConnectionType
  <1>2. /\ hook[h].timers > 0 /\ ~hook[h].isUnmounted /\ Slots # {} /\ UNCHANGED <<shell, token>>
        /\ hook' = [hook EXCEPT ![h].timers = @ - 1, ![h].ws = Min(Slots)]
        /\ sock' = [sock EXCEPT ![Min(Slots)] = Opening(h, hook[h].accessToken)]
    BY DEF Reconnect, connect, auth
  <1>3. h = shell /\ shell # NoShell
    BY <1>1, <1>2, WebAssumption DEF UnmountedInv, NoShell
  <1>4. hook[h].timers = 1 /\ Live(h) = {}
    BY <1>1, <1>2, <1>3 DEF LinkInv, Linked
  <1>5. PICK s \in Sockets : s = Min(Slots) /\ sock[s] = Free
    BY <1>2, FreeSlot
  <1>6. token \in Tokens \ {NoToken} /\ hook[h].accessToken = token
    BY <1>1, <1>3 DEF MountedInv, HookType
  <1> DEFINE r == [hook[h] EXCEPT !.timers = 0, !.ws = s]
  <1>7. /\ r \in HookType /\ ~r.isUnmounted /\ r.accessToken = token /\ r.timers = 0 /\ r.ws = s
    <2>1. hook[h] \in HookType /\ 0 \in 0 .. 1
      BY <1>1
    <2> QED BY <1>2, <1>6, <2>1 DEF HookType
  <1>8. hook' = [hook EXCEPT ![h] = r]
    <2>1. hook[h].timers - 1 = 0
      BY <1>4
    <2>2. hook' = [g \in Shells |-> IF g = h THEN r ELSE hook[g]]
      BY <1>1, <1>2, <1>5, <2>1
    <2> QED BY <1>1, <2>2
  <1> HIDE DEF r
  <1>9. \A x \in Sockets : sock[x] # Free => sock[x].state = "closing"
    BY <1>1, <1>3, <1>4 DEF SocketInv, Live
  <1>10. \A g \in Shells \ {h} : hook[g].isUnmounted /\ hook[g].timers = 0
    BY <1>1, <1>3 DEF UnmountedInv
  <1>11. PICK t \in Tokens \ {NoToken} : t = token
    BY <1>6
  <1>12. /\ shell' = h /\ token' = t /\ r.accessToken = t
         /\ sock' = [sock EXCEPT ![s] = Opening(h, t)]
    BY <1>2, <1>3, <1>5, <1>6, <1>7, <1>11
  <1> QED BY <1>4, <1>5, <1>7, <1>8, <1>9, <1>10, <1>12, SocketOpens

LEMMA MountConnection ==
  ASSUME Connection, shell = NoShell, NEW t \in Tokens \ {NoToken}, token' = t, Mount(t)
  PROVE  Connection'
  <1>1. /\ ConnectionType /\ UnmountedInv /\ SocketInv
        /\ hook \in [Shells -> HookType] /\ NoShell \notin Shells
    BY WebAssumption DEF Connection, ConnectionType, NoShell
  <1>2. PICK s \in Sockets : s = Min(Slots) /\ sock[s] = Free
    BY FreeSlot DEF Mount
  <1>3. PICK h \in Shells : h = Min(Unused) /\ Live(h) = {}
    BY FreshHook DEF Mount
  <1> DEFINE r == [Gone EXCEPT !.isUnmounted = FALSE, !.accessToken = t, !.ws = s]
  <1>4. /\ shell' = h /\ hook' = [hook EXCEPT ![h] = r]
        /\ sock' = [sock EXCEPT ![s] = Opening(h, t)]
    BY <1>2, <1>3 DEF Mount
  <1>5. /\ r \in HookType /\ ~r.isUnmounted /\ r.accessToken = t /\ r.timers = 0 /\ r.ws = s
    <2>1. Gone \in HookType /\ Gone.timers = 0
      BY GoneType DEF Gone
    <2> QED BY <2>1 DEF HookType
  <1> HIDE DEF r
  <1>6. \A x \in Sockets : sock[x] # Free => sock[x].state = "closing"
    BY <1>1, SocketCases DEF SocketInv, LiveType
  <1>7. \A g \in Shells \ {h} : hook[g].isUnmounted /\ hook[g].timers = 0
    BY <1>1 DEF UnmountedInv
  <1> QED BY <1>2, <1>3, <1>4, <1>5, <1>6, <1>7, SocketOpens

LEMMA CleanupConnection ==
  ASSUME Connection, shell # NoShell, Cleanup(shell), shell' = NoShell, token' = NoToken
  PROVE  Connection'
  <1> DEFINE r == [hook[shell] EXCEPT !.isUnmounted = TRUE, !.timers = Max({@ - 1, 0})]
  <1>1. /\ ConnectionType /\ MountedInv /\ UnmountedInv /\ Linked /\ SocketInv
        /\ hook \in [Shells -> HookType] /\ sock \in [Sockets -> SocketType]
        /\ shell \in Shells /\ NoShell \notin Shells /\ NoSocket \notin Sockets
    BY WebAssumption DEF Connection, ConnectionType, LinkInv, NoShell, NoSocket
  <1>2. r \in HookType /\ r.isUnmounted /\ r.timers = 0 /\ r.accessToken = hook[shell].accessToken
    <2>1. hook[shell] \in HookType /\ hook[shell].timers \in 0 .. 1
      BY <1>1 DEF HookType
    <2>2. Max({hook[shell].timers - 1, 0}) = 0
      <3>1. hook[shell].timers - 1 \in Int /\ hook[shell].timers - 1 <= 0
        BY <2>1
      <3>2. Max({hook[shell].timers - 1, 0}) =
              IF hook[shell].timers - 1 >= 0 THEN hook[shell].timers - 1 ELSE 0
        BY <3>1, MaxOfTwo
      <3> QED BY <3>1, <3>2
    <2>3. r = [hook[shell] EXCEPT !.isUnmounted = TRUE, !.timers = 0]
      BY <2>2
    <2>4. 0 \in 0 .. 1
      OBVIOUS
    <2> HIDE DEF r
    <2> QED BY <2>1, <2>3, <2>4 DEF HookType
  <1>3. hook' = [hook EXCEPT ![shell] =
                   IF r.isUnmounted /\ r.timers = 0 /\ Live(shell) = {} THEN Gone ELSE r]
    BY DEF Cleanup, Collected
  <1>4. sock' = IF hook[shell].ws = NoSocket THEN sock ELSE Closing(hook[shell].ws)
    BY DEF Cleanup
  <1> HIDE DEF r
  <1>5. /\ hook' \in [Shells -> HookType] /\ \A g \in Shells \ {shell} : hook'[g] = hook[g]
        /\ hook'[shell] = IF Live(shell) = {} THEN Gone ELSE r
    BY <1>1, <1>2, <1>3, GoneType
  <1>6. UnmountedInv'
    BY <1>1, <1>2, <1>5 DEF UnmountedInv, Gone
  <1>7. MountedInv' /\ LinkInv'
    BY DEF MountedInv, LinkInv
  <1>8. /\ sock' \in [Sockets -> SocketType]
        /\ \A x \in Sockets : /\ sock'[x] # Free <=> sock[x] # Free
                              /\ sock'[x].hook = sock[x].hook
                              /\ x \in Live(shell) => sock'[x].state = "closing"
                              /\ x \notin Live(shell) => sock'[x] = sock[x]
    <2>1. CASE hook[shell].ws = NoSocket
      BY <1>1, <1>4, <2>1 DEF Linked
    <2>2. CASE hook[shell].ws # NoSocket
      <3>1. PICK s \in Sockets : s = hook[shell].ws /\ Live(shell) = {s}
        BY <1>1, <2>2 DEF Linked
      <3>2. sock[s] # Free /\ sock' = Closing(s)
        BY <1>4, <2>2, <3>1 DEF Live
      <3>3. /\ sock' = [sock EXCEPT ![s] = Closed(sock[s])] /\ Closed(sock[s]) \in SocketType
            /\ Closed(sock[s]) # Free /\ Closed(sock[s]).hook = sock[s].hook
            /\ Closed(sock[s]).state = "closing"
        BY <1>1, <3>2, ClosingIs, LiveNotFree
      <3> QED BY <1>1, <3>1, <3>2, <3>3
    <2> QED BY <2>1, <2>2
  <1>9. ConnectionType'
    BY <1>5, <1>8 DEF ConnectionType
  <1>10. SocketInv'
    <2> SUFFICES ASSUME NEW x \in Sockets, sock'[x] # Free
                 PROVE  /\ hook'[sock'[x].hook].accessToken # NoToken
                        /\ sock'[x].hook # NoShell /\ sock'[x].state = "closing"
      BY DEF SocketInv
    <2>1. sock[x] # Free /\ sock'[x].hook = sock[x].hook /\ sock[x].hook \in Shells
      BY <1>1, <1>8, SocketCases DEF LiveType
    <2>2. CASE sock[x].hook = shell
      <3>1. x \in Live(shell)
        BY <2>1, <2>2 DEF Live
      <3> QED BY <1>1, <1>2, <1>5, <1>8, <2>1, <2>2, <3>1 DEF SocketInv
    <2>3. CASE sock[x].hook # shell
      <3>1. sock'[x] = sock[x]
        BY <1>8, <2>3 DEF Live
      <3> QED BY <1>1, <1>5, <2>1, <2>3, <3>1 DEF SocketInv
    <2> QED BY <2>2, <2>3
  <1> QED BY <1>6, <1>7, <1>9, <1>10 DEF Connection

LEMMA EmptyConnection ==
  ASSUME shell = NoShell, token = NoToken, hook = [h \in Shells |-> Gone],
         sock = [s \in Sockets |-> Free]
  PROVE  Connection
  <1>1. ConnectionType
    BY GoneType DEF ConnectionType, SocketType
  <1>2. MountedInv /\ LinkInv /\ SocketInv
    BY DEF MountedInv, LinkInv, SocketInv
  <1>3. UnmountedInv
    BY DEF UnmountedInv, Gone
  <1> QED BY <1>1, <1>2, <1>3 DEF Connection

-----------------------------------------------------------------------------
(* The auth store, the pages and their queries.                            *)

TabInv == AuthType /\ PageType /\ LoginInv /\ QueryInv /\ Connection

LEMMA TokenCases ==
  ASSUME NEW t \in Tokens
  PROVE  t = NoToken \/ (t.user \in Users /\ t.exp \in Nat)
  <1>1. CASE t = NoToken
    BY <1>1
  <1>2. CASE t # NoToken
    BY <1>2, WebAssumption DEF Tokens
  <1> QED BY <1>1, <1>2

LEMMA SignType ==
  ASSUME AuthType, NEW u \in Users
  PROVE  sign(u) \in Tokens /\ sign(u) # NoToken
  <1>1. now + AccessTTL \in 1 .. MaxTime + AccessTTL
    BY WebAssumption DEF AuthType
  <1>2. sign(u).user = u
    BY DEF sign
  <1> QED BY <1>1, <1>2, WebAssumption DEF sign, Tokens

(* A login that has succeeded, or a token that was stored, is mounted with *)
(* no session before it.                                                   *)
LEMMA LoggedInFrom ==
  ASSUME TabInv, LoggedIn
  PROVE  shell = NoShell /\ login.token \in Tokens \ {NoToken} /\ token' = login.token
  <1>1. login.answer \in {"200", "stored"} /\ token' = login.token
    BY DEF LoggedIn
  <1>2. login # NoLogin
    BY <1>1 DEF NoLogin
  <1> QED BY <1>1, <1>2 DEF TabInv, AuthType, LoginInv

LEMMA LoadFrom ==
  ASSUME TabInv, LoginRefused \/ Unauthorized \/ Reload
  PROVE  \E t \in Tokens : Load(t)
  <1>1. NoToken \in Tokens /\ token \in Tokens
    BY GoneType DEF TabInv, AuthType
  <1> QED BY <1>1 DEF LoginRefused, Unauthorized, Redirect, Reload

LEMMA NewDevices ==
  ASSUME TabInv, Answered
  PROVE  Fleet[query.token.user] \in SUBSET Devices
  <1>1. query.answer = "200"
    BY DEF Answered
  <1>2. query.token \in Tokens /\ query.token # NoToken
    BY <1>1 DEF TabInv, PageType, QueryInv, NoQuery
  <1>3. query.token.user \in Users
    BY <1>2, TokenCases
  <1> QED BY <1>3 DEF Devices

LEMMA ConnectionStep ==
  ASSUME TabInv, Next
  PROVE  Connection'
  <1>1. Connection /\ ConnectionType /\ SocketInv
    BY DEF TabInv, Connection
  <1>2. CASE Tick \/ Login \/ LoginFailed \/ (\E p \in Pages : Navigate(p) \/ Fetch(p))
              \/ Serve \/ Resend
    <2>1. UNCHANGED <<shell, hook, sock, token>>
      BY <1>2 DEF Tick, Login, LoginFailed, Navigate, Fetch, Serve, Resend, auth
    <2> QED BY <1>1, <2>1, SameConnection
  <1>3. CASE LoggedIn
    <2>1. shell = NoShell /\ login.token \in Tokens \ {NoToken} /\ token' = login.token
      BY <1>3, LoggedInFrom
    <2>2. PICK t \in Tokens \ {NoToken} : t = login.token
      BY <2>1
    <2>3. Mount(t)
      <3>1. Mount(login.token)
        BY <1>3 DEF LoggedIn
      <3> QED BY <2>2, <3>1 DEF Mount
    <2> QED BY <1>1, <2>1, <2>2, <2>3, MountConnection
  <1>4. CASE Logout
    BY <1>1, <1>4, CleanupConnection DEF Logout
  <1>5. CASE LoginRefused \/ Unauthorized \/ Reload
    <2>1. PICK t \in Tokens : Load(t)
      BY <1>5, LoadFrom
    <2>2. /\ shell' = NoShell /\ token' = NoToken /\ hook' = [h \in Shells |-> Gone]
          /\ sock' = [s \in Sockets |-> Free]
      BY <2>1 DEF Load
    <2>3. ConnectionType'
      BY <2>2, GoneType DEF ConnectionType, SocketType
    <2>4. MountedInv' /\ LinkInv' /\ SocketInv'
      BY <2>2 DEF MountedInv, LinkInv, SocketInv
    <2>5. UnmountedInv'
      BY <2>2 DEF UnmountedInv, Gone
    <2> QED BY <2>3, <2>4, <2>5 DEF Connection
  <1>6. ASSUME NEW s \in Sockets, Refuse(s) \/ Drop(s) PROVE Connection'
    <2>1. /\ sock[s].state \in {"connecting", "open"} /\ sock' = Closing(s)
          /\ UNCHANGED <<shell, hook, token>>
      BY <1>6 DEF Refuse, Drop, auth
    <2> QED BY <1>1, <2>1, SocketCloses
  <1>7. ASSUME NEW s \in Sockets, NEW d \in Devices, updatePosition(s, d) PROVE Connection'
    <2>1. PICK ids \in SUBSET Devices : ids = devices
      BY DEF TabInv, PageType
    <2>2. subscribe(ids) /\ UNCHANGED <<shell, hook, token>>
      BY <1>7, <2>1 DEF updatePosition, subscribe, auth
    <2> QED BY <1>1, <2>2, SubscribeConnection
  <1>8. CASE Answered
    <2>1. UNCHANGED <<shell, hook, token>>
      BY <1>8 DEF Answered, auth
    <2>2. PICK ids \in SUBSET Devices : ids = Fleet[query.token.user]
      BY <1>8, NewDevices
    <2>3. sock' = sock \/ subscribe(ids)
      BY <1>8, <2>2 DEF Answered, setDevices, subscribe
    <2> QED BY <1>1, <2>1, <2>3, SameConnection, SubscribeConnection
  <1> QED BY <1>1, <1>2, <1>3, <1>4, <1>5, <1>6, <1>7, <1>8, UpgradeConnection,
            OnCloseConnection, ReconnectConnection DEF Next

LEMMA AuthStep ==
  ASSUME TabInv, Next
  PROVE  AuthType' /\ LoginInv'
  <1> DEFINE Clocks == now' \in 0 .. MaxTime /\ faults' \in 0 .. MaxFaults
  <1>1. AuthType /\ LoginInv /\ NoToken \in Tokens /\ MaxTime \in Nat /\ MaxFaults \in Nat
    BY GoneType, WebAssumption DEF TabInv
  <1>2. ASSUME Fault PROVE faults' \in 0 .. MaxFaults
    BY <1>1, <1>2 DEF Fault, AuthType
  <1>3. ASSUME UNCHANGED <<token, login, shell>>, Clocks PROVE AuthType' /\ LoginInv'
    BY <1>1, <1>3 DEF AuthType, LoginInv
  <1>4. CASE Tick
    <2>1. now' \in 0 .. MaxTime
      BY <1>1, <1>4 DEF Tick, AuthType
    <2> QED BY <1>1, <1>3, <1>4, <2>1 DEF Tick, auth, AuthType
  <1>5. ASSUME UNCHANGED <<now, token, login, shell>>, faults' = faults \/ Fault
        PROVE  AuthType' /\ LoginInv'
    BY <1>1, <1>2, <1>3, <1>5 DEF AuthType
  <1>6. ASSUME NEW s \in Sockets,
               Upgrade(s) \/ Refuse(s) \/ Drop(s) \/ OnClose(s) \/ \E d \in Devices : updatePosition(s, d)
        PROVE  UNCHANGED <<now, token, login, shell>> /\ (faults' = faults \/ Fault)
    BY <1>6 DEF Upgrade, Refuse, Drop, OnClose, updatePosition, auth
  <1>7. ASSUME NEW h \in Shells, Reconnect(h)
        PROVE  UNCHANGED <<now, token, login, shell, faults>>
    BY <1>7 DEF Reconnect, auth
  <1>8. ASSUME NEW p \in Pages, Navigate(p) \/ Fetch(p)
        PROVE  UNCHANGED <<now, token, login, shell, faults>>
    BY <1>8 DEF Navigate, Fetch, auth
  <1>9. CASE Serve \/ Answered \/ Resend
    BY <1>5, <1>9 DEF Serve, Answered, Resend, auth
  <1>10. CASE Login
    <2>1. shell = NoShell /\ UNCHANGED <<now, token, shell>> /\ (faults' = faults \/ Fault)
      BY <1>10 DEF Login, TabInv, Connection, MountedInv
    <2>2. \/ \E u \in Users : login' = [answer |-> "200", token |-> sign(u)]
          \/ login' = [login EXCEPT !.answer = "401"]
          \/ login' = [login EXCEPT !.answer = "failed"]
      BY <1>10 DEF Login
    <2>3. login' \in [answer : {"none", "200", "401", "failed", "stored"}, token : Tokens]
      BY <1>1, <2>2, SignType DEF AuthType
    <2>4. login'.answer \in {"200", "stored"} => login'.token # NoToken
      BY <1>1, <2>2, SignType DEF AuthType
    <2>5. faults' \in 0 .. MaxFaults
      BY <1>1, <1>2, <2>1 DEF AuthType
    <2> QED BY <1>1, <2>1, <2>3, <2>4, <2>5 DEF AuthType, LoginInv
  <1>11. CASE LoggedIn
    <2>1. login.token \in Tokens /\ token' = login.token
      BY <1>11, LoggedInFrom
    <2>2. login' = NoLogin /\ UNCHANGED <<now, faults>>
      BY <1>11 DEF LoggedIn
    <2> QED BY <1>1, <2>1, <2>2 DEF AuthType, LoginInv, NoLogin
  <1>12. CASE LoginFailed
    <2>1. login' = NoLogin /\ UNCHANGED <<now, token, faults>>
      BY <1>12 DEF LoginFailed
    <2> QED BY <1>1, <2>1 DEF AuthType, LoginInv, NoLogin
  <1>13. CASE Logout
    <2>1. shell' = NoShell /\ token' = NoToken /\ UNCHANGED <<now, login, faults>>
      BY <1>13 DEF Logout
    <2> QED BY <1>1, <2>1 DEF AuthType, LoginInv
  <1>14. CASE LoginRefused \/ Unauthorized \/ Reload
    <2>1. PICK t \in Tokens : Load(t)
      BY <1>14, LoadFrom
    <2>2. /\ token' = NoToken /\ shell' = NoShell /\ UNCHANGED <<now, faults>>
          /\ login' = IF t = NoToken THEN NoLogin ELSE [answer |-> "stored", token |-> t]
      BY <2>1 DEF Load
    <2> QED BY <1>1, <2>2 DEF AuthType, LoginInv, NoLogin
  <1> QED BY <1>4, <1>5, <1>6, <1>7, <1>8, <1>9, <1>10, <1>11, <1>12, <1>13, <1>14 DEF Next

QueryType == [page : Pages, token : Tokens, tries : 0 .. MaxRetries,
              answer : {"sent", "200", "401", "failed"}]

(* A query keeps its answer's promise as time passes.                      *)
LEMMA QuerySame ==
  ASSUME AuthType, PageType, QueryInv, query' = query, now' = now \/ now' = now + 1
  PROVE  QueryInv'
  <1>1. query.token \in Tokens
    BY GoneType DEF PageType, NoQuery
  <1>2. query.token = NoToken \/ query.token.exp \in Nat
    BY <1>1, TokenCases
  <1>3. ~Validate(query.token) => ~Validate(query.token)'
    BY <1>2 DEF Validate, AuthType
  <1> QED BY <1>3 DEF QueryInv

LEMMA PageStep ==
  ASSUME TabInv, Next
  PROVE  PageType' /\ QueryInv'
  <1>1. AuthType /\ PageType /\ QueryInv /\ MaxRetries \in Nat /\ token \in Tokens
    BY WebAssumption DEF TabInv, AuthType
  <1>2. query \in QueryType \cup {NoQuery} /\ NoQuery.answer = "none"
    BY <1>1 DEF PageType, QueryType, NoQuery
  <1>3. ASSUME UNCHANGED <<page, query, devices>>, now' = now \/ now' = now + 1
        PROVE  PageType' /\ QueryInv'
    BY <1>1, <1>3, QuerySame DEF PageType
  <1>4. ASSUME query' = NoQuery PROVE QueryInv'
    BY <1>2, <1>4 DEF QueryInv
  <1>5. ASSUME NEW s \in Sockets,
               Upgrade(s) \/ Refuse(s) \/ Drop(s) \/ OnClose(s) \/ \E d \in Devices : updatePosition(s, d)
        PROVE  UNCHANGED <<now, page, query, devices>>
    BY <1>5 DEF Upgrade, Refuse, Drop, OnClose, updatePosition, pages
  <1>6. ASSUME NEW h \in Shells, Reconnect(h) PROVE UNCHANGED <<now, page, query, devices>>
    BY <1>6 DEF Reconnect, pages
  <1>7. CASE Tick \/ Login \/ LoginFailed \/ Logout
    BY <1>3, <1>7 DEF Tick, Login, LoginFailed, Logout, pages
  <1>8. CASE LoggedIn
    <2>1. UNCHANGED <<now, page, query, devices>>
      BY <1>8 DEF LoggedIn
    <2> QED BY <1>1, <2>1, QuerySame DEF PageType
  <1>9. CASE LoginRefused \/ Unauthorized \/ Reload
    <2>1. PICK t \in Tokens : Load(t)
      BY <1>9, LoadFrom
    <2>2. page' = page /\ query' = NoQuery /\ devices' = {}
      BY <2>1 DEF Load
    <2> QED BY <1>1, <1>4, <2>2 DEF PageType
  <1>10. ASSUME NEW p \in Pages, Navigate(p) PROVE PageType' /\ QueryInv'
    <2>1. page' = p /\ UNCHANGED <<now, query, devices>>
      BY <1>10 DEF Navigate
    <2> QED BY <1>1, <2>1, QuerySame DEF PageType
  <1>11. ASSUME NEW p \in Pages, Fetch(p) PROVE PageType' /\ QueryInv'
    <2>1. /\ query' = [page |-> p, token |-> token, answer |-> "sent", tries |-> 0]
          /\ UNCHANGED <<page, devices>>
      BY <1>11 DEF Fetch
    <2>2. 0 \in 0 .. MaxRetries
      BY <1>1
    <2> QED BY <1>1, <2>1, <2>2 DEF PageType, QueryInv
  <1>12. CASE Serve
    <2>1. /\ query.answer = "sent" /\ UNCHANGED <<now, page, devices>>
          /\ \/ query' = [query EXCEPT !.answer = IF Validate(query.token) THEN "200" ELSE "401"]
             \/ query' = [query EXCEPT !.answer = "failed"]
      BY <1>12 DEF Serve
    <2>2. query \in QueryType
      BY <1>2, <2>1
    <2>3. query' \in QueryType /\ query'.token = query.token
      BY <2>1, <2>2 DEF QueryType
    <2>4. /\ query'.answer = "200" => Validate(query.token)
          /\ query'.answer = "401" => ~Validate(query.token)
      BY <2>1, <2>2 DEF QueryType
    <2>5. PageType'
      BY <1>1, <2>1, <2>3 DEF PageType, QueryType
    <2>6. QueryInv'
      BY <2>1, <2>3, <2>4 DEF QueryInv, Validate
    <2> QED BY <2>5, <2>6
  <1>13. CASE Answered
    <2>1. query' = NoQuery /\ UNCHANGED page
      BY <1>13 DEF Answered
    <2>2. devices' = devices \/ devices' = Fleet[query.token.user]
      BY <1>13 DEF Answered, setDevices
    <2>3. devices' \subseteq Devices
      BY <1>1, <1>13, <2>2, NewDevices DEF PageType
    <2> QED BY <1>1, <1>4, <2>1, <2>3 DEF PageType
  <1>14. CASE Resend
    <2>1. /\ query.answer = "failed" /\ UNCHANGED <<page, devices>>
          /\ \/ /\ query.tries < MaxRetries
                /\ query' = [query EXCEPT !.token = token, !.answer = "sent", !.tries = @ + 1]
             \/ query' = NoQuery
      BY <1>14 DEF Resend, Retries
    <2>2. query \in QueryType
      BY <1>2, <2>1
    <2>3. CASE query' # NoQuery
      <3>1. query.tries + 1 \in 0 .. MaxRetries
        BY <1>1, <2>1, <2>2, <2>3 DEF QueryType
      <3>2. query' \in QueryType /\ query'.answer = "sent"
        BY <1>1, <2>1, <2>2, <2>3, <3>1 DEF QueryType
      <3> QED BY <1>1, <2>1, <3>2 DEF PageType, QueryType, QueryInv
    <2>4. CASE query' = NoQuery
      BY <1>1, <1>4, <2>1, <2>4 DEF PageType
    <2> QED BY <2>3, <2>4
  <1> QED BY <1>3, <1>5, <1>6, <1>7, <1>8, <1>9, <1>10, <1>11, <1>12, <1>13, <1>14 DEF Next

-----------------------------------------------------------------------------
LEMMA TabInit ==
  ASSUME Init
  PROVE  TabInv
  <1>1. Connection
    BY EmptyConnection DEF Init
  <1>2. NoToken \in Tokens /\ 0 \in 0 .. MaxTime /\ 0 \in 0 .. MaxFaults
    BY GoneType, WebAssumption
  <1>3. AuthType /\ LoginInv
    BY <1>2 DEF Init, AuthType, LoginInv, NoLogin
  <1>4. PageType
    BY DEF Init, PageType, Pages
  <1>5. QueryInv
    BY DEF Init, QueryInv, NoQuery
  <1> QED BY <1>1, <1>3, <1>4, <1>5 DEF TabInv

LEMMA TabStep ==
  ASSUME TabInv, [Next]_vars
  PROVE  TabInv'
  <1>1. CASE Next
    BY <1>1, ConnectionStep, AuthStep, PageStep DEF TabInv
  <1>2. CASE UNCHANGED vars
    <2>1. UNCHANGED <<now, token, login, page, query, devices, shell, hook, sock, faults>>
      BY <1>2 DEF vars, auth, pages
    <2>2. Connection'
      BY <2>1, SameConnection DEF TabInv
    <2>3. AuthType' /\ PageType' /\ LoginInv'
      BY <2>1 DEF TabInv, AuthType, PageType, LoginInv
    <2>4. QueryInv'
      BY <2>1, QuerySame DEF TabInv
    <2> QED BY <2>2, <2>3, <2>4 DEF TabInv
  <1> QED BY <1>1, <1>2

(* The invariants hold in every reachable state.                           *)
THEOREM TabInvariant == Spec => []TabInv
  BY TabInit, TabStep, PTL DEF Spec

(* Type correctness of the tab: the backoff delay of useWebSocket stays    *)
(* between its initial value and its limit, and a hook never has more than *)
(* one timer.                                                              *)
THEOREM TabTypes == Spec => []TypeOK
  <1>1. TabInv => TypeOK
    BY DEF TabInv, Connection, TypeOK
  <1> QED BY <1>1, TabInvariant, PTL

(* The hook of the mounted AppShell has one socket or one reconnect timer, *)
(* never both and never none, for any number of sockets and mounts and any *)
(* order of close events, timers, logouts and logins.                      *)
THEOREM OneLiveConnection == Spec => []OneConnection
  <1>1. ASSUME TabInv PROVE OneConnection
    <2> SUFFICES ASSUME shell # NoShell PROVE Cardinality(Live(shell)) + hook[shell].timers = 1
      BY DEF OneConnection
    <2>1. Linked
      BY <1>1 DEF TabInv, Connection, LinkInv
    <2>2. CASE Live(shell) = {}
      <3>1. Cardinality(Live(shell)) = 0 /\ hook[shell].timers = 1
        BY <2>1, <2>2, FS_EmptySet DEF Linked
      <3> QED BY <3>1
    <2>3. CASE Live(shell) # {}
      <3>1. PICK s : Live(shell) = {s} /\ hook[shell].timers = 0
        BY <2>1, <2>3 DEF Linked
      <3>2. Cardinality({s}) = 1
        BY FS_Singleton
      <3> QED BY <3>1, <3>2
    <2> QED BY <2>2, <2>3
  <1> QED BY <1>1, TabInvariant, PTL

(* After a logout nothing of the session is open or will be opened again,  *)
(* and what is open carries the token of the user who is logged in: a late *)
(* close event of an earlier mount finds its isUnmounted ref set.          *)
THEOREM SocketsStayOwn == Spec => []SocketsAreOwn
  <1>1. ASSUME TabInv PROVE SocketsAreOwn
    <2>1. \A h \in Shells \ {shell} : hook[h].timers = 0
      BY <1>1 DEF TabInv, Connection, UnmountedInv
    <2>2. ASSUME NEW s \in Sockets, sock[s].state \in {"connecting", "open"}
          PROVE  sock[s].hook = shell /\ sock[s].token = token
      BY <1>1, <2>2, OpenIsOwn DEF TabInv, Connection
    <2> QED BY <2>1, <2>2 DEF SocketsAreOwn
  <1> QED BY <1>1, TabInvariant, PTL

LEMMA ThrownOutStep ==
  ASSUME TabInv, [Next]_vars, ThrownOut
  PROVE  query.answer = "401" /\ (query.token # token \/ ~Validate(token))
  <1>1. token # NoToken /\ token' = NoToken /\ login' = NoLogin /\ query' # query
    BY DEF ThrownOut
  <1>2. QueryInv /\ LoginInv /\ MountedInv
    BY DEF TabInv, Connection
  <1>3. shell # NoShell /\ login = NoLogin
    BY <1>1, <1>2 DEF MountedInv, LoginInv
  <1>4. ASSUME UNCHANGED token PROVE FALSE
    BY <1>1, <1>4
  <1>5. ASSUME UNCHANGED query PROVE FALSE
    BY <1>1, <1>5
  <1>6. ~Reload
    <2>1. Reload => login' = [answer |-> "stored", token |-> token]
      BY <1>1 DEF Reload, Load
    <2> QED BY <1>1, <2>1 DEF NoLogin
  <1>7. ~LoginRefused
    BY <1>3 DEF LoginRefused, Redirect, Refused, NoLogin
  <1>8. ~Logout /\ ~LoggedIn
    BY <1>5 DEF Logout, LoggedIn, pages
  <1>9. Unauthorized
    <2>1. ASSUME Tick \/ Login \/ LoginFailed \/ Serve \/ Answered \/ Resend \/ UNCHANGED vars
          PROVE  UNCHANGED token
      BY <2>1 DEF Tick, Login, LoginFailed, Serve, Answered, Resend, vars, auth
    <2>2. ASSUME NEW s \in Sockets,
                 Upgrade(s) \/ Refuse(s) \/ Drop(s) \/ OnClose(s) \/ \E d \in Devices : updatePosition(s, d)
          PROVE  UNCHANGED token
      BY <2>2 DEF Upgrade, Refuse, Drop, OnClose, updatePosition, auth
    <2>3. ASSUME NEW h \in Shells, Reconnect(h) PROVE UNCHANGED token
      BY <2>3 DEF Reconnect, auth
    <2>4. ASSUME NEW p \in Pages, Navigate(p) \/ Fetch(p) PROVE UNCHANGED token
      BY <2>4 DEF Navigate, Fetch, auth
    <2> QED BY <1>4, <1>6, <1>7, <1>8, <2>1, <2>2, <2>3, <2>4 DEF Next
  <1>10. query.answer = "401"
    BY <1>9 DEF Unauthorized, Redirect, Refused
  <1> QED BY <1>2, <1>10 DEF QueryInv

(* The response interceptor ends a session only for a 401, and the session *)
(* of a token that is still good only for the late answer to a request     *)
(* that was sent with another one.                                         *)
THEOREM SessionsEndByRefusal == Spec => EndedByRefusal
  <1> DEFINE Due == ThrownOut => /\ query.answer = "401"
                                 /\ query.token # token \/ ~Validate(token)
  <1>1. TabInv /\ [Next]_vars => [Due]_vars
    BY ThrownOutStep
  <1> QED BY <1>1, TabInvariant, PTL DEF Spec, EndedByRefusal
=============================================================================
