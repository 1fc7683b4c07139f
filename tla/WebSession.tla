----------------------------- MODULE WebSession -----------------------------
(***************************************************************************)
(* One browser tab of the frontend and the services it talks to: the auth  *)
(* store, the hook useWebSocket with its reconnect timer, the device store *)
(* and the queries of the pages, the JWT check of the REST API and of the  *)
(* live endpoint.                                                          *)
(*                                                                         *)
(* A render and the effects it causes are one step.  Requests, answers,    *)
(* socket events and timers are steps of their own, in any order, as the   *)
(* event loop delivers them.                                               *)
(***************************************************************************)
EXTENDS Integers, FiniteSets, FiniteSetsExt

CONSTANTS
  Users,          \* accounts, each of a tenant of its own
  Fleet,          \* Fleet[u]: devices of the tenant of u
  AccessTTL,      \* life of an access token, 15 minutes in the code
  InitialDelay, MaxDelay,
  MaxRetries,     \* retries of a query, 2 in the code
  MaxSubscribe,   \* devices in a subscription of 512 bytes, 12 in the code
  Shells,         \* mounts of AppShell that exist at the same time
  Sockets,        \* WebSocket objects that exist at the same time
  MaxTime,        \* bound: the clock stops
  MaxFaults       \* bound: failures of the network or of a server

Devices == UNION {Fleet[u] : u \in Users}
Pages   == {"tracking", "others"}

NoToken == [user |-> "nobody", exp |-> 0]
NoShell == 0
NoSocket == 0

ASSUME WebAssumption ==
  /\ AccessTTL \in Nat \ {0} /\ MaxRetries \in Nat /\ MaxTime \in Nat
  /\ InitialDelay \in Nat \ {0} /\ MaxDelay \in Nat /\ InitialDelay <= MaxDelay
  /\ MaxSubscribe \in Nat /\ MaxFaults \in Nat
  /\ Shells \subseteq Nat \ {0} /\ Sockets \subseteq Nat \ {0}
  /\ NoToken.user \notin Users

VARIABLES
  now,            \* clock of the servers
  token,          \* accessToken, also in localStorage and in the default header
  login,          \* the login request and the token in its answer, or a token
                  \* that a page load finds "stored"
  page,           \* the route below AppShell
  query,          \* the request of a page in flight
  devices,        \* deviceStore.devices: its keys
  shell,          \* the mounted AppShell
  hook,           \* hook[h]: refs of the useWebSocket of mount h, the token its
                  \* connect closes over and the number of pending timers
  sock,           \* the WebSocket objects
  faults

auth   == <<token, login>>
pages  == <<page, query>>
vars == <<now, auth, pages, devices, shell, hook, sock, faults>>

Tokens  == [user : Users, exp : 1 .. MaxTime + AccessTTL] \cup {NoToken}
NoLogin == [answer |-> "none", token |-> NoToken]
NoQuery == [page |-> "none", token |-> NoToken, answer |-> "none", tries |-> 0]
Gone    == [isUnmounted |-> TRUE, accessToken |-> NoToken, timers |-> 0,
            reconnectDelay |-> InitialDelay, ws |-> NoSocket]
Free    == [hook |-> NoShell, token |-> NoToken, state |-> "free", filter |-> {}]

Init ==
  /\ now = 0 /\ token = NoToken /\ login = NoLogin
  /\ page = "tracking"
  /\ query = NoQuery /\ devices = {}
  /\ shell = NoShell
  /\ hook = [h \in Shells |-> Gone]
  /\ sock = [s \in Sockets |-> Free]
  /\ faults = 0

(* sign and Validate of pkg/auth: a token is good until it expires.  There *)
(* is no other state, so nothing can revoke one.                           *)
sign(u)     == [user |-> u, exp |-> now + AccessTTL]
Validate(t) == t # NoToken /\ now < t.exp

Tick ==
  /\ now < MaxTime /\ now' = now + 1
  /\ UNCHANGED <<auth, pages, devices, shell, hook, sock, faults>>

Fault == faults < MaxFaults /\ faults' = faults + 1

-----------------------------------------------------------------------------
(* useWebSocket.                                                           *)

(* Which free slot an object takes makes no difference.                    *)
Slots     == {s \in Sockets : sock[s] = Free}
Live(h)   == {s \in Sockets : sock[s] # Free /\ sock[s].hook = h}
Unused    == {h \in Shells : hook[h] = Gone}

(* new WebSocket: the filter is empty, all devices of the tenant.          *)
Opening(h, t) == [hook |-> h, token |-> t, state |-> "connecting", filter |-> {}]
Closing(s)    == [sock EXCEPT ![s].state = "closing", ![s].filter = {}]

(* A hook no event can reach any more is garbage.                          *)
Collected(h, r, sockets) ==
  [hook EXCEPT ![h] = IF r.isUnmounted /\ r.timers = 0 /\ sockets = {} THEN Gone ELSE r]

(* The effect of useWebSocket when AppShell is mounted with token t, with  *)
(* fresh refs.                                                             *)
Mount(t) ==
  /\ Unused # {} /\ Slots # {}
  /\ shell' = Min(Unused)
  /\ hook' = [hook EXCEPT ![shell'] = [Gone EXCEPT !.isUnmounted = FALSE,
                                       !.accessToken = t, !.ws = Min(Slots)]]
  /\ sock' = [sock EXCEPT ![Min(Slots)] = Opening(shell', t)]

(* Mutant: the cleanup does not set isUnmounted.                           *)
CleanupForgets(h) ==
  /\ hook' = Collected(h, [hook[h] EXCEPT !.timers = Max({@ - 1, 0})], Live(h))
  /\ sock' = IF hook[h].ws = NoSocket THEN sock ELSE Closing(hook[h].ws)

(* The cleanup of the effect, run when AppShell is unmounted.              *)
Cleanup(h) ==
  /\ hook' = Collected(h, [hook[h] EXCEPT !.isUnmounted = TRUE,
                                          !.timers = Max({@ - 1, 0})], Live(h))
  /\ sock' = IF hook[h].ws = NoSocket THEN sock ELSE Closing(hook[h].ws)

(* ServeWS validates the token and upgrades, onopen starts the backoff     *)
(* over.                                                                   *)
Upgrade(s) ==
  /\ sock[s].state = "connecting" /\ Validate(sock[s].token)
  /\ sock' = [sock EXCEPT ![s].state = "open"]
  /\ hook' = [hook EXCEPT ![sock[s].hook].reconnectDelay = InitialDelay]
  /\ UNCHANGED <<now, auth, pages, devices, shell, faults>>

(* ServeWS answers 401, the browser fires onerror, which calls close.      *)
Refuse(s) ==
  /\ sock[s].state = "connecting" /\ ~Validate(sock[s].token)
  /\ sock' = Closing(s)
  /\ UNCHANGED <<now, auth, pages, devices, shell, hook, faults>>

(* Mutant: onerror reconnects as well, although onclose will.              *)
DropReconnects(s) ==
  /\ sock[s].state \in {"connecting", "open"} /\ Fault
  /\ sock' = Closing(s)
  /\ hook' = [hook EXCEPT ![sock[s].hook].timers = 1]
  /\ UNCHANGED <<now, auth, pages, devices, shell>>

(* The connection fails or is lost: the service stops, its hub unregisters *)
(* the client, the network breaks.                                         *)
Drop(s) ==
  /\ sock[s].state \in {"connecting", "open"} /\ Fault
  /\ sock' = Closing(s)
  /\ UNCHANGED <<now, auth, pages, devices, shell, hook>>

(* Mutant: the delay is not limited.                                       *)
BackoffUnlimited(delay) == delay * 2
Backoff(delay)          == Min({delay * 2, MaxDelay})

(* onclose.                                                                *)
OnClose(s) ==
  LET h == sock[s].hook
      closed == [hook[h] EXCEPT !.ws = IF @ = s THEN NoSocket ELSE @] IN
  /\ sock[s].state = "closing"
  /\ sock' = [sock EXCEPT ![s] = Free]
  /\ hook' = IF hook[h].isUnmounted
             THEN Collected(h, closed, Live(h) \ {s})
             ELSE [hook EXCEPT ![h] = [closed EXCEPT !.timers = @ + 1,
                                                     !.reconnectDelay = Backoff(@)]]
  /\ UNCHANGED <<now, auth, pages, devices, shell, faults>>

(* A new socket of hook h, with the token its closure holds.               *)
connect(h) ==
  /\ Slots # {}
  /\ hook' = [hook EXCEPT ![h].timers = @ - 1, ![h].ws = Min(Slots)]
  /\ sock' = [sock EXCEPT ![Min(Slots)] = Opening(h, hook[h].accessToken)]

(* Mutant: it gives up once the delay has reached its limit.               *)
ReconnectGivesUp(h) ==
  /\ hook[h].timers > 0 /\ ~hook[h].isUnmounted
  /\ hook[h].reconnectDelay < MaxDelay
  /\ connect(h)
  /\ UNCHANGED <<now, auth, pages, devices, shell, faults>>

(* The timer fires.  (It has no effect after the cleanup, which leaves no  *)
(* timer.)                                                                 *)
Reconnect(h) ==
  /\ hook[h].timers > 0 /\ ~hook[h].isUnmounted
  /\ connect(h)
  /\ UNCHANGED <<now, auth, pages, devices, shell, faults>>

-----------------------------------------------------------------------------
(* The device store.  Every change of devices runs the effect of AppShell  *)
(* that sends the ids of all devices, if the socket is open.  The hub      *)
(* replaces the client's filter, or closes a connection whose message is   *)
(* too long.                                                               *)

subscribe(ids) ==
  LET s == IF shell = NoShell THEN NoSocket ELSE hook[shell].ws IN
  sock' = IF s = NoSocket \/ sock[s].state # "open" THEN sock
          ELSE IF Cardinality(ids) > MaxSubscribe THEN Closing(s)
          ELSE [sock EXCEPT ![s].filter = ids]

(* Mutant: a new list is merged into the devices already there.            *)
setDevicesMerged(list) == devices' = devices \cup list /\ subscribe(devices')

setDevices(list) == devices' = list /\ subscribe(list)

(* onmessage with a position of device d.  A device that is not in the     *)
(* store is ignored.  Otherwise devices is a new object with the same      *)
(* keys.                                                                   *)
updatePosition(s, d) ==
  /\ sock[s].state = "open" /\ d \in Fleet[sock[s].token.user]
  /\ sock[s].filter = {} \/ d \in sock[s].filter
  /\ d \in devices
  /\ subscribe(devices)
  /\ UNCHANGED <<now, auth, pages, devices, shell, hook, faults>>

-----------------------------------------------------------------------------
(* Pages and their queries.  Bound: one request is in flight at a time.    *)

Navigate(p) ==
  /\ shell # NoShell /\ page # p /\ page' = p
  /\ UNCHANGED <<now, auth, query, devices, shell, hook, sock, faults>>

(* The page is mounted, or its refetchInterval has passed.  The tracking   *)
(* page polls; the others are the alerts, which poll as well, the fleet    *)
(* and the settings, between which the user may go at any time.            *)
Fetch(p) ==
  /\ shell # NoShell /\ page = p /\ query = NoQuery
  /\ query' = [page |-> p, token |-> token, answer |-> "sent", tries |-> 0]
  /\ UNCHANGED <<now, auth, page, devices, shell, hook, sock, faults>>

(* The API checks the token of the request when it is served.              *)
Serve ==
  /\ query.answer = "sent"
  /\ \/ /\ query' = [query EXCEPT !.answer =
                       IF Validate(query.token) THEN "200" ELSE "401"]
        /\ UNCHANGED faults
     \/ Fault /\ query' = [query EXCEPT !.answer = "failed"]
  /\ UNCHANGED <<now, auth, page, devices, shell, hook, sock>>

(* The answer arrives, whoever is logged in by then.  Only the query of    *)
(* the device panel writes the store.                                      *)
Answered ==
  /\ query.answer = "200" /\ query' = NoQuery
  /\ IF query.page = "tracking" THEN setDevices(Fleet[query.token.user])
                                ELSE UNCHANGED <<devices, sock>>
  /\ UNCHANGED <<now, auth, page, shell, hook, faults>>

(* A failed request is sent again with the header of that time while its   *)
(* page is mounted; one of the others may have been left for another.      *)
Retries == query.tries < MaxRetries /\ shell # NoShell /\ page = query.page

Resend ==
  /\ query.answer = "failed"
  /\ \/ /\ Retries
        /\ query' = [query EXCEPT !.token = token, !.answer = "sent", !.tries = @ + 1]
     \/ /\ Retries => page = "others"
        /\ query' = NoQuery
  /\ UNCHANGED <<now, auth, page, devices, shell, hook, sock, faults>>

(* A page load: nothing of the tab is left but the token t in              *)
(* localStorage.                                                           *)
Load(t) ==
  /\ token' = NoToken
  /\ login' = IF t = NoToken THEN NoLogin ELSE [answer |-> "stored", token |-> t]
  /\ query' = NoQuery /\ devices' = {}
  /\ shell' = NoShell /\ sock' = [s \in Sockets |-> Free]
  /\ hook' = [h \in Shells |-> Gone]
  /\ UNCHANGED <<now, page, faults>>

(* The user loads the page again.                                          *)
Reload == shell # NoShell /\ Load(token)

(* The refused statuses.  Mutant: any error sends the user to the login.   *)
RefusedAny == {"401", "failed"}
Refused    == {"401"}

(* Mutant: localStorage is cleared, but the page is not loaded again.      *)
RedirectStays(answer) ==
  /\ answer \in Refused
  /\ login' = NoLogin /\ query' = NoQuery
  /\ UNCHANGED <<now, token, page, devices, shell, hook, sock, faults>>

(* The response interceptor of the API client.                             *)
Redirect(answer) == answer \in Refused /\ Load(NoToken)

Unauthorized == Redirect(query.answer)

-----------------------------------------------------------------------------
(* The auth store and the login page.                                      *)

(* The login form is sent and Login of the API serves it: the credentials  *)
(* are those of a user, or are wrong.                                      *)
Login ==
  /\ token = NoToken /\ login = NoLogin
  /\ \/ /\ \E u \in Users : login' = [answer |-> "200", token |-> sign(u)]
        /\ UNCHANGED faults
     \/ login' = [login EXCEPT !.answer = "401"] /\ UNCHANGED faults
     \/ login' = [login EXCEPT !.answer = "failed"] /\ Fault
  /\ UNCHANGED <<now, token, pages, devices, shell, hook, sock>>

(* The store takes the token of the answer, or the one in localStorage,    *)
(* and App renders AppShell.                                               *)
LoggedIn ==
  /\ login.answer \in {"200", "stored"}
  /\ token' = login.token /\ login' = NoLogin
  /\ Mount(login.token)
  /\ UNCHANGED <<now, page, query, devices, faults>>

LoginFailed ==
  /\ login.answer = "failed" /\ login' = NoLogin
  /\ UNCHANGED <<now, token, pages, devices, shell, hook, sock, faults>>

LoginRefused == Redirect(login.answer)

(* logout: AppShell is unmounted; the device store and the queries stay.   *)
Logout ==
  /\ shell # NoShell
  /\ token' = NoToken /\ shell' = NoShell
  /\ Cleanup(shell)
  /\ UNCHANGED <<now, login, pages, devices, faults>>

-----------------------------------------------------------------------------
Next ==
  \/ Tick \/ Login \/ LoggedIn \/ LoginFailed \/ LoginRefused
  \/ Logout \/ Reload
  \/ \E s \in Sockets : \/ Upgrade(s) \/ Refuse(s) \/ Drop(s) \/ OnClose(s)
                        \/ \E d \in Devices : updatePosition(s, d)
  \/ \E h \in Shells : Reconnect(h)
  \/ \E p \in Pages : Navigate(p) \/ Fetch(p)
  \/ Serve \/ Answered \/ Resend \/ Unauthorized

Spec == Init /\ [][Next]_vars

(* The event loop runs the handler of an event that has happened and of a  *)
(* timer that is due, the servers answer, and the interval of the tracking *)
(* page's query passes, which takes a visible tab: react-query does not    *)
(* poll in the background.  Nothing is assumed of the user, of the clock   *)
(* or of the network.                                                      *)
FairSpec ==
  /\ Spec
  /\ \A s \in Sockets : WF_vars(Upgrade(s) \/ Refuse(s)) /\ WF_vars(OnClose(s))
  /\ \A h \in Shells : WF_vars(Reconnect(h))
  /\ WF_vars(Serve) /\ WF_vars(Answered \/ Resend \/ Unauthorized)
  /\ WF_vars(Fetch("tracking"))

-----------------------------------------------------------------------------
SocketType == [hook : Shells, token : Tokens \ {NoToken},
               state : {"connecting", "open", "closing"},
               filter : SUBSET Devices] \cup {Free}

AuthType ==
  /\ now \in 0 .. MaxTime /\ faults \in 0 .. MaxFaults
  /\ token \in Tokens
  /\ login \in [answer : {"none", "200", "401", "failed", "stored"},
                token : Tokens]

PageType ==
  /\ page \in Pages
  /\ query \in [page : Pages, token : Tokens, tries : 0 .. MaxRetries,
                answer : {"sent", "200", "401", "failed"}] \cup {NoQuery}
  /\ devices \subseteq Devices

HookType == [isUnmounted : BOOLEAN, accessToken : Tokens,
             reconnectDelay : InitialDelay .. MaxDelay,
             timers : 0 .. 1, ws : Sockets \cup {NoSocket}]

ConnectionType ==
  /\ shell \in Shells \cup {NoShell}
  /\ hook \in [Shells -> HookType]
  /\ sock \in [Sockets -> SocketType]

(* The state of the tab.  The delay between two attempts (useWebSocket.ts  *)
(* 78) is within its limits, whatever the sequence of openings and losses. *)
TypeOK == AuthType /\ PageType /\ ConnectionType

(* While AppShell is mounted its hook has one socket or one reconnect      *)
(* timer, never both, never two and never none: no sequence of failures,   *)
(* late close events and logins doubles the live connection or loses it    *)
(* (useWebSocket.ts 72-82, AppShell.tsx 20).                               *)
OneConnection ==
  shell # NoShell => Cardinality(Live(shell)) + hook[shell].timers = 1

(* After a logout no socket of the session that ended is open or being     *)
(* opened and none will be: a close event that comes after the logout, or  *)
(* after the next login, starts no timer (useWebSocket.ts 73 and 99-103).  *)
(* What is open belongs to the user who is logged in.                      *)
SocketsAreOwn ==
  /\ \A h \in Shells \ {shell} : hook[h].timers = 0
  /\ \A s \in Sockets : sock[s].state \in {"connecting", "open"} =>
       sock[s].hook = shell /\ sock[s].token = token

(* A page load that ends a session (client.ts 15-19) is due to a 401, and  *)
(* one that ends a session whose token is good is due to the late answer   *)
(* to a request of another session.                                        *)
ThrownOut ==
  /\ token # NoToken /\ token' = NoToken /\ login' = NoLogin
  /\ query' = NoQuery /\ query # query'
EndedByRefusal ==
  [][ThrownOut => /\ query.answer = "401"
                  /\ query.token # token \/ ~Validate(token)]_vars

AtTracking(u) == /\ shell # NoShell /\ page = "tracking"
                 /\ token.user = u /\ Validate(token)
ShowsLive(u) ==
  /\ devices = Fleet[u]
  /\ \E s \in Sockets : /\ sock[s].state = "open" /\ sock[s].token = token
                        /\ sock[s].filter = {} \/ Fleet[u] \subseteq sock[s].filter

(* A user who stays at the tracking page ends up with the devices of the   *)
(* own tenant and a connection that feeds all of them, whatever an earlier *)
(* session of the tab left in the stores or had in flight (deviceStore.ts  *)
(* 46, AppShell.tsx 28, DevicePanel.tsx 15), if the fleet fits into one    *)
(* subscription.                                                           *)
FleetGoesLive ==
  \A u \in Users : Cardinality(Fleet[u]) <= MaxSubscribe =>
    (AtTracking(u) ~> (ShowsLive(u) \/ ~AtTracking(u)))

(* A mounted session with a good token gets its connection back after any  *)
(* failure, on every page and for every fleet (useWebSocket.ts 75-81).     *)
Connected == \E s \in Sockets : sock[s].state = "open"
Session   == shell # NoShell /\ Validate(token)
ComesBack == (Session /\ ~Connected) ~> (Connected \/ ~Session)

(* A tracking page whose token has expired does not stay: the next         *)
(* refetch is refused and the tab goes to the login page (client.ts 15).   *)
Expired == shell # NoShell /\ ~Validate(token) /\ page = "tracking"
ExpiredLeaves == Expired ~> ~Expired

(* hub.go 148 "Handle subscription updates" and useWebSocket.ts 89         *)
(* "Subscribe to specific devices": subscribing does not cost the          *)
(* connection.                                                             *)
SubscribeIsHandled ==
  [][\A s \in Sockets : (sock[s].state = "open" /\ devices' # devices) =>
       sock'[s].state # "closing"]_vars
=============================================================================
