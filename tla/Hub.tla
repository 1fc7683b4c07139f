-------------------------------- MODULE Hub --------------------------------
(***************************************************************************)
(* The WebSocket fan-out of websocket-service: Hub.Run, the two pumps of   *)
(* every client, and the Redis Pub/Sub consumer that feeds the hub.        *)
(*                                                                         *)
(* Goroutines: one Run loop, one Subscribe loop (the consumer), and for    *)
(* every client a handler (ServeWS, whose body is ReadPump), a WritePump   *)
(* and any number of the one-shot goroutines "go h.unregister <- c" that   *)
(* Run starts for a client whose send buffer is full.                      *)
(*                                                                         *)
(* A member of Clients is one *Client, allocated by one call of Register   *)
(* and never reused.  A message is its position in published, the order    *)
(* in which the consumer received it from Redis.                           *)
(***************************************************************************)
EXTENDS Naturals, Sequences, FiniteSets

CONSTANTS
  Clients,        \* the *Client values that may be allocated
  Tenants,        \* tenant ids, the empty string not among them
  Devices,        \* device ids
  Channels,       \* the Redis channel families Redis delivers on
  Tenant,         \* Tenant[c]: TenantID in the claims of the token c presents
  Endpoint,       \* Endpoint[c]: "live" (/ws/v1/live) or "alerts" (/ws/v1/alerts)
  RegisterCap, UnregisterCap, BroadcastCap, SendCap,   \* channel capacities
  MaxPublished    \* bound: messages Redis delivers

ASSUME ClientAssumption ==
  /\ Tenant \in [Clients -> Tenants]
  /\ Endpoint \in [Clients -> {"live", "alerts"}]
  /\ Channels \subseteq {"device", "alerts"}

ASSUME CapAssumption ==
  /\ RegisterCap \in Nat \ {0}
  /\ UnregisterCap \in Nat \ {0}
  /\ BroadcastCap \in Nat \ {0}
  /\ SendCap \in Nat \ {0}
  /\ MaxPublished \in Nat

VARIABLES
  clients,        \* Hub.clients
  register,       \* Hub.register, a buffered channel of clients
  unregister,     \* Hub.unregister, a buffered channel of clients
  broadcast,      \* Hub.broadcast, a buffered channel of messages
  run,            \* Run: at its "select", in a "broadcast" loop, "stopped" or "panicked"
  todo,           \* clients the broadcast loop has not visited yet
  cur,            \* the message of the broadcast loop
  pc,             \* pc[c]: the handler goroutine of c
  wp,             \* wp[c]: the WritePump goroutine of c
  drops,          \* drops[c]: pending "go h.unregister <- c" goroutines
  devices,        \* Client.devices
  send,           \* contents of Client.send
  chan,           \* whether Client.send is made ("open") and closed
  conn,           \* Client.conn
  consumer,       \* the Subscribe loop
  cancelled,      \* ctx has been cancelled by main
  published,      \* history: every message received from Redis
  delivered,      \* history: delivered[c], what WritePump wrote to c's socket
  due             \* history: due[c], what c was subscribed to when Run took it

hubVars      == <<clients, register, unregister, broadcast>>
runVars      == <<run, todo, cur>>
clientVars   == <<pc, wp, drops, devices, send, chan, conn>>
consumerVars == <<consumer, cancelled, published>>
history      == <<delivered, due>>
vars == <<hubVars, runVars, clientVars, consumerVars, history>>

Messages == 1 .. MaxPublished
NoMsg    == 0

(* The Redis channels the consumer subscribes to, and the payload's        *)
(* device_id, the empty string when the payload has none.                  *)
RedisMessage == [channel : Channels, tenant : Tenants,
                 device : Devices \cup {""}]

(* The hub tenant a handler registers its client under: the token's tenant *)
(* for the live endpoint, tenant + "_alerts" for the alerts endpoint.      *)
HubTenant(c) == <<Tenant[c], IF Endpoint[c] = "alerts" THEN "_alerts" ELSE "">>

(* handleMessage cuts the channel name at len("pubsub:device:"), which is  *)
(* also len("pubsub:alerts:"): the tenant id is the suffix of either.      *)
MsgTenant(m) == <<published[m].tenant, "">>

(* The filter of the broadcast loop.                                       *)
Matches(c, m) ==
  /\ HubTenant(c) = MsgTenant(m)
  /\ devices[c] = {} \/ published[m].device \in devices[c]

-----------------------------------------------------------------------------
Init ==
  /\ clients = {}
  /\ register = <<>> /\ unregister = <<>> /\ broadcast = <<>>
  /\ run = "select" /\ todo = {} /\ cur = NoMsg
  /\ pc = [c \in Clients |-> "new"]
  /\ wp = [c \in Clients |-> "none"]
  /\ drops = [c \in Clients |-> 0]
  /\ devices = [c \in Clients |-> {}]
  /\ send = [c \in Clients |-> <<>>]
  /\ chan = [c \in Clients |-> "none"]
  /\ conn = [c \in Clients |-> "none"]
  /\ consumer = "running" /\ cancelled = FALSE /\ published = <<>>
  /\ delivered = [c \in Clients |-> <<>>]
  /\ due = [c \in Clients |-> <<>>]

(* The room a send on a buffered channel waits for.                        *)
Room(ch, cap) == Len(ch) < cap

-----------------------------------------------------------------------------
(* The handler goroutine: ServeWS, then ReadPump.                          *)

(* The deviceFilter of a new client: the live endpoint's ?devices= list,   *)
(* nil at the alerts endpoint.                                             *)
Filters(c) == IF Endpoint[c] = "alerts" THEN {{}} ELSE SUBSET Devices

(* ServeWS after a valid token and a successful upgrade: Register          *)
(* allocates the client and waits for room in the register channel; then   *)
(* WritePump is started and ReadPump entered.                              *)
Register(c) ==
  /\ pc[c] = "new"
  /\ Room(register, RegisterCap)
  /\ register' = Append(register, c)
  /\ \E f \in Filters(c) : devices' = [devices EXCEPT ![c] = f]
  /\ chan' = [chan EXCEPT ![c] = "open"]
  /\ conn' = [conn EXCEPT ![c] = "open"]
  /\ pc' = [pc EXCEPT ![c] = "reading"]
  /\ wp' = [wp EXCEPT ![c] = "running"]
  /\ UNCHANGED <<clients, unregister, broadcast, drops, send>>
  /\ UNCHANGED <<runVars, consumerVars, history>>

(* Mutant: the filter is replaced without taking h.mu.                     *)
MuNotTaken == TRUE

(* Run holds h.mu for reading during a whole broadcast loop; a writer      *)
(* waits for it.                                                           *)
MuFree == run # "broadcast"

(* ReadPump receives {"action":"subscribe"}: the filter is replaced under  *)
(* h.mu.  Any other text leaves the client as it is.                       *)
Subscribe(c) ==
  /\ pc[c] = "reading" /\ conn[c] = "open"
  /\ MuFree
  /\ \E f \in SUBSET Devices : devices' = [devices EXCEPT ![c] = f]
  /\ UNCHANGED <<pc, wp, drops, send, chan, conn>>
  /\ UNCHANGED <<hubVars, runVars, consumerVars, history>>

(* ReadMessage fails: the peer left, sent more than 512 bytes, or this     *)
(* side closed the connection.  The deferred function comes next.          *)
ReadFails(c) ==
  /\ pc[c] = "reading"
  /\ pc' = [pc EXCEPT ![c] = "unregistering"]
  /\ UNCHANGED <<wp, drops, devices, send, chan, conn>>
  /\ UNCHANGED <<hubVars, runVars, consumerVars, history>>

(* The deferred Unregister waits for room, then the connection is closed.  *)
Unregister(c) ==
  /\ pc[c] = "unregistering"
  /\ Room(unregister, UnregisterCap)
  /\ unregister' = Append(unregister, c)
  /\ pc' = [pc EXCEPT ![c] = "closing"]
  /\ UNCHANGED <<clients, register, broadcast, wp, drops, devices, send, chan, conn>>
  /\ UNCHANGED <<runVars, consumerVars, history>>

CloseConn(c) ==
  /\ pc[c] = "closing"
  /\ pc' = [pc EXCEPT ![c] = "done"]
  /\ conn' = [conn EXCEPT ![c] = "closed"]
  /\ UNCHANGED <<wp, drops, devices, send, chan>>
  /\ UNCHANGED <<hubVars, runVars, consumerVars, history>>

-----------------------------------------------------------------------------
(* The WritePump goroutine.                                                *)

(* One message is taken from the channel and written.                      *)
WriteMessage(c) ==
  /\ wp[c] = "running" /\ send[c] # <<>> /\ conn[c] = "open"
  /\ send' = [send EXCEPT ![c] = Tail(@)]
  /\ delivered' = [delivered EXCEPT ![c] = Append(@, Head(send[c]))]
  /\ UNCHANGED <<pc, wp, drops, devices, chan, conn, due>>
  /\ UNCHANGED <<hubVars, runVars, consumerVars>>

(* The write fails (10 s deadline, broken or closed connection): the       *)
(* message is lost, the loop ends and the connection is closed.            *)
WriteFails(c) ==
  /\ wp[c] = "running" /\ send[c] # <<>>
  /\ send' = [send EXCEPT ![c] = Tail(@)]
  /\ wp' = [wp EXCEPT ![c] = "done"]
  /\ conn' = [conn EXCEPT ![c] = "closed"]
  /\ UNCHANGED <<pc, drops, devices, chan>>
  /\ UNCHANGED <<hubVars, runVars, consumerVars, history>>

(* Mutant: WritePump without its deferred conn.Close.                      *)
WriteEndsLeavingConn(c) ==
  /\ wp[c] = "running" /\ send[c] = <<>> /\ chan[c] = "closed"
  /\ wp' = [wp EXCEPT ![c] = "done"]
  /\ UNCHANGED <<pc, drops, devices, send, chan, conn>>
  /\ UNCHANGED <<hubVars, runVars, consumerVars, history>>

(* The channel is closed and drained: "range" ends.                        *)
WriteEnds(c) ==
  /\ wp[c] = "running" /\ send[c] = <<>> /\ chan[c] = "closed"
  /\ wp' = [wp EXCEPT ![c] = "done"]
  /\ conn' = [conn EXCEPT ![c] = "closed"]
  /\ UNCHANGED <<pc, drops, devices, send, chan>>
  /\ UNCHANGED <<hubVars, runVars, consumerVars, history>>

WritePump(c) == WriteMessage(c) \/ WriteFails(c) \/ WriteEnds(c)

-----------------------------------------------------------------------------
(* Run: a select over four channels, one case per action.                  *)

RunStop ==
  /\ run = "select" /\ cancelled
  /\ run' = "stopped"
  /\ UNCHANGED <<todo, cur, hubVars, clientVars, consumerVars, history>>

RunRegister ==
  /\ run = "select" /\ register # <<>>
  /\ register' = Tail(register)
  /\ clients' = clients \cup {Head(register)}
  /\ UNCHANGED <<unregister, broadcast>>
  /\ UNCHANGED <<runVars, clientVars, consumerVars, history>>

(* close(client.send); closing a closed channel panics.                    *)
CloseSend(c) ==
  /\ chan' = [chan EXCEPT ![c] = "closed"]
  /\ run' = IF chan[c] = "closed" THEN "panicked" ELSE run

(* Mutant: the membership test is missing.                                 *)
RemoveClientUnchecked(c) == clients' = clients \ {c} /\ CloseSend(c)

(* Only a client that is in the map is deleted and its channel closed.     *)
RemoveClient(c) ==
  \/ /\ c \in clients
     /\ clients' = clients \ {c}
     /\ CloseSend(c)
  \/ /\ c \notin clients
     /\ UNCHANGED <<clients, chan, run>>

RunUnregister ==
  /\ run = "select" /\ unregister # <<>>
  /\ unregister' = Tail(unregister)
  /\ RemoveClient(Head(unregister))
  /\ UNCHANGED <<register, broadcast, todo, cur>>
  /\ UNCHANGED <<pc, wp, drops, devices, send, conn>>
  /\ UNCHANGED <<consumerVars, history>>

(* A message is taken and the loop over the clients starts.  The history   *)
(* due notes who is entitled to it by the subscriptions of this moment.    *)
RunTake ==
  /\ run = "select" /\ broadcast # <<>>
  /\ broadcast' = Tail(broadcast)
  /\ cur' = Head(broadcast)
  /\ todo' = clients
  /\ run' = "broadcast"
  /\ due' = [c \in Clients |->
               IF c \in clients /\ Matches(c, Head(broadcast))
               THEN Append(due[c], Head(broadcast)) ELSE due[c]]
  /\ UNCHANGED <<clients, register, unregister, delivered>>
  /\ UNCHANGED <<clientVars, consumerVars>>

(* Mutant: Run itself sends on the unregister channel.                     *)
DropSlowInline(c) ==
  /\ Room(unregister, UnregisterCap)
  /\ unregister' = Append(unregister, c)
  /\ UNCHANGED <<send, drops, run>>

(* Mutant: the message is dropped and the client kept.                     *)
DropSlowOnly(c) == UNCHANGED <<send, drops, unregister, run>>

(* The buffer is full: the message is dropped for c and a goroutine is     *)
(* started that will put c on the unregister channel.                      *)
DropSlow(c) ==
  /\ drops' = [drops EXCEPT ![c] = @ + 1]
  /\ UNCHANGED <<send, unregister, run>>

(* The non-blocking send of the loop; a send on a closed channel panics.   *)
Deliver(c) ==
  \/ /\ chan[c] = "closed"
     /\ run' = "panicked"
     /\ UNCHANGED <<send, drops, unregister>>
  \/ /\ chan[c] = "open"
     /\ Room(send[c], SendCap)
     /\ send' = [send EXCEPT ![c] = Append(@, cur)]
     /\ UNCHANGED <<drops, unregister, run>>
  \/ /\ chan[c] = "open"
     /\ ~Room(send[c], SendCap)
     /\ DropSlow(c)

(* One iteration of the loop; the map is visited in no fixed order.        *)
RunDeliver(c) ==
  /\ run = "broadcast" /\ c \in todo
  /\ todo' = todo \ {c}
  /\ \/ Matches(c, cur) /\ Deliver(c)
     \/ ~Matches(c, cur) /\ UNCHANGED <<send, drops, unregister, run>>
  /\ UNCHANGED <<clients, register, broadcast, cur>>
  /\ UNCHANGED <<pc, wp, devices, chan, conn>>
  /\ UNCHANGED <<consumerVars, history>>

RunLoopEnd ==
  /\ run = "broadcast" /\ todo = {}
  /\ run' = "select" /\ cur' = NoMsg
  /\ UNCHANGED <<todo, hubVars, clientVars, consumerVars, history>>

(* One of the goroutines started by DropSlow gets its send through.        *)
DropSend(c) ==
  /\ drops[c] > 0
  /\ Room(unregister, UnregisterCap)
  /\ drops' = [drops EXCEPT ![c] = @ - 1]
  /\ unregister' = Append(unregister, c)
  /\ UNCHANGED <<clients, register, broadcast>>
  /\ UNCHANGED <<pc, wp, devices, send, chan, conn>>
  /\ UNCHANGED <<runVars, consumerVars, history>>

-----------------------------------------------------------------------------
(* The consumer goroutine, and main's shutdown.                            *)

(* Mutant: the broadcast channel has no bound.                             *)
HandleMessageUnbounded ==
  /\ consumer = "running"
  /\ Len(published) < MaxPublished
  /\ \E msg \in RedisMessage : published' = Append(published, msg)
  /\ broadcast' = Append(broadcast, Len(published) + 1)
  /\ UNCHANGED <<clients, register, unregister, consumer, cancelled>>
  /\ UNCHANGED <<runVars, clientVars, history>>

(* handleMessage: Broadcast waits for room in the broadcast channel.  What *)
(* the consumer holds while it waits nobody else can see, so a message     *)
(* counts as received when the send succeeds.                              *)
HandleMessage ==
  /\ consumer = "running"
  /\ Len(published) < MaxPublished
  /\ Room(broadcast, BroadcastCap)
  /\ \E msg \in RedisMessage : published' = Append(published, msg)
  /\ broadcast' = Append(broadcast, Len(published) + 1)
  /\ UNCHANGED <<clients, register, unregister, consumer, cancelled>>
  /\ UNCHANGED <<runVars, clientVars, history>>

ConsumerStop ==
  /\ consumer = "running" /\ cancelled
  /\ consumer' = "stopped"
  /\ UNCHANGED <<cancelled, published, hubVars, runVars, clientVars, history>>

(* SIGTERM: main cancels ctx.  The handlers' r.Context() is not derived    *)
(* from it, so the pumps do not see it.                                    *)
Shutdown ==
  /\ ~cancelled
  /\ cancelled' = TRUE
  /\ UNCHANGED <<consumer, published, hubVars, runVars, clientVars, history>>

Next ==
  \/ RunStop \/ RunRegister \/ RunUnregister \/ RunTake \/ RunLoopEnd
  \/ HandleMessage \/ ConsumerStop \/ Shutdown
  \/ \E c \in Clients :
       \/ RunDeliver(c) \/ DropSend(c)
       \/ Register(c) \/ Subscribe(c) \/ ReadFails(c) \/ Unregister(c)
       \/ CloseConn(c) \/ WriteMessage(c) \/ WriteFails(c) \/ WriteEnds(c)

Spec == Init /\ [][Next]_vars

(* What the Go runtime gives: Run takes every case of its select that      *)
(* stays ready (a ready case is chosen at random), a loop iteration and a  *)
(* goroutine whose channel send stays possible are eventually executed, a  *)
(* write ends within its deadline, and a read on a connection that this    *)
(* side closed fails.  Nobody promises that a peer or Redis does anything. *)
Fairness ==
  /\ WF_vars(RunRegister) /\ WF_vars(RunUnregister)
  /\ WF_vars(RunTake) /\ WF_vars(RunLoopEnd)
  /\ \A c \in Clients :
       /\ WF_vars(RunDeliver(c)) /\ WF_vars(DropSend(c))
       /\ WF_vars(WritePump(c)) /\ WF_vars(Unregister(c)) /\ WF_vars(CloseConn(c))
       /\ WF_vars(conn[c] = "closed" /\ ReadFails(c))

FairSpec == Spec /\ Fairness
-----------------------------------------------------------------------------
(* Properties.                                                             *)

Elems(s) == {s[i] : i \in 1 .. Len(s)}

HubType ==
  /\ clients \subseteq Clients
  /\ register \in Seq(Clients) /\ Len(register) <= RegisterCap
  /\ unregister \in Seq(Clients) /\ Len(unregister) <= UnregisterCap
  /\ broadcast \in Seq(Messages) /\ Len(broadcast) <= BroadcastCap

RunType ==
  /\ run \in {"select", "broadcast", "stopped", "panicked"}
  /\ todo \subseteq Clients
  /\ cur \in Messages \cup {NoMsg}
  /\ run = "broadcast" => cur # NoMsg

ClientType ==
  /\ pc \in [Clients -> {"new", "reading", "unregistering", "closing", "done"}]
  /\ wp \in [Clients -> {"none", "running", "done"}]
  /\ drops \in [Clients -> Nat]
  /\ devices \in [Clients -> SUBSET Devices]
  /\ chan \in [Clients -> {"none", "open", "closed"}]
  /\ conn \in [Clients -> {"none", "open", "closed"}]

SendType ==
  /\ send \in [Clients -> Seq(Messages)]
  /\ \A c \in Clients : Len(send[c]) <= SendCap

ConsumerType ==
  /\ consumer \in {"running", "stopped"}
  /\ cancelled \in BOOLEAN
  /\ published \in Seq(RedisMessage) /\ Len(published) <= MaxPublished

HistoryType ==
  /\ delivered \in [Clients -> Seq(Messages)]
  /\ due \in [Clients -> Seq(Messages)]

(* Type correctness of the state of hub.go and of the histories.           *)
TypeOK == HubType /\ RunType /\ ClientType /\ SendType /\ ConsumerType /\ HistoryType

(* Run never sends on a closed Client.send and never closes it twice,      *)
(* although ReadPump and every slow-client goroutine may each ask for the  *)
(* same client to be unregistered, in any order with its registration.     *)
NoPanic == run # "panicked"

(* c is being served: nobody has asked for its removal and its WritePump   *)
(* is alive.                                                               *)
Healthy(c) ==
  /\ c \in clients /\ wp[c] = "running"
  /\ drops[c] = 0 /\ c \notin Elems(unregister)

(* What c's socket and buffer have received.                               *)
Feed(c) == delivered[c] \o send[c]

(* The message the loop has still to offer to c.                           *)
Owed(c) == IF c \in todo /\ Matches(c, cur) THEN <<cur>> ELSE <<>>

(* A client nobody has asked to remove has missed nothing: its socket and  *)
(* buffer hold, in order, exactly the messages its subscription covered    *)
(* when Run took them, but for the one the loop has not offered to it yet. *)
(* A message lost to a full buffer always costs the client its place.      *)
FeedExact ==
  \A c \in Clients : Healthy(c) => Feed(c) \o Owed(c) = due[c]

(* Any client, slow, leaving or removed, sees each message at most once,   *)
(* in publication order, and only messages its subscription covered at the *)
(* moment Run took them: a subscribe command cannot take effect in the     *)
(* middle of a broadcast loop.                                             *)
FeedSound ==
  \A c \in Clients :
    /\ \A i, j \in 1 .. Len(Feed(c)) : i < j => Feed(c)[i] < Feed(c)[j]
    /\ Elems(Feed(c)) \subseteq Elems(due[c])

(* The broadcast loop always ends: nothing the loop does for a slow client *)
(* can make Run wait for a channel that only Run empties.                  *)
BroadcastCompletes == (run = "broadcast") ~> (run = "select")

(* A client that was too slow once is taken out of the hub, its WritePump  *)
(* drains and ends, its connection is closed and its handler returns,      *)
(* unless the service is shut down first.                                  *)
SlowClientEvicted ==
  \A c \in Clients :
    (drops[c] > 0) ~> \/ c \notin clients /\ wp[c] = "done" /\ pc[c] = "done"
                      \/ cancelled

(* hub.go says of Unregister that it "removes a client": once the request  *)
(* has been made and every request about the client has been served, the   *)
(* client is not in the hub.                                               *)
UnregisterRemoves ==
  \A c \in Clients :
    /\ pc[c] = "done" /\ drops[c] = 0
    /\ c \notin Elems(register) /\ c \notin Elems(unregister)
    => c \notin clients
-----------------------------------------------------------------------------
(* The invariants behind the proofs of HubProofs.                          *)

NoDup(s) == \A i, j \in 1 .. Len(s) : s[i] = s[j] => i = j

(* A client's channel is open from Register until RemoveClient: a client   *)
(* waits in the register channel at most once, before it is in the map,    *)
(* and the loop only visits clients that are in the map.                   *)
ChannelInv ==
  /\ run # "panicked"
  /\ run # "broadcast" => todo = {}
  /\ todo \subseteq clients
  /\ \A c \in clients : chan[c] = "open"
  /\ \A c \in Elems(register) : c \notin clients /\ chan[c] = "open"
  /\ NoDup(register)
  /\ \A c \in Clients : pc[c] = "new" => chan[c] = "none"

(* Nothing reaches a client before Run has registered it.                  *)
FreshInv ==
  \A c \in Clients : pc[c] = "new" \/ c \in Elems(register) =>
    send[c] = <<>> /\ delivered[c] = <<>> /\ due[c] = <<>>

(* Messages on their way have been published.                              *)
MsgInv ==
  /\ Elems(broadcast) \subseteq 1 .. Len(published)
  /\ run = "broadcast" => cur \in 1 .. Len(published)

FeedInv == MsgInv /\ FreshInv /\ FeedExact
=============================================================================
