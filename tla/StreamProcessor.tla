-------------------------- MODULE StreamProcessor --------------------------
(***************************************************************************)
(* stream-processor: replicas that share the durable JetStream consumer    *)
(* "stream-processor" on gpsgo.avl.raw.  Each replica runs processMessage  *)
(* on one message at a time; every statement sent to Postgres, Redis or    *)
(* NATS is a step of its own, so steps of two replicas, a crash, an        *)
(* expired AckWait and the soft deletion of a device may come between any  *)
(* two of them.                                                            *)
(*                                                                         *)
(* Stream[m] is the record of message m.  Faults names the kinds of        *)
(* failure that may happen, and whether the API may soft-delete devices;   *)
(* MaxFaults is how many of them may happen in one behaviour.              *)
(***************************************************************************)
EXTENDS Naturals, Sequences, FiniteSets

CONSTANTS
  Workers,        \* the replicas
  Devices,        \* device ids (devices.id)
  Stream,         \* the records of the raw subject, in stream order
  MaxDeliver,     \* ConsumerConfig.MaxDeliver
  Faults,         \* kinds of failure, and deletion, that may happen
  MaxFaults       \* bound: failures and deletions in a behaviour

(* ok is whether the payload unmarshals.  Timestamps are positive.         *)
RecordType == [device : Devices, ts : Nat \ {0}, speed : Nat,
               sos : BOOLEAN, ok : BOOLEAN]

ASSUME StreamAssumption == Stream \in Seq(RecordType)
ASSUME ConsumerAssumption == MaxDeliver \in Nat \ {0} /\ MaxFaults \in Nat
ASSUME FaultAssumption ==
  Faults \subseteq {"lookup", "trip", "alert", "write", "redis", "publish",
                    "crash", "timeout", "delete"}

VARIABLES
  status, deliveries,         \* JetStream: state and delivery count of each message
  pc, cur, tenant, st, tid,   \* a replica: place, message and locals of processMessage
  known,                      \* devices: rows whose deleted_at is null
  avl,                        \* avl_records: primary keys <<device_id, timestamp>>
                              \* (Timescale's retention of 365 days is beyond the model)
  lastSeen,                   \* devices.last_seen_at, 0 when null
  trips,                      \* trips, in order of insertion; end = 0 while open
  alerts,                     \* alerts: rows inserted for a message, by type
  tripstate, tripid,          \* Redis gpsgo:tripstate:{device} and ...:tripid
  live,                       \* Redis device:live:...: a timestamp, 0 when absent
  enriched, notified,         \* messages published as enriched event / to Pub/Sub
  dropped,                    \* history: messages acknowledged without a write
  ignored,                    \* history: <<m, effect>> whose failure was only logged
  disturbances,               \* history: how often a device's trip was left half written
  faults                      \* number of failures and deletions so far

nats    == <<status, deliveries>>
locals  == <<cur, tenant, st, tid>>
tripDB  == <<trips, tripstate, tripid, disturbances>>
outputs == <<enriched, notified>>
history == <<dropped, ignored>>
vars == <<nats, pc, locals, known, avl, lastSeen, tripDB, alerts, live,
          outputs, history, faults>>

Msgs   == 1 .. Len(Stream)
NoMsg  == 0
NoTrip == 0
Key(m) == <<Stream[m].device, Stream[m].ts>>

Init ==
  /\ status = [m \in Msgs |-> "ready"]
  /\ deliveries = [m \in Msgs |-> 0]
  /\ pc = [w \in Workers |-> "idle"]
  /\ cur = [w \in Workers |-> NoMsg]
  /\ tenant = [w \in Workers |-> FALSE]
  /\ st = [w \in Workers |-> ""]
  /\ tid = [w \in Workers |-> NoTrip]
  /\ known \in SUBSET Devices
  /\ avl = {} /\ trips = <<>>
  /\ lastSeen = [d \in Devices |-> 0]
  /\ alerts = [m \in Msgs |-> [overspeed |-> 0, sos |-> 0]]
  /\ tripstate = [d \in Devices |-> "nil"]
  /\ tripid = [d \in Devices |-> NoTrip]
  /\ live = [d \in Devices |-> 0]
  /\ enriched = {} /\ notified = {}
  /\ dropped = {} /\ ignored = {} /\ faults = 0
  /\ disturbances = [d \in Devices |-> 0]

-----------------------------------------------------------------------------
Step(w, from, to) == pc[w] = from /\ pc' = [pc EXCEPT ![w] = to]
Rec(w) == Stream[cur[w]]
Dev(w) == Rec(w).device

Works == UNCHANGED faults
Fails(kind) == kind \in Faults /\ faults < MaxFaults /\ faults' = faults + 1

(* The statement fails and the error is only logged, or dropped.  (When it *)
(* took effect although its answer was lost, processMessage goes on just   *)
(* the same: that is the statement's other alternative.)                   *)
Ignoring(kind, w, effect) ==
  Fails(kind) /\ ignored' = ignored \cup {<<cur[w], effect>>}

(* Mutant: the replica still holds the message after it is done with it.   *)
Keep(w) == UNCHANGED locals

(* processMessage has returned.                                            *)
Forget(w) ==
  /\ cur' = [cur EXCEPT ![w] = NoMsg]
  /\ tenant' = [tenant EXCEPT ![w] = FALSE]
  /\ st' = [st EXCEPT ![w] = ""]
  /\ tid' = [tid EXCEPT ![w] = NoTrip]

-----------------------------------------------------------------------------
(* External: the JetStream consumer.                                       *)

(* What the server may hand out next: the first message never delivered,   *)
(* or one that waits for redelivery.                                       *)
Deliverable(m) ==
  /\ status[m] = "ready"
  /\ deliveries[m] = 0 => \A k \in 1 .. m - 1 : deliveries[k] > 0

Requeue(m) ==
  status' = [status EXCEPT ![m] = IF deliveries[m] < MaxDeliver THEN "ready" ELSE "exhausted"]

(* AckWait runs out.  It is no failure when no replica has the message any *)
(* more; otherwise the replica was slow, and goes on with its copy.        *)
AckWaitExpires(m) ==
  /\ status[m] = "inflight"
  /\ \/ (\A w \in Workers : cur[w] # m) /\ Works
     \/ (\E w \in Workers : cur[w] = m) /\ Fails("timeout")
  /\ Requeue(m)
  /\ UNCHANGED <<deliveries, pc, locals, known, avl, lastSeen, tripDB, alerts,
                 live, outputs, history>>

(* msg.Ack(): any replica's ack settles the message.                       *)
Ack(m) ==
  status' = [status EXCEPT ![m] = IF @ = "exhausted" THEN @ ELSE "acked"]

(* msg.Nak(): the message is made available again at once.                 *)
Nak(m) == IF status[m] = "inflight" THEN Requeue(m) ELSE UNCHANGED status

-----------------------------------------------------------------------------
(* The loop of main and the start of processMessage.                       *)

Fetch(w) ==
  \E m \in Msgs :
    /\ Deliverable(m)
    /\ Step(w, "idle", IF Stream[m].ok THEN "lookup" ELSE "malformed")
    /\ cur' = [cur EXCEPT ![w] = m]
    /\ status' = [status EXCEPT ![m] = "inflight"]
    /\ deliveries' = [deliveries EXCEPT ![m] = @ + 1]
    /\ UNCHANGED <<tenant, st, tid, known, avl, lastSeen, tripDB, alerts, live,
                   outputs, history, faults>>

(* The ack may get lost on its way, as any message to NATS may.            *)
SendAck(w) == (Works /\ Ack(cur[w])) \/ (Fails("publish") /\ UNCHANGED status)

(* The payload does not unmarshal, or no tenant was found: acknowledged    *)
(* and forgotten.                                                          *)
AckDrop(w, from) ==
  /\ Step(w, from, "idle")
  /\ SendAck(w)
  /\ dropped' = dropped \cup {cur[w]}
  /\ Forget(w)
  /\ UNCHANGED <<deliveries, known, avl, lastSeen, tripDB, alerts, live,
                 outputs, ignored>>

DropMalformed(w) == AckDrop(w, "malformed")

(* Pipeline.Process looks the tenant up; an error leaves it empty, and the *)
(* enrichers run all the same.                                             *)
LookupTenant(w) ==
  /\ Step(w, "lookup", "trip")
  /\ \/ Works /\ tenant' = [tenant EXCEPT ![w] = Dev(w) \in known] /\ UNCHANGED ignored
     \/ Ignoring("lookup", w, "lookup") /\ UNCHANGED tenant
  /\ UNCHANGED <<nats, cur, st, tid, known, avl, lastSeen, tripDB, alerts, live,
                 outputs, dropped>>

-----------------------------------------------------------------------------
(* TripMachine.Process                                                     *)

(* The trip of w's device may be left in two minds.                        *)
Disturb(w) == disturbances' = [disturbances EXCEPT ![Dev(w)] = @ + 1]
disturbed  == {d \in Devices : disturbances[d] > 0}

InTrip(w) == pc[w] \in {"trip insert", "trip set", "trip setid", "trip getid",
                        "trip update", "trip idle", "trip delid"}
AlsoInTrip(w) == \E v \in Workers \ {w} : InTrip(v) /\ Dev(v) = Dev(w)

(* Mutant: a moving device starts a trip whatever its state.               *)
TripBranchAnyState(state, speed) ==
  CASE speed > 5                     -> "trip insert"
    [] state = "ACTIVE" /\ speed < 2 -> "trip getid"
    [] OTHER                         -> "overspeed"

(* Where the state read from Redis and the speed lead.                     *)
TripBranch(state, speed) ==
  CASE state \in {"nil", "IDLE"} /\ speed > 5 -> "trip insert"
    [] state = "ACTIVE" /\ speed < 2          -> "trip getid"
    [] OTHER                                  -> "overspeed"

(* A GET that fails leaves the state empty: no branch is taken.  Nothing   *)
(* keeps another replica from working on the same device's trip.           *)
TripGet(w) ==
  /\ pc[w] = "trip"
  /\ \/ Works /\ st' = [st EXCEPT ![w] = tripstate[Dev(w)]]
     \/ Fails("redis") /\ st' = [st EXCEPT ![w] = ""]
  /\ Step(w, "trip", TripBranch(st'[w], Rec(w).speed))
  /\ IF AlsoInTrip(w) THEN Disturb(w) ELSE UNCHANGED disturbances
  /\ UNCHANGED <<nats, cur, tenant, tid, known, avl, lastSeen, trips, tripstate,
                 tripid, alerts, live, outputs, history>>

(* INSERT INTO trips ... RETURNING id.  It fails for want of a tenant or   *)
(* because of the database, or it commits and Scan fails all the same, the *)
(* answer being lost; after an error nothing more is done about the trip.  *)
TripInsert(w) ==
  /\ pc[w] = "trip insert"
  /\ \/ /\ tenant[w] /\ Works
        /\ Step(w, "trip insert", "trip set")
        /\ trips' = Append(trips, [device |-> Dev(w), start |-> Rec(w).ts, end |-> 0])
        /\ tid' = [tid EXCEPT ![w] = Len(trips) + 1]
        /\ UNCHANGED disturbances
     \/ /\ tenant[w] /\ Fails("trip") /\ Disturb(w)
        /\ Step(w, "trip insert", "overspeed")
        /\ trips' = Append(trips, [device |-> Dev(w), start |-> Rec(w).ts, end |-> 0])
        /\ UNCHANGED tid
     \/ /\ (~tenant[w] /\ Works) \/ Fails("trip")
        /\ Step(w, "trip insert", "overspeed")
        /\ UNCHANGED <<trips, tid, disturbances>>
  /\ UNCHANGED <<nats, cur, tenant, st, known, avl, lastSeen, tripstate, tripid,
                 alerts, live, outputs, history>>

TripSetState(w, from, to, value) ==
  /\ Step(w, from, to)
  /\ \/ Works /\ tripstate' = [tripstate EXCEPT ![Dev(w)] = value] /\ UNCHANGED disturbances
     \/ Fails("redis") /\ Disturb(w) /\ UNCHANGED tripstate
  /\ UNCHANGED <<nats, locals, known, avl, lastSeen, trips, tripid, alerts,
                 live, outputs, history>>

TripSetActive(w) == TripSetState(w, "trip set", "trip setid", "ACTIVE")
TripSetIdle(w)   == TripSetState(w, "trip idle", "trip delid", "IDLE")

TripPutID(w, from, value) ==
  /\ Step(w, from, "overspeed")
  /\ \/ Works /\ tripid' = [tripid EXCEPT ![Dev(w)] = value] /\ UNCHANGED disturbances
     \/ /\ Fails("redis") /\ UNCHANGED tripid
        /\ IF value = NoTrip THEN UNCHANGED disturbances ELSE Disturb(w)
  /\ UNCHANGED <<nats, locals, known, avl, lastSeen, trips, tripstate, alerts,
                 live, outputs, history>>

TripSetID(w) == TripPutID(w, "trip setid", tid[w])
TripDelID(w) == TripPutID(w, "trip delid", NoTrip)

(* A missing trip id, or a failed GET, skips the UPDATE.                   *)
TripGetID(w) ==
  /\ pc[w] = "trip getid"
  /\ \/ Works /\ tid' = [tid EXCEPT ![w] = tripid[Dev(w)]] /\ UNCHANGED disturbances
     \/ Fails("redis") /\ tid' = [tid EXCEPT ![w] = NoTrip] /\ Disturb(w)
  /\ Step(w, "trip getid", IF tid'[w] = NoTrip THEN "trip idle" ELSE "trip update")
  /\ UNCHANGED <<nats, cur, tenant, st, known, avl, lastSeen, trips, tripstate,
                 tripid, alerts, live, outputs, history>>

(* UPDATE trips SET ended_at; an error is logged.                          *)
TripEnd(w) ==
  /\ Step(w, "trip update", "trip idle")
  /\ \/ Works /\ trips' = [trips EXCEPT ![tid[w]].end = Rec(w).ts] /\ UNCHANGED disturbances
     \/ Fails("trip") /\ Disturb(w) /\ UNCHANGED trips
  /\ UNCHANGED <<nats, locals, known, avl, lastSeen, tripstate, tripid, alerts,
                 live, outputs, history>>

-----------------------------------------------------------------------------
(* AlertEvaluator.Evaluate (the geofence check before it only reads).      *)

(* One row for every delivery of the record; without a tenant, or when the *)
(* database fails, the INSERT fails and is logged.                         *)
AlertStep(w, from, to, kind, due) ==
  /\ Step(w, from, to)
  /\ \/ due /\ tenant[w] /\ Works /\ UNCHANGED ignored
        /\ alerts' = [alerts EXCEPT ![cur[w]][kind] = @ + 1]
     \/ due /\ Ignoring("alert", w, kind) /\ UNCHANGED alerts
     \/ ~(due /\ tenant[w]) /\ Works /\ UNCHANGED <<alerts, ignored>>
  /\ UNCHANGED <<nats, locals, known, avl, lastSeen, tripDB, live, outputs, dropped>>

Overspeed(w) == AlertStep(w, "overspeed", "sos", "overspeed", Rec(w).speed > 120)
SOS(w)       == AlertStep(w, "sos", IF tenant[w] THEN "insert" ELSE "drop",
                          "sos", Rec(w).sos)

-----------------------------------------------------------------------------
(* The rest of processMessage.                                             *)

DropUnknown(w) == AckDrop(w, "drop")

(* TimescaleWriter.Write, first statement: ON CONFLICT DO NOTHING.  It may *)
(* commit and return an error, when the answer is lost.                    *)
InsertRecord(w) ==
  /\ \/ Works /\ Step(w, "insert", "seen")
     \/ Fails("write") /\ Step(w, "insert", "nak")
  /\ avl' = avl \cup {Key(cur[w])}
  /\ UNCHANGED <<nats, locals, known, lastSeen, tripDB, alerts, live, outputs, history>>

InsertFailsTo(w, to) ==
  /\ Step(w, "insert", to) /\ Fails("write")
  /\ UNCHANGED <<nats, locals, known, avl, lastSeen, tripDB, alerts, live, outputs, history>>

(* Mutants: a record that cannot be written is acknowledged, processed     *)
(* further as after a failed Redis update, or dropped as an unknown one.   *)
InsertFailsAcks(w)      == InsertFailsTo(w, "ack")
InsertFailsContinues(w) == InsertFailsTo(w, "seen")
InsertFailsDrops(w)     == InsertFailsTo(w, "drop")

(* It fails.                                                               *)
InsertFails(w) == InsertFailsTo(w, "nak")

(* Write has returned an error: the message is given back, if the nak gets *)
(* through.                                                                *)
GiveBack(w) ==
  /\ Step(w, "nak", "idle") /\ Works
  /\ Nak(cur[w]) \/ ("publish" \in Faults /\ UNCHANGED status)
  /\ Forget(w)
  /\ UNCHANGED <<deliveries, known, avl, lastSeen, tripDB, alerts, live, outputs, history>>

(* Second statement: devices.last_seen_at, whatever it was before.         *)
UpdateLastSeen(w) ==
  /\ Step(w, "seen", "live")
  /\ \/ Works /\ lastSeen' = [lastSeen EXCEPT ![Dev(w)] = Rec(w).ts]
              /\ UNCHANGED ignored
     \/ Ignoring("write", w, "seen") /\ UNCHANGED lastSeen
  /\ UNCHANGED <<nats, locals, known, avl, tripDB, alerts, live, outputs, dropped>>

(* RedisWriter.UpdateLive: SET with a TTL, whatever was there.             *)
UpdateLive(w) ==
  /\ Step(w, "live", "enriched")
  /\ \/ Works /\ live' = [live EXCEPT ![Dev(w)] = Rec(w).ts] /\ UNCHANGED ignored
     \/ Ignoring("redis", w, "live") /\ UNCHANGED live
  /\ UNCHANGED <<nats, locals, known, avl, lastSeen, tripDB, alerts, outputs, dropped>>

PublishEnriched(w) ==
  /\ Step(w, "enriched", "pubsub")
  /\ \/ Works /\ enriched' = enriched \cup {cur[w]} /\ UNCHANGED ignored
     \/ Ignoring("publish", w, "enriched") /\ UNCHANGED enriched
  /\ UNCHANGED <<nats, locals, known, avl, lastSeen, tripDB, alerts, live, notified, dropped>>

PublishLive(w) ==
  /\ Step(w, "pubsub", "ack")
  /\ \/ Works /\ notified' = notified \cup {cur[w]} /\ UNCHANGED ignored
     \/ Ignoring("redis", w, "pubsub") /\ UNCHANGED notified
  /\ UNCHANGED <<nats, locals, known, avl, lastSeen, tripDB, alerts, live, enriched, dropped>>

AckDone(w) ==
  /\ Step(w, "ack", "idle")
  /\ SendAck(w)
  /\ Forget(w)
  /\ UNCHANGED <<deliveries, known, avl, lastSeen, tripDB, alerts, live, outputs, history>>

-----------------------------------------------------------------------------
(* The environment.                                                        *)

(* A replica dies (the process has no signal handler, so SIGTERM kills it  *)
(* too) and a new one takes its place.                                     *)
Crash(w) ==
  /\ pc[w] # "idle" /\ Fails("crash")
  /\ pc' = [pc EXCEPT ![w] = "idle"]
  /\ Forget(w)
  /\ IF pc[w] \in {"trip set", "trip setid", "trip idle"} THEN Disturb(w)
                                                         ELSE UNCHANGED disturbances
  /\ UNCHANGED <<nats, known, avl, lastSeen, trips, tripstate, tripid, alerts, live,
                 outputs, history>>

(* The API's DeviceHandler.Delete sets deleted_at.                         *)
DeleteDevice(d) ==
  /\ d \in known /\ Fails("delete")
  /\ known' = known \ {d}
  /\ UNCHANGED <<nats, pc, locals, avl, lastSeen, tripDB, alerts, live, outputs,
                 history>>

(* The 60 s TTL of the live key runs out.                                  *)
LiveExpires(d) ==
  /\ live[d] # 0
  /\ live' = [live EXCEPT ![d] = 0]
  /\ UNCHANGED <<nats, pc, locals, known, avl, lastSeen, tripDB, alerts, outputs,
                 history, faults>>

Process(w) ==
  \/ DropMalformed(w) \/ LookupTenant(w)
  \/ TripGet(w) \/ TripInsert(w) \/ TripSetActive(w) \/ TripSetID(w)
  \/ TripGetID(w) \/ TripEnd(w) \/ TripSetIdle(w) \/ TripDelID(w)
  \/ Overspeed(w) \/ SOS(w) \/ DropUnknown(w)
  \/ InsertRecord(w) \/ InsertFails(w) \/ GiveBack(w) \/ UpdateLastSeen(w) \/ UpdateLive(w)
  \/ PublishEnriched(w) \/ PublishLive(w) \/ AckDone(w)

Next ==
  \/ \E w \in Workers : Fetch(w) \/ Process(w) \/ Crash(w)
  \/ \E m \in Msgs : AckWaitExpires(m)
  \/ \E d \in Devices : DeleteDevice(d) \/ LiveExpires(d)

Spec == Init /\ [][Next]_vars

(* Replicas keep fetching and keep executing, and an AckWait that nobody   *)
(* will answer expires.                                                    *)
Fairness ==
  /\ \A w \in Workers : WF_vars(Fetch(w)) /\ WF_vars(Process(w))
  /\ \A m \in Msgs : WF_vars((\A w \in Workers : cur[w] # m) /\ AckWaitExpires(m))

FairSpec == Spec /\ Fairness
-----------------------------------------------------------------------------
(* The stream processor implements Delivery: to the stream and the history *)
(* table it is one consumer that stores before it acknowledges.            *)
D == INSTANCE Delivery
       WITH attempts <- deliveries, stored <- avl, refused <- dropped,
            done <- {m \in Msgs : status[m] = "acked"},
            abandoned <- {m \in Msgs : status[m] = "exhausted"}

-----------------------------------------------------------------------------
(* Properties.                                                             *)

Places == {"idle", "malformed", "lookup", "trip", "trip insert", "trip set",
           "trip setid", "trip getid", "trip update", "trip idle", "trip delid",
           "overspeed", "sos", "drop", "insert", "nak", "seen", "live",
           "enriched", "pubsub", "ack"}

TripType == [device : Devices, start : Nat \ {0}, end : Nat]

QueueType ==
  /\ status \in [Msgs -> {"ready", "inflight", "acked", "exhausted"}]
  /\ deliveries \in [Msgs -> 0 .. MaxDeliver]

PlaceType ==
  /\ pc \in [Workers -> Places]
  /\ cur \in [Workers -> Msgs \cup {NoMsg}]
  /\ \A w \in Workers : cur[w] = NoMsg <=> pc[w] = "idle"

LocalType ==
  /\ tenant \in [Workers -> BOOLEAN]
  /\ st \in [Workers -> {"", "nil", "IDLE", "ACTIVE"}]

StoreType ==
  /\ known \subseteq Devices
  /\ avl \subseteq Devices \X (Nat \ {0})
  /\ lastSeen \in [Devices -> Nat]
  /\ live \in [Devices -> Nat]

TripsType ==
  /\ trips \in Seq(TripType)
  /\ tripstate \in [Devices -> {"nil", "IDLE", "ACTIVE"}]
  /\ tripid \in [Devices -> 0 .. Len(trips)]
  /\ tid \in [Workers -> 0 .. Len(trips)]
  /\ disturbances \in [Devices -> Nat]

Effects == {"lookup", "overspeed", "sos", "seen", "live", "enriched", "pubsub"}

EffectType ==
  /\ alerts \in [Msgs -> [overspeed : Nat, sos : Nat]]
  /\ enriched \subseteq Msgs /\ notified \subseteq Msgs
  /\ dropped \subseteq Msgs
  /\ ignored \subseteq Msgs \X Effects

(* Type correctness of the consumer, the replicas and the stores.          *)
TypeOK ==
  /\ QueueType /\ PlaceType /\ LocalType /\ StoreType /\ TripsType /\ EffectType
  /\ faults \in 0 .. MaxFaults

(* A side effect of message m took place, or its own statement failed and  *)
(* processMessage logged it.                                               *)
Attempted(m, effect, done) == done \/ <<m, effect>> \in ignored

(* What processMessage does for a message before it acknowledges it.       *)
Processed(m) ==
  /\ Key(m) \in avl
  /\ Attempted(m, "enriched", m \in enriched)
  /\ Attempted(m, "pubsub", m \in notified)
  /\ Stream[m].speed > 120 => Attempted(m, "overspeed", alerts[m].overspeed > 0)
  /\ Stream[m].sos => Attempted(m, "sos", alerts[m].sos > 0)

(* An acknowledged message was deliberately dropped, or its row is in      *)
(* avl_records and each of its other effects was at least attempted,       *)
(* whatever crashed, timed out or was redelivered in between.              *)
AckedIsProcessed ==
  \A m \in Msgs : status[m] = "acked" /\ m \notin dropped => Processed(m)

(* However the replicas interleave, crash and repeat themselves, all that  *)
(* JetStream and avl_records see is a step of Delivery: a message is       *)
(* acknowledged only once it is stored or refused, abandoned only after    *)
(* MaxDeliver deliveries, and what is settled is not handed out again.     *)
ImplementsDelivery == D!Spec

(* The live snapshot and last_seen_at never show a position that was not   *)
(* written to history: no replica gets to UpdateLive or to last_seen_at    *)
(* before the row of its message is in avl_records.                        *)
LiveIsStored ==
  \A d \in Devices :
    /\ live[d] # 0 => <<d, live[d]>> \in avl
    /\ lastSeen[d] # 0 => <<d, lastSeen[d]>> \in avl

(* A record is dropped for good only if it is malformed, its device is not *)
(* (or no longer) known, as the log line says, or its own tenant lookup    *)
(* failed; no failure of another statement ends in a drop.                 *)
DropOnlyUnknown ==
  \A m \in dropped :
    Stream[m].ok /\ <<m, "lookup">> \notin ignored => Stream[m].device \notin known

Open(d) == {i \in 1 .. Len(trips) : trips[i].device = d /\ trips[i].end = 0}

(* The trip state machine keeps Redis and Postgres in step although it     *)
(* writes them one after the other and messages are repeated and reordered:*)
(* outside TripMachine.Process, a device is ACTIVE exactly when it has one *)
(* open trip, the one whose id Redis holds, and it never has two.  What    *)
(* can end this is two replicas in the same trip, a crash between the two  *)
(* stores, a failed access to the second of them, or an INSERT that        *)
(* commits while its answer is lost.                                       *)
TripsConsistent ==
  \A d \in Devices \ disturbed :
    /\ Cardinality(Open(d)) <= 1
    /\ (\A w \in Workers : InTrip(w) => Dev(w) # d) =>
         IF tripstate[d] = "ACTIVE" THEN Open(d) = {tripid[d]} ELSE Open(d) = {}


(* With fewer failures than MaxDeliver, and no failed tenant lookup, every *)
(* well-formed record of a device that stays known is written in the end.  *)
StoredDespiteFaults ==
  \A m \in Msgs :
    (Stream[m].ok /\ Stream[m].device \in known)
      ~> (Key(m) \in avl \/ Stream[m].device \notin known)

(* redis.go says UpdateLive sets "the current position snapshot": a        *)
(* snapshot is never replaced by an older one.                             *)
LiveNeverBackwards ==
  [][\A d \in Devices : live[d] # 0 /\ live'[d] # 0 => live'[d] >= live[d]]_vars
=============================================================================
