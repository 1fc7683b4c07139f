----------------------- MODULE StreamProcessorProofs -----------------------
(***************************************************************************)
(* Proofs about StreamProcessor for any number of replicas, devices,       *)
(* messages, deliveries and faults.                                        *)
(***************************************************************************)
EXTENDS StreamProcessor, SequenceTheorems, FiniteSetTheorems, TLAPS

-----------------------------------------------------------------------------
(* Facts about the operators of the module.                                *)

LEMMA MsgType ==
  ASSUME NEW m \in Msgs
  PROVE  /\ Stream[m] \in RecordType
         /\ Stream[m].device \in Devices /\ Stream[m].ts \in Nat \ {0}
         /\ Key(m) = <<Stream[m].device, Stream[m].ts>>
         /\ Key(m) \in Devices \X (Nat \ {0})
         /\ m # NoMsg
  <1>1. Stream[m] \in RecordType
    BY StreamAssumption DEF Msgs
  <1> QED BY <1>1 DEF RecordType, Key, Msgs, NoMsg

(* A replica that is not idle holds a message of the stream.               *)
LEMMA CurType ==
  ASSUME PlaceType, NEW w \in Workers, pc[w] # "idle"
  PROVE  /\ cur[w] \in Msgs
         /\ Rec(w) = Stream[cur[w]] /\ Rec(w) \in RecordType
         /\ Dev(w) = Rec(w).device /\ Dev(w) \in Devices /\ Rec(w).ts \in Nat \ {0}
         /\ Key(cur[w]) = <<Dev(w), Rec(w).ts>>
         /\ Key(cur[w]) \in Devices \X (Nat \ {0})
  <1>1. cur[w] \in Msgs
    BY DEF PlaceType
  <1> QED BY <1>1, MsgType DEF Rec, Dev

(* The steps of processMessage before its last one.                        *)
Proceeds(w) ==
  \/ LookupTenant(w) \/ TripGet(w) \/ TripInsert(w) \/ TripSetActive(w) \/ TripSetID(w)
  \/ TripGetID(w) \/ TripEnd(w) \/ TripSetIdle(w) \/ TripDelID(w)
  \/ Overspeed(w) \/ SOS(w) \/ InsertRecord(w) \/ InsertFails(w) \/ UpdateLastSeen(w)
  \/ UpdateLive(w) \/ PublishEnriched(w) \/ PublishLive(w)

(* The steps that end it, for good or not.                                 *)
Returns(w) == DropMalformed(w) \/ DropUnknown(w) \/ GiveBack(w) \/ AckDone(w) \/ Crash(w)

(* The cases of Next.                                                      *)
LEMMA NextCases ==
  ASSUME Next
  PROVE  \/ \E w \in Workers : Fetch(w) \/ Proceeds(w) \/ Returns(w)
         \/ \E m \in Msgs : AckWaitExpires(m)
         \/ \E d \in Devices : DeleteDevice(d) \/ LiveExpires(d)
  BY Zenon DEF Next, Process, Proceeds, Returns

(* The steps that leave the consumer alone.                                *)
LEMMA QueueFrame ==
  ASSUME NEW w \in Workers, Proceeds(w) \/ Crash(w)
  PROVE  UNCHANGED nats
  BY Zenon DEF Crash, Proceeds, LookupTenant, TripGet, TripInsert, TripSetActive,
       TripSetIdle, TripSetState, TripSetID, TripDelID, TripPutID, TripGetID, TripEnd,
       Overspeed, SOS, AlertStep, InsertRecord, InsertFails, InsertFailsTo, UpdateLastSeen, UpdateLive,
       PublishEnriched, PublishLive

-----------------------------------------------------------------------------
(* Type correctness, part by part.                                         *)

(* A message that waits has a delivery left; so the count of deliveries    *)
(* stays within MaxDeliver.                                                *)
QueueInv ==
  /\ QueueType
  /\ \A m \in Msgs : status[m] = "ready" => deliveries[m] < MaxDeliver

LEMMA RequeueQueue ==
  ASSUME QueueInv, NEW m \in Msgs, Requeue(m), deliveries' = deliveries
  PROVE  QueueInv'
  BY ConsumerAssumption DEF QueueType, QueueInv, Requeue

LEMMA AckQueue ==
  ASSUME QueueInv, PlaceType, NEW w \in Workers, pc[w] # "idle", SendAck(w),
         deliveries' = deliveries
  PROVE  QueueInv'
  <1>1. cur[w] \in Msgs
    BY CurType
  <1> QED BY <1>1 DEF SendAck, Ack, QueueType, QueueInv

LEMMA QueueStep ==
  ASSUME QueueInv, PlaceType, Next
  PROVE  QueueInv'
  <1>1. ASSUME NEW w \in Workers, Fetch(w) PROVE QueueInv'
    <2>1. PICK m \in Msgs :
            /\ Deliverable(m)
            /\ status' = [status EXCEPT ![m] = "inflight"]
            /\ deliveries' = [deliveries EXCEPT ![m] = @ + 1]
      BY <1>1, Zenon DEF Fetch
    <2> QED BY <2>1, ConsumerAssumption DEF QueueType, QueueInv, Deliverable
  <1>2. ASSUME NEW w \in Workers, DropMalformed(w) \/ DropUnknown(w) \/ AckDone(w)
        PROVE  QueueInv'
    BY <1>2, AckQueue DEF DropMalformed, DropUnknown, AckDrop, AckDone, Step
  <1>3. ASSUME NEW w \in Workers, GiveBack(w) PROVE QueueInv'
    <2>1. cur[w] \in Msgs
      BY <1>3, CurType DEF GiveBack, Step
    <2> QED BY <1>3, <2>1, RequeueQueue DEF GiveBack, Nak, QueueInv, QueueType
  <1>4. ASSUME NEW m \in Msgs, AckWaitExpires(m) PROVE QueueInv'
    BY <1>4, RequeueQueue DEF AckWaitExpires
  <1>5. CASE UNCHANGED nats
    BY <1>5 DEF nats, QueueInv, QueueType
  <1>6. ASSUME NEW w \in Workers, Proceeds(w) \/ Crash(w) PROVE UNCHANGED nats
    BY <1>6, QueueFrame
  <1>7. ASSUME NEW d \in Devices, DeleteDevice(d) \/ LiveExpires(d) PROVE UNCHANGED nats
    BY <1>7 DEF DeleteDevice, LiveExpires
  <1> QED BY <1>1, <1>2, <1>3, <1>4, <1>5, <1>6, <1>7, NextCases DEF Returns

(* The replica goes to another place with the same message.                *)
LEMMA MovePlace ==
  ASSUME PlaceType, NEW w \in Workers, NEW to, to \in Places \ {"idle"},
         pc[w] # "idle", pc' = [pc EXCEPT ![w] = to], cur' = cur
  PROVE  PlaceType'
  BY DEF PlaceType

(* processMessage returns, or the replica dies.                            *)
LEMMA ForgetPlace ==
  ASSUME PlaceType, NEW w \in Workers, pc' = [pc EXCEPT ![w] = "idle"], Forget(w)
  PROVE  PlaceType'
  BY DEF PlaceType, Forget, Places

LEMMA ProceedsTo ==
  ASSUME NEW w \in Workers, Proceeds(w)
  PROVE  /\ pc[w] # "idle" /\ cur' = cur
         /\ \E to \in Places \ {"idle"} : pc' = [pc EXCEPT ![w] = to]
  <1> USE DEF Step, Places, locals
  <1>1. CASE LookupTenant(w) \/ InsertRecord(w) \/ InsertFails(w) \/ UpdateLastSeen(w)
              \/ UpdateLive(w) \/ PublishEnriched(w) \/ PublishLive(w)
    BY <1>1 DEF LookupTenant, InsertRecord, InsertFails, InsertFailsTo, UpdateLastSeen, UpdateLive,
                PublishEnriched, PublishLive
  <1>2. CASE TripGet(w)
    BY <1>2 DEF TripGet, TripBranch
  <1>3. CASE TripInsert(w)
    BY <1>3 DEF TripInsert
  <1>4. CASE TripSetActive(w) \/ TripSetIdle(w) \/ TripSetID(w) \/ TripDelID(w) \/ TripEnd(w)
    BY <1>4 DEF TripSetActive, TripSetIdle, TripSetState, TripSetID, TripDelID, TripPutID, TripEnd
  <1>5. CASE TripGetID(w)
    BY <1>5 DEF TripGetID
  <1>6. CASE Overspeed(w) \/ SOS(w)
    BY <1>6 DEF Overspeed, SOS, AlertStep
  <1> QED BY <1>1, <1>2, <1>3, <1>4, <1>5, <1>6 DEF Proceeds

LEMMA ReturnsTo ==
  ASSUME NEW w \in Workers, Returns(w)
  PROVE  pc[w] # "idle" /\ pc' = [pc EXCEPT ![w] = "idle"] /\ Forget(w)
  BY DEF Returns, DropMalformed, DropUnknown, AckDrop, GiveBack, AckDone, Crash, Step

LEMMA PlaceStep ==
  ASSUME PlaceType, Next
  PROVE  PlaceType'
  <1>1. ASSUME NEW w \in Workers, Fetch(w) PROVE PlaceType'
    <2>1. PICK m \in Msgs :
            /\ Step(w, "idle", IF Stream[m].ok THEN "lookup" ELSE "malformed")
            /\ cur' = [cur EXCEPT ![w] = m]
      BY <1>1, Zenon DEF Fetch
    <2>2. m # NoMsg
      BY MsgType
    <2> QED BY <2>1, <2>2 DEF Step, PlaceType, Places
  <1>2. ASSUME NEW w \in Workers, Proceeds(w) PROVE PlaceType'
    <2>1. PICK to \in Places \ {"idle"} : pc' = [pc EXCEPT ![w] = to]
      BY <1>2, ProceedsTo
    <2> QED BY <1>2, <2>1, ProceedsTo, MovePlace
  <1>3. ASSUME NEW w \in Workers, Returns(w) PROVE PlaceType'
    BY <1>3, ReturnsTo, ForgetPlace
  <1>4. ASSUME NEW m \in Msgs, AckWaitExpires(m) PROVE PlaceType'
    BY <1>4 DEF AckWaitExpires, PlaceType, locals
  <1>5. ASSUME NEW d \in Devices, DeleteDevice(d) \/ LiveExpires(d) PROVE PlaceType'
    BY <1>5 DEF DeleteDevice, LiveExpires, PlaceType, locals
  <1> QED BY <1>1, <1>2, <1>3, <1>4, <1>5, NextCases

LEMMA LocalStep ==
  ASSUME LocalType, PlaceType, TripsType, Next
  PROVE  LocalType'
  <1>1. ASSUME NEW w \in Workers, Returns(w) PROVE LocalType'
    BY <1>1, ReturnsTo DEF LocalType, Forget
  <1>2. ASSUME NEW w \in Workers, LookupTenant(w) PROVE LocalType'
    <2>1. st' = st /\ (tenant' = tenant \/ tenant' = [tenant EXCEPT ![w] = Dev(w) \in known])
      BY <1>2 DEF LookupTenant
    <2>2. (Dev(w) \in known) \in BOOLEAN
      OBVIOUS
    <2>3. tenant' \in [Workers -> BOOLEAN]
      BY <2>1, <2>2, Zenon DEF LocalType
    <2> QED BY <2>1, <2>3 DEF LocalType
  <1>3. ASSUME NEW w \in Workers, TripGet(w) PROVE LocalType'
    <2>1. Dev(w) \in Devices
      BY <1>3, CurType DEF TripGet
    <2> QED BY <1>3, <2>1 DEF TripGet, LocalType, TripsType
  <1>4. ASSUME NEW w \in Workers, Proceeds(w), ~LookupTenant(w), ~TripGet(w)
        PROVE  UNCHANGED <<tenant, st>>
    BY <1>4, Zenon DEF Proceeds, TripInsert, TripSetActive, locals,
         TripSetIdle, TripSetState, TripSetID, TripDelID, TripPutID, TripGetID, TripEnd,
         Overspeed, SOS, AlertStep, InsertRecord, InsertFails, InsertFailsTo, UpdateLastSeen, UpdateLive,
         PublishEnriched, PublishLive
  <1>5. CASE UNCHANGED <<tenant, st>>
    BY <1>5 DEF LocalType
  <1>6. ASSUME NEW w \in Workers, Fetch(w) PROVE UNCHANGED <<tenant, st>>
    BY <1>6 DEF Fetch
  <1>7. ASSUME NEW m \in Msgs, AckWaitExpires(m) PROVE UNCHANGED <<tenant, st>>
    BY <1>7 DEF AckWaitExpires, locals
  <1>8. ASSUME NEW d \in Devices, DeleteDevice(d) \/ LiveExpires(d)
        PROVE  UNCHANGED <<tenant, st>>
    BY <1>8 DEF DeleteDevice, LiveExpires, locals
  <1> QED BY <1>1, <1>2, <1>3, <1>4, <1>5, <1>6, <1>7, <1>8, NextCases

(* The steps that touch no table and no live key.                          *)
LEMMA StoreFrame ==
  ASSUME Next,
         \A w \in Workers : ~InsertRecord(w) /\ ~UpdateLastSeen(w) /\ ~UpdateLive(w),
         \A d \in Devices : ~DeleteDevice(d) /\ ~LiveExpires(d)
  PROVE  UNCHANGED <<known, avl, lastSeen, live>>
  <1>1. ASSUME NEW w \in Workers, Fetch(w) PROVE UNCHANGED <<known, avl, lastSeen, live>>
    BY <1>1 DEF Fetch
  <1>2. ASSUME NEW w \in Workers, Proceeds(w) PROVE UNCHANGED <<known, avl, lastSeen, live>>
    BY <1>2, Zenon DEF Proceeds, LookupTenant, TripGet, TripInsert, TripSetActive,
         TripSetIdle, TripSetState, TripSetID, TripDelID, TripPutID, TripGetID, TripEnd,
         Overspeed, SOS, AlertStep, InsertFails, InsertFailsTo, PublishEnriched, PublishLive
  <1>3. ASSUME NEW w \in Workers, Returns(w) PROVE UNCHANGED <<known, avl, lastSeen, live>>
    BY <1>3, Zenon DEF Returns, DropMalformed, DropUnknown, AckDrop, GiveBack, AckDone, Crash
  <1>4. ASSUME NEW m \in Msgs, AckWaitExpires(m) PROVE UNCHANGED <<known, avl, lastSeen, live>>
    BY <1>4 DEF AckWaitExpires
  <1> QED BY <1>1, <1>2, <1>3, <1>4, NextCases

LEMMA StoreStep ==
  ASSUME StoreType, PlaceType, Next
  PROVE  StoreType'
  <1>1. ASSUME NEW w \in Workers, InsertRecord(w) PROVE StoreType'
    <2>1. Key(cur[w]) \in Devices \X (Nat \ {0})
      BY <1>1, CurType DEF InsertRecord, Step
    <2> QED BY <1>1, <2>1 DEF InsertRecord, StoreType
  <1>2. ASSUME NEW w \in Workers, UpdateLastSeen(w) PROVE StoreType'
    <2>1. Dev(w) \in Devices /\ Rec(w).ts \in Nat
      BY <1>2, CurType DEF UpdateLastSeen, Step
    <2> QED BY <1>2, <2>1 DEF UpdateLastSeen, StoreType
  <1>3. ASSUME NEW w \in Workers, UpdateLive(w) PROVE StoreType'
    <2>1. Dev(w) \in Devices /\ Rec(w).ts \in Nat
      BY <1>3, CurType DEF UpdateLive, Step
    <2> QED BY <1>3, <2>1 DEF UpdateLive, StoreType
  <1>4. ASSUME NEW d \in Devices, DeleteDevice(d) \/ LiveExpires(d) PROVE StoreType'
    BY <1>4 DEF DeleteDevice, LiveExpires, StoreType
  <1>5. CASE UNCHANGED <<known, avl, lastSeen, live>>
    BY <1>5 DEF StoreType
  <1> QED BY <1>1, <1>2, <1>3, <1>4, <1>5, StoreFrame

(* The steps outside TripMachine.Process, but for a crash.                 *)
LEMMA TripsFrame ==
  ASSUME Next,
         \A w \in Workers :
           /\ ~TripGet(w) /\ ~TripInsert(w) /\ ~TripSetActive(w) /\ ~TripSetID(w)
           /\ ~TripGetID(w) /\ ~TripEnd(w) /\ ~TripSetIdle(w) /\ ~TripDelID(w)
           /\ ~Crash(w)
  PROVE  UNCHANGED tripDB
  <1>1. ASSUME NEW w \in Workers, Fetch(w) PROVE UNCHANGED tripDB
    BY <1>1 DEF Fetch
  <1>2. ASSUME NEW w \in Workers, Proceeds(w) PROVE UNCHANGED tripDB
    BY <1>2, Zenon DEF Proceeds, LookupTenant, Overspeed, SOS, AlertStep, InsertRecord,
         InsertFails, InsertFailsTo, UpdateLastSeen, UpdateLive, PublishEnriched, PublishLive
  <1>3. ASSUME NEW w \in Workers, Returns(w) PROVE UNCHANGED tripDB
    BY <1>3, Zenon DEF Returns, DropMalformed, DropUnknown, AckDrop, GiveBack, AckDone
  <1>4. ASSUME NEW m \in Msgs, AckWaitExpires(m) PROVE UNCHANGED tripDB
    BY <1>4 DEF AckWaitExpires
  <1>5. ASSUME NEW d \in Devices, DeleteDevice(d) \/ LiveExpires(d) PROVE UNCHANGED tripDB
    BY <1>5 DEF DeleteDevice, LiveExpires
  <1> QED BY <1>1, <1>2, <1>3, <1>4, <1>5, NextCases

(* A new trip is the last of a table whose other rows are as before.       *)
LEMMA TripAppended ==
  ASSUME TripsType, NEW t \in TripType, trips' = Append(trips, t)
  PROVE  /\ trips' \in Seq(TripType) /\ Len(trips) \in Nat
         /\ Len(trips') = Len(trips) + 1 /\ trips'[Len(trips) + 1] = t
         /\ \A i \in 1 .. Len(trips) : trips'[i] = trips[i]
  <1>1. trips \in Seq(TripType)
    BY DEF TripsType
  <1> QED BY <1>1, AppendProperties, LenProperties

(* Ending a trip changes that row's end only.                              *)
LEMMA TripEnded ==
  ASSUME TripsType, NEW i \in 1 .. Len(trips), NEW t \in Nat \ {0},
         trips' = [trips EXCEPT ![i].end = t]
  PROVE  /\ trips' \in Seq(TripType) /\ Len(trips') = Len(trips)
         /\ trips'[i] = [trips[i] EXCEPT !.end = t]
         /\ \A j \in 1 .. Len(trips) : j # i => trips'[j] = trips[j]
  <1>1. trips \in Seq(TripType) /\ trips[i] \in TripType
    BY DEF TripsType
  <1>2. [trips[i] EXCEPT !.end = t] \in TripType
    BY <1>1 DEF TripType
  <1>3. trips' = [trips EXCEPT ![i] = [trips[i] EXCEPT !.end = t]]
    OBVIOUS
  <1> QED BY <1>1, <1>2, <1>3, ExceptSeq

(* Only a replica inside processMessage disturbs a trip.                   *)
LEMMA DisturbedBy ==
  ASSUME Next, disturbances' # disturbances
  PROVE  \E w \in Workers : pc[w] # "idle" /\ Disturb(w)
  <1>1. ASSUME NEW w \in Workers,
               TripGet(w) \/ TripInsert(w) \/ TripSetActive(w) \/ TripSetID(w) \/ TripGetID(w)
                 \/ TripEnd(w) \/ TripSetIdle(w) \/ TripDelID(w) \/ Crash(w)
        PROVE  Disturb(w)
    BY <1>1, Zenon DEF TripGet, TripInsert, TripSetActive, TripSetIdle, TripSetState,
         TripSetID, TripDelID, TripPutID, TripGetID, TripEnd, Crash
  <1>2. ASSUME NEW w \in Workers,
               TripGet(w) \/ TripInsert(w) \/ TripSetActive(w) \/ TripSetID(w) \/ TripGetID(w)
                 \/ TripEnd(w) \/ TripSetIdle(w) \/ TripDelID(w) \/ Crash(w)
        PROVE  pc[w] # "idle"
    BY <1>2 DEF TripGet, TripInsert, TripSetActive, TripSetIdle, TripSetState,
         TripSetID, TripDelID, TripPutID, TripGetID, TripEnd, Crash, Step
  <1> QED BY <1>1, <1>2, TripsFrame DEF tripDB

LEMMA DisturbancesType ==
  ASSUME TripsType, PlaceType, Next
  PROVE  disturbances' \in [Devices -> Nat]
  <1>1. disturbances \in [Devices -> Nat]
    BY DEF TripsType
  <1>2. CASE disturbances' # disturbances
    <2>1. PICK w \in Workers : Dev(w) \in Devices /\ Disturb(w)
      BY <1>2, DisturbedBy, CurType
    <2>2. disturbances[Dev(w)] + 1 \in Nat
      BY <1>1, <2>1
    <2> QED BY <1>1, <2>1, <2>2 DEF Disturb
  <1> QED BY <1>1, <1>2

LEMMA TripsStep ==
  ASSUME TripsType, PlaceType, Next
  PROVE  TripsType'
  <1>11. disturbances' \in [Devices -> Nat]
    BY DisturbancesType
  <1>1. Len(trips) \in Nat /\ NoTrip \in 0 .. Len(trips)
    <2>1. Len(trips) \in Nat
      BY DEF TripsType
    <2> QED BY <2>1 DEF NoTrip
  <1>2. ASSUME NEW w \in Workers, TripGet(w) PROVE TripsType'
    <2>1. Dev(w) \in Devices
      BY <1>2, CurType DEF TripGet
    <2> QED BY <1>2, <1>11, <2>1 DEF TripGet, TripsType
  <1>3. ASSUME NEW w \in Workers, TripInsert(w) PROVE TripsType'
    <2>1. Dev(w) \in Devices /\ Rec(w).ts \in Nat \ {0}
      BY <1>3, CurType DEF TripInsert
    <2>2. CASE trips' = trips /\ tid' = tid
      BY <1>3, <1>11, <2>2 DEF TripInsert, TripsType
    <2>3. CASE /\ trips' = Append(trips, [device |-> Dev(w), start |-> Rec(w).ts, end |-> 0])
               /\ tid' \in {tid, [tid EXCEPT ![w] = Len(trips) + 1]}
      <3>1. [device |-> Dev(w), start |-> Rec(w).ts, end |-> 0] \in TripType
        BY <2>1 DEF TripType
      <3>2. trips' \in Seq(TripType) /\ Len(trips') = Len(trips) + 1
        BY <2>3, <3>1, TripAppended
      <3>3. UNCHANGED <<tripstate, tripid>>
        BY <1>3 DEF TripInsert
      <3>4. tripid \in [Devices -> 0 .. Len(trips')] /\ tid' \in [Workers -> 0 .. Len(trips')]
        <4>1. tripid \in [Devices -> 0 .. Len(trips')] /\ tid \in [Workers -> 0 .. Len(trips')]
          BY <1>1, <3>2 DEF TripsType
        <4>2. CASE tid' = tid
          BY <4>1, <4>2
        <4>3. CASE tid' = [tid EXCEPT ![w] = Len(trips) + 1]
          BY <1>1, <3>2, <4>1, <4>3
        <4> QED BY <2>3, <4>1, <4>2, <4>3
      <3> QED BY <1>11, <3>2, <3>3, <3>4 DEF TripsType
    <2> QED BY <1>3, <2>2, <2>3 DEF TripInsert
  <1>4. ASSUME NEW w \in Workers, TripSetActive(w) \/ TripSetIdle(w) PROVE TripsType'
    <2>1. Dev(w) \in Devices
      BY <1>4, CurType DEF TripSetActive, TripSetIdle, TripSetState, Step
    <2> QED BY <1>4, <1>11, <2>1
            DEF TripSetActive, TripSetIdle, TripSetState, TripsType, locals
  <1>5. ASSUME NEW w \in Workers, TripSetID(w) \/ TripDelID(w) PROVE TripsType'
    <2>1. Dev(w) \in Devices
      BY <1>5, CurType DEF TripSetID, TripDelID, TripPutID, Step
    <2>2. tid[w] \in 0 .. Len(trips)
      BY DEF TripsType
    <2> QED BY <1>1, <1>5, <1>11, <2>1, <2>2 DEF TripSetID, TripDelID, TripPutID, TripsType, locals
  <1>6. ASSUME NEW w \in Workers, TripGetID(w) PROVE TripsType'
    <2>1. Dev(w) \in Devices
      BY <1>6, CurType DEF TripGetID
    <2>2. tripid[Dev(w)] \in 0 .. Len(trips)
      BY <2>1 DEF TripsType
    <2> QED BY <1>1, <1>6, <1>11, <2>1, <2>2 DEF TripGetID, TripsType
  <1>7. ASSUME NEW w \in Workers, TripEnd(w) PROVE TripsType'
    <2>1. Dev(w) \in Devices /\ Rec(w).ts \in Nat \ {0} /\ tid[w] \in 0 .. Len(trips)
      BY <1>7, CurType DEF TripEnd, Step, TripsType
    <2>2. CASE trips' = trips
      BY <1>7, <1>11, <2>1, <2>2 DEF TripEnd, TripsType, locals
    <2>3. CASE trips' = [trips EXCEPT ![tid[w]].end = Rec(w).ts] /\ disturbances' = disturbances
      <3>1. trips' \in Seq(TripType) /\ Len(trips') = Len(trips)
        <4>1. CASE tid[w] = 0
          <5>1. trips' = trips
            <6>1. trips \in Seq(TripType) /\ DOMAIN trips = 1 .. Len(trips)
              BY DEF TripsType
            <6> QED BY <1>1, <2>3, <4>1, <6>1
          <5> QED BY <5>1 DEF TripsType
        <4>2. CASE tid[w] # 0
          <5>1. tid[w] \in 1 .. Len(trips)
            BY <1>1, <2>1, <4>2
          <5> QED BY <2>1, <2>3, <5>1, TripEnded
        <4> QED BY <4>1, <4>2
      <3> QED BY <1>7, <2>3, <3>1 DEF TripEnd, TripsType, locals
    <2> QED BY <1>7, <2>2, <2>3 DEF TripEnd
  <1>8. ASSUME NEW w \in Workers, Crash(w) PROVE TripsType'
    <2>1. Dev(w) \in Devices
      BY <1>8, CurType DEF Crash
    <2> QED BY <1>1, <1>8, <1>11, <2>1 DEF Crash, Forget, TripsType
  <1>9. ASSUME UNCHANGED tripDB, UNCHANGED tid \/ \E w \in Workers : Forget(w)
        PROVE  TripsType'
    BY <1>1, <1>9 DEF tripDB, Forget, TripsType
  <1>10. UNCHANGED tid \/ \E w \in Workers : TripInsert(w) \/ TripGetID(w) \/ Forget(w)
    <2>1. ASSUME NEW w \in Workers, Proceeds(w), ~TripInsert(w), ~TripGetID(w)
          PROVE  UNCHANGED tid
      BY <2>1, Zenon DEF Proceeds, LookupTenant, TripGet, TripSetActive, TripSetIdle,
           TripSetState, TripSetID, TripDelID, TripPutID, TripEnd, locals,
           Overspeed, SOS, AlertStep, InsertRecord, InsertFails, InsertFailsTo, UpdateLastSeen, UpdateLive,
           PublishEnriched, PublishLive
    <2>2. ASSUME NEW w \in Workers, Fetch(w) PROVE UNCHANGED tid
      BY <2>2 DEF Fetch
    <2>3. ASSUME NEW m \in Msgs, AckWaitExpires(m) PROVE UNCHANGED tid
      BY <2>3 DEF AckWaitExpires, locals
    <2>4. ASSUME NEW d \in Devices, DeleteDevice(d) \/ LiveExpires(d) PROVE UNCHANGED tid
      BY <2>4 DEF DeleteDevice, LiveExpires, locals
    <2> QED BY <2>1, <2>2, <2>3, <2>4, NextCases, ReturnsTo
  <1> QED BY <1>2, <1>3, <1>4, <1>5, <1>6, <1>7, <1>8, <1>9, <1>10, TripsFrame

(* The steps that neither alert, publish, drop nor ignore anything.        *)
LEMMA EffectFrame ==
  ASSUME Next,
         \A w \in Workers :
           /\ ~LookupTenant(w) /\ ~Overspeed(w) /\ ~SOS(w) /\ ~UpdateLastSeen(w)
           /\ ~UpdateLive(w) /\ ~PublishEnriched(w) /\ ~PublishLive(w)
           /\ ~DropMalformed(w) /\ ~DropUnknown(w)
  PROVE  UNCHANGED <<alerts, outputs, history>>
  <1>1. ASSUME NEW w \in Workers, Fetch(w) PROVE UNCHANGED <<alerts, outputs, history>>
    BY <1>1 DEF Fetch
  <1>2. ASSUME NEW w \in Workers, Proceeds(w) PROVE UNCHANGED <<alerts, outputs, history>>
    BY <1>2, Zenon DEF Proceeds, TripGet, TripInsert, TripSetActive,
         TripSetIdle, TripSetState, TripSetID, TripDelID, TripPutID, TripGetID, TripEnd,
         InsertRecord, InsertFails, InsertFailsTo
  <1>3. ASSUME NEW w \in Workers, Returns(w) PROVE UNCHANGED <<alerts, outputs, history>>
    BY <1>3, Zenon DEF Returns, GiveBack, AckDone, Crash
  <1>4. ASSUME NEW m \in Msgs, AckWaitExpires(m) PROVE UNCHANGED <<alerts, outputs, history>>
    BY <1>4 DEF AckWaitExpires
  <1>5. ASSUME NEW d \in Devices, DeleteDevice(d) \/ LiveExpires(d)
        PROVE  UNCHANGED <<alerts, outputs, history>>
    BY <1>5 DEF DeleteDevice, LiveExpires
  <1> QED BY <1>1, <1>2, <1>3, <1>4, <1>5, NextCases

LEMMA EffectStep ==
  ASSUME EffectType, PlaceType, Next
  PROVE  EffectType'
  <1>1. ASSUME NEW w \in Workers, pc[w] # "idle", NEW effect \in Effects
        PROVE  /\ cur[w] \in Msgs
               /\ ignored \cup {<<cur[w], effect>>} \subseteq Msgs \X Effects
    BY <1>1, CurType DEF EffectType
  <1>2. ASSUME NEW w \in Workers, LookupTenant(w) PROVE EffectType'
    <2>1. ignored' \subseteq Msgs \X Effects
      BY <1>1, <1>2 DEF LookupTenant, Ignoring, Step, Effects, EffectType
    <2> QED BY <1>2, <2>1 DEF LookupTenant, EffectType, outputs
  <1>3. ASSUME NEW w \in Workers, Overspeed(w) PROVE EffectType'
    <2>1. ignored' \subseteq Msgs \X Effects
      BY <1>1, <1>3 DEF Overspeed, AlertStep, Ignoring, Step, Effects, EffectType
    <2>2. cur[w] \in Msgs
      BY <1>3, CurType DEF Overspeed, AlertStep, Step
    <2>3. \/ alerts' = alerts
          \/ alerts' = [alerts EXCEPT ![cur[w]]["overspeed"] = @ + 1]
      BY <1>3 DEF Overspeed, AlertStep
    <2>4. alerts' \in [Msgs -> [overspeed : Nat, sos : Nat]]
      BY <2>2, <2>3 DEF EffectType
    <2> QED BY <1>3, <2>1, <2>4 DEF Overspeed, AlertStep, EffectType, outputs
  <1>4. ASSUME NEW w \in Workers, SOS(w) PROVE EffectType'
    <2>1. ignored' \subseteq Msgs \X Effects
      BY <1>1, <1>4 DEF SOS, AlertStep, Ignoring, Step, Effects, EffectType
    <2>2. cur[w] \in Msgs
      BY <1>4, CurType DEF SOS, AlertStep, Step
    <2>3. \/ alerts' = alerts
          \/ alerts' = [alerts EXCEPT ![cur[w]]["sos"] = @ + 1]
      BY <1>4 DEF SOS, AlertStep
    <2>4. alerts' \in [Msgs -> [overspeed : Nat, sos : Nat]]
      BY <2>2, <2>3 DEF EffectType
    <2> QED BY <1>4, <2>1, <2>4 DEF SOS, AlertStep, EffectType, outputs
  <1>5. ASSUME NEW w \in Workers,
               UpdateLastSeen(w) \/ UpdateLive(w) \/ PublishEnriched(w) \/ PublishLive(w)
        PROVE  EffectType'
    <2>1. pc[w] # "idle" /\ cur[w] \in Msgs
      BY <1>5, CurType DEF UpdateLastSeen, UpdateLive, PublishEnriched, PublishLive, Step
    <2>2. ignored' \subseteq Msgs \X Effects
      BY <1>1, <1>5, <2>1
         DEF UpdateLastSeen, UpdateLive, PublishEnriched, PublishLive, Ignoring, Effects, EffectType
    <2>3. enriched' \subseteq Msgs /\ notified' \subseteq Msgs
      BY <1>5, <2>1
         DEF UpdateLastSeen, UpdateLive, PublishEnriched, PublishLive, EffectType, outputs
    <2> QED BY <1>5, <2>2, <2>3
            DEF UpdateLastSeen, UpdateLive, PublishEnriched, PublishLive, EffectType
  <1>6. ASSUME NEW w \in Workers, DropMalformed(w) \/ DropUnknown(w) PROVE EffectType'
    <2>1. cur[w] \in Msgs
      BY <1>6, CurType DEF DropMalformed, DropUnknown, AckDrop, Step
    <2> QED BY <1>6, <2>1 DEF DropMalformed, DropUnknown, AckDrop, EffectType, outputs
  <1>7. CASE UNCHANGED <<alerts, outputs, history>>
    BY <1>7 DEF EffectType, outputs, history
  <1> QED BY <1>2, <1>3, <1>4, <1>5, <1>6, <1>7, EffectFrame

LEMMA FaultStep ==
  ASSUME faults \in 0 .. MaxFaults, Next
  PROVE  faults' \in 0 .. MaxFaults
  <1>1. ASSUME Works \/ \E kind : Fails(kind) PROVE faults' \in 0 .. MaxFaults
    BY <1>1, ConsumerAssumption DEF Works, Fails
  <1>2. ASSUME NEW w \in Workers, Fetch(w) PROVE faults' = faults
    BY <1>2 DEF Fetch
  <1>3. ASSUME NEW w \in Workers, Proceeds(w) \/ Returns(w)
        PROVE  Works \/ \E kind : Fails(kind)
    <2>1. CASE Proceeds(w)
      BY <2>1, Zenon DEF Proceeds, LookupTenant, TripGet, TripInsert, TripSetActive,
         TripSetIdle, TripSetState, TripSetID, TripDelID, TripPutID, TripGetID, TripEnd,
         Overspeed, SOS, AlertStep, InsertRecord, InsertFails, InsertFailsTo, UpdateLastSeen, UpdateLive,
         PublishEnriched, PublishLive, Ignoring
    <2>2. CASE Returns(w)
      BY <2>2, Zenon DEF Returns, DropMalformed, DropUnknown, AckDrop, SendAck, GiveBack,
         AckDone, Crash
    <2> QED BY <1>3, <2>1, <2>2
  <1>4. ASSUME NEW m \in Msgs, AckWaitExpires(m) PROVE Works \/ \E kind : Fails(kind)
    BY <1>4, Zenon DEF AckWaitExpires
  <1>5. ASSUME NEW d \in Devices, DeleteDevice(d) \/ LiveExpires(d)
        PROVE  faults' = faults \/ Fails("delete")
    BY <1>5 DEF DeleteDevice, LiveExpires
  <1> QED BY <1>1, <1>2, <1>3, <1>4, <1>5, NextCases

LEMMA TypeInvariant == Spec => [](TypeOK /\ QueueInv)
  <1>1. Init => TypeOK /\ QueueInv
    <2> SUFFICES ASSUME Init PROVE TypeOK /\ QueueInv
      OBVIOUS
    <2>1. QueueType /\ QueueInv
      <3>1. 0 \in 0 .. MaxDeliver /\ 0 < MaxDeliver /\ 0 \in 0 .. MaxFaults
        BY ConsumerAssumption
      <3> QED BY <3>1 DEF Init, QueueType, QueueInv
    <2>2. PlaceType /\ LocalType
      BY DEF Init, PlaceType, LocalType, Places
    <2>3. StoreType
      BY DEF Init, StoreType
    <2>6. faults \in 0 .. MaxFaults
      <3>1. faults = 0
        BY DEF Init
      <3> QED BY <3>1, ConsumerAssumption
    <2>4. TripsType
      <3>1. trips \in Seq(TripType) /\ Len(trips) = 0
        BY EmptySeq DEF Init
      <3>2. 0 \in 0 .. Len(trips)
        BY <3>1
      <3>3. tripid \in [Devices -> 0 .. Len(trips)] /\ tid \in [Workers -> 0 .. Len(trips)]
        BY <3>2 DEF Init, NoTrip
      <3>4. tripstate \in [Devices -> {"nil", "IDLE", "ACTIVE"}] /\ disturbances \in [Devices -> Nat]
        BY DEF Init
      <3> QED BY <3>1, <3>3, <3>4 DEF TripsType
    <2>5. EffectType
      <3>1. [overspeed |-> 0, sos |-> 0] \in [overspeed : Nat, sos : Nat]
        OBVIOUS
      <3> QED BY <3>1 DEF Init, EffectType
    <2> QED BY <2>1, <2>2, <2>3, <2>4, <2>5, <2>6 DEF TypeOK
  <1>2. TypeOK /\ QueueInv /\ [Next]_vars => TypeOK' /\ QueueInv'
    <2> SUFFICES ASSUME TypeOK, QueueInv, [Next]_vars PROVE TypeOK' /\ QueueInv'
      OBVIOUS
    <2>1. CASE Next
      BY <2>1, QueueStep, PlaceStep, LocalStep, StoreStep, TripsStep, EffectStep, FaultStep
         DEF TypeOK, QueueInv
    <2>2. CASE UNCHANGED vars
      BY <2>2 DEF vars, TypeOK, QueueInv, QueueType, PlaceType, LocalType, StoreType,
           TripsType, EffectType, nats, locals, tripDB, outputs, history
    <2> QED BY <2>1, <2>2
  <1> QED BY <1>1, <1>2, PTL DEF Spec

(* Every reachable state of the consumer, the replicas and the stores is   *)
(* well typed: no message is delivered more than MaxDeliver times, and a   *)
(* replica holds a message exactly while it is inside processMessage.      *)
THEOREM TypeCorrect == Spec => []TypeOK
  BY TypeInvariant, PTL

-----------------------------------------------------------------------------
(* The inductive invariants: what is known at each place of processMessage *)
(* about the message the replica holds.                                    *)

(* It has been delivered, and it is handled as what it is.                 *)
HeldInv ==
  \A w \in Workers : pc[w] # "idle" =>
    deliveries[cur[w]] > 0 /\ (pc[w] = "malformed" <=> ~Rec(w).ok)

(* From the second statement of Write on, its row is there.                *)
Saved == {"seen", "live", "enriched", "pubsub", "ack"}
SavedInv ==
  \A w \in Workers : pc[w] \in Saved => Key(cur[w]) \in avl

(* Each alert that is due, and each publication, was tried before the      *)
(* replica went on, unless there is no tenant.                             *)
OverspeedDone(m) ==
  Stream[m].speed > 120 => Attempted(m, "overspeed", alerts[m].overspeed > 0)
SosDone(m)      == Stream[m].sos => Attempted(m, "sos", alerts[m].sos > 0)
EnrichedDone(m) == Attempted(m, "enriched", m \in enriched)
NotifiedDone(m) == Attempted(m, "pubsub", m \in notified)

EffectAt(w) ==
  /\ pc[w] = "sos" /\ tenant[w] => OverspeedDone(cur[w])
  /\ pc[w] \in Saved \cup {"insert"} => OverspeedDone(cur[w]) /\ SosDone(cur[w])
  /\ pc[w] \in {"pubsub", "ack"} => EnrichedDone(cur[w])
  /\ pc[w] = "ack" => NotifiedDone(cur[w])

EffectInv == \A w \in Workers : EffectAt(w)

(* A replica without a tenant works for a device that is not known any     *)
(* more, or its lookup failed, and only such a replica drops a message.    *)
LookupInv ==
  \A w \in Workers :
    /\ pc[w] \notin {"idle", "malformed", "lookup"} /\ ~tenant[w] =>
         Dev(w) \notin known \/ <<cur[w], "lookup">> \in ignored
    /\ pc[w] = "drop" => ~tenant[w]

(* The two stores of the trip state at each place of TripMachine.Process.  *)
Settled(d) == IF tripstate[d] = "ACTIVE" THEN Open(d) = {tripid[d]} ELSE Open(d) = {}

TripAt(w) ==
  LET d == Dev(w) IN
    /\ pc[w] = "trip insert" => tripstate[d] # "ACTIVE" /\ Open(d) = {}
    /\ pc[w] = "trip set"    => Open(d) = {tid[w]}
    /\ pc[w] = "trip setid"  => tripstate[d] = "ACTIVE" /\ Open(d) = {tid[w]}
    /\ pc[w] = "trip getid"  => tripstate[d] = "ACTIVE" /\ Open(d) = {tripid[d]}
    /\ pc[w] = "trip update" => /\ tripstate[d] = "ACTIVE" /\ Open(d) = {tripid[d]}
                                /\ tid[w] = tripid[d]
    /\ pc[w] = "trip idle"   => Open(d) = {}
    /\ pc[w] = "trip delid"  => tripstate[d] # "ACTIVE" /\ Open(d) = {}

(* For a device that was not disturbed: one replica at most is inside the  *)
(* trip machine, and the stores are as its place says, or settled.         *)
TripClean(d) ==
  /\ \A v, w \in Workers : InTrip(v) /\ InTrip(w) /\ Dev(v) = d /\ Dev(w) = d => v = w
  /\ \A w \in Workers : InTrip(w) /\ Dev(w) = d => TripAt(w)
  /\ (\A w \in Workers : InTrip(w) => Dev(w) # d) => Settled(d)

TripInv == \A d \in Devices \ disturbed : TripClean(d)

(* Disturbed or not, a trip id leads to a trip of the device it is kept    *)
(* for, so nothing a replica does for one device touches another's trips.  *)
TripOwner ==
  /\ \A d \in Devices : tripid[d] # NoTrip => trips[tripid[d]].device = d
  /\ \A w \in Workers : tid[w] # NoTrip => pc[w] # "idle" /\ trips[tid[w]].device = Dev(w)

-----------------------------------------------------------------------------
(* A step of one replica leaves the others where they are, and whatever    *)
(* has been stored, published, dropped or ignored stays so.                *)

LEMMA Others ==
  ASSUME PlaceType, LocalType, TripsType, NEW w \in Workers,
         Fetch(w) \/ Proceeds(w) \/ Returns(w), NEW v \in Workers, v # w
  PROVE  pc'[v] = pc[v] /\ cur'[v] = cur[v] /\ tenant'[v] = tenant[v] /\ tid'[v] = tid[v]
  <1>1. CASE Fetch(w)
    BY <1>1 DEF Fetch, Step, PlaceType
  <1>2. CASE Returns(w)
    <2>1. Forget(w) /\ pc' = [pc EXCEPT ![w] = "idle"]
      BY <1>2, ReturnsTo
    <2>2. pc'[v] = pc[v] /\ cur'[v] = cur[v]
      BY <2>1 DEF Forget, PlaceType
    <2>3. tenant'[v] = tenant[v]
      BY <2>1 DEF Forget, LocalType
    <2>4. tid'[v] = tid[v]
      BY <2>1 DEF Forget, TripsType
    <2> QED BY <2>2, <2>3, <2>4
  <1>3. CASE Proceeds(w)
    <2>1. pc'[v] = pc[v] /\ cur'[v] = cur[v]
      BY <1>3, ProceedsTo DEF PlaceType
    <2>2. CASE LookupTenant(w)
      BY <2>1, <2>2 DEF LookupTenant, LocalType
    <2>3. CASE TripInsert(w) \/ TripGetID(w)
      BY <2>1, <2>3 DEF TripInsert, TripGetID, TripsType
    <2>4. ASSUME ~LookupTenant(w), ~TripInsert(w), ~TripGetID(w)
          PROVE  tenant' = tenant /\ tid' = tid
      BY <1>3, <2>4, Zenon DEF Proceeds, TripGet, TripSetActive, TripSetIdle,
         TripSetState, TripSetID, TripDelID, TripPutID, TripEnd, locals,
         Overspeed, SOS, AlertStep, InsertRecord, InsertFails, InsertFailsTo, UpdateLastSeen, UpdateLive,
         PublishEnriched, PublishLive
    <2> QED BY <2>1, <2>2, <2>3, <2>4
  <1> QED BY <1>1, <1>2, <1>3

(* Steps that are not a replica's leave the replicas alone.                *)
LEMMA Environment ==
  ASSUME \/ \E m \in Msgs : AckWaitExpires(m)
         \/ \E d \in Devices : DeleteDevice(d) \/ LiveExpires(d)
  PROVE  UNCHANGED <<pc, locals, avl, lastSeen, tripDB, alerts, outputs, history, deliveries>>
  BY DEF AckWaitExpires, DeleteDevice, LiveExpires, nats

LEMMA Grows ==
  ASSUME TypeOK, Next
  PROVE  /\ avl \subseteq avl' /\ known' \subseteq known
         /\ enriched \subseteq enriched' /\ notified \subseteq notified'
         /\ ignored \subseteq ignored' /\ dropped \subseteq dropped'
  <1>1. avl \subseteq avl' /\ known' \subseteq known
    <2>1. ASSUME NEW w \in Workers, InsertRecord(w) \/ UpdateLastSeen(w) \/ UpdateLive(w)
          PROVE  avl \subseteq avl' /\ known' = known
      BY <2>1 DEF InsertRecord, UpdateLastSeen, UpdateLive
    <2>2. ASSUME NEW d \in Devices, DeleteDevice(d) \/ LiveExpires(d)
          PROVE  avl' = avl /\ known' \subseteq known
      BY <2>2 DEF DeleteDevice, LiveExpires
    <2> QED BY <2>1, <2>2, StoreFrame
  <1>2. /\ enriched \subseteq enriched' /\ notified \subseteq notified'
        /\ ignored \subseteq ignored' /\ dropped \subseteq dropped'
    <2>1. ASSUME NEW w \in Workers, LookupTenant(w) \/ Overspeed(w) \/ SOS(w)
          PROVE  ignored \subseteq ignored' /\ UNCHANGED <<outputs, dropped>>
      BY <2>1 DEF LookupTenant, Overspeed, SOS, AlertStep, Ignoring
    <2>2. ASSUME NEW w \in Workers, UpdateLastSeen(w) \/ UpdateLive(w)
          PROVE  ignored \subseteq ignored' /\ UNCHANGED <<outputs, dropped>>
      BY <2>2 DEF UpdateLastSeen, UpdateLive, Ignoring
    <2>3. ASSUME NEW w \in Workers, PublishEnriched(w) \/ PublishLive(w)
          PROVE  /\ ignored \subseteq ignored' /\ dropped' = dropped
                 /\ enriched \subseteq enriched' /\ notified \subseteq notified'
      BY <2>3 DEF PublishEnriched, PublishLive, Ignoring
    <2>4. ASSUME NEW w \in Workers, DropMalformed(w) \/ DropUnknown(w)
          PROVE  dropped \subseteq dropped' /\ UNCHANGED <<outputs, ignored>>
      BY <2>4 DEF DropMalformed, DropUnknown, AckDrop
    <2> QED BY <2>1, <2>2, <2>3, <2>4, EffectFrame DEF outputs, history
  <1> QED BY <1>1, <1>2

(* An alert is never taken back.                                           *)
LEMMA AlertsGrow ==
  ASSUME TypeOK, Next, NEW m \in Msgs
  PROVE  /\ alerts[m].overspeed > 0 => alerts'[m].overspeed > 0
         /\ alerts[m].sos > 0 => alerts'[m].sos > 0
  <1>1. /\ alerts \in [Msgs -> [overspeed : Nat, sos : Nat]]
        /\ alerts[m].overspeed \in Nat /\ alerts[m].sos \in Nat
    BY DEF TypeOK, EffectType
  <1>2. ASSUME NEW w \in Workers, Overspeed(w)
        PROVE  alerts' = alerts \/ (cur[w] \in Msgs /\ alerts' = [alerts EXCEPT ![cur[w]]["overspeed"] = @ + 1])
    BY <1>2, CurType DEF Overspeed, AlertStep, Step, TypeOK
  <1>3. ASSUME NEW w \in Workers, SOS(w)
        PROVE  alerts' = alerts \/ (cur[w] \in Msgs /\ alerts' = [alerts EXCEPT ![cur[w]]["sos"] = @ + 1])
    BY <1>3, CurType DEF SOS, AlertStep, Step, TypeOK
  <1>4. ASSUME NEW k \in Msgs, alerts' = [alerts EXCEPT ![k]["overspeed"] = @ + 1]
        PROVE  /\ alerts[m].overspeed > 0 => alerts'[m].overspeed > 0
               /\ alerts[m].sos > 0 => alerts'[m].sos > 0
    BY <1>1, <1>4
  <1>5. ASSUME NEW k \in Msgs, alerts' = [alerts EXCEPT ![k]["sos"] = @ + 1]
        PROVE  /\ alerts[m].overspeed > 0 => alerts'[m].overspeed > 0
               /\ alerts[m].sos > 0 => alerts'[m].sos > 0
    BY <1>1, <1>5
  <1>6. ASSUME NEW w \in Workers,
               LookupTenant(w) \/ UpdateLastSeen(w) \/ UpdateLive(w)
                 \/ PublishEnriched(w) \/ PublishLive(w) \/ DropMalformed(w) \/ DropUnknown(w)
        PROVE  alerts' = alerts
    BY <1>6, Zenon DEF LookupTenant, UpdateLastSeen, UpdateLive, PublishEnriched, PublishLive,
         DropMalformed, DropUnknown, AckDrop
  <1> QED BY <1>2, <1>3, <1>4, <1>5, <1>6, EffectFrame

LEMMA DoneStable ==
  ASSUME TypeOK, Next, NEW m \in Msgs
  PROVE  /\ OverspeedDone(m) => OverspeedDone(m)'
         /\ SosDone(m) => SosDone(m)'
         /\ EnrichedDone(m) => EnrichedDone(m)'
         /\ NotifiedDone(m) => NotifiedDone(m)'
         /\ Processed(m) => Processed(m)'
  BY Grows, AlertsGrow
     DEF OverspeedDone, SosDone, EnrichedDone, NotifiedDone, Processed, Attempted, Key

-----------------------------------------------------------------------------
(* The live view.                                                          *)

(* How a replica gets behind the INSERT.                                   *)
LEMMA SavedFrom ==
  ASSUME PlaceType, NEW w \in Workers, Fetch(w) \/ Proceeds(w) \/ Returns(w), pc'[w] \in Saved
  PROVE  cur'[w] = cur[w] /\ (InsertRecord(w) \/ pc[w] \in Saved)
  <1> USE DEF Saved
  <1>1. CASE Fetch(w)
    BY <1>1 DEF Fetch, Step, PlaceType
  <1>2. CASE Returns(w)
    BY <1>2, ReturnsTo DEF PlaceType
  <1>3. CASE Proceeds(w)
    <2>1. cur' = cur
      BY <1>3, ProceedsTo
    <2>2. CASE LookupTenant(w) \/ InsertFails(w) \/ UpdateLastSeen(w) \/ UpdateLive(w)
                \/ PublishEnriched(w) \/ PublishLive(w)
      BY <2>1, <2>2 DEF LookupTenant, InsertFails, InsertFailsTo, UpdateLastSeen, UpdateLive, PublishEnriched,
           PublishLive, Step, PlaceType
    <2>3. CASE TripGet(w)
      BY <2>3 DEF TripGet, TripBranch, Step, PlaceType
    <2>4. CASE TripInsert(w) \/ TripGetID(w)
      BY <2>4 DEF TripInsert, TripGetID, Step, PlaceType
    <2>5. CASE TripSetActive(w) \/ TripSetIdle(w) \/ TripSetID(w) \/ TripDelID(w) \/ TripEnd(w)
      BY <2>5 DEF TripSetActive, TripSetIdle, TripSetState, TripSetID, TripDelID, TripPutID,
           TripEnd, Step, PlaceType
    <2>6. CASE Overspeed(w) \/ SOS(w)
      BY <2>6 DEF Overspeed, SOS, AlertStep, Step, PlaceType
    <2> QED BY <1>3, <2>1, <2>2, <2>3, <2>4, <2>5, <2>6 DEF Proceeds
  <1> QED BY <1>1, <1>2, <1>3

LEMMA SavedStep ==
  ASSUME TypeOK, SavedInv, Next
  PROVE  SavedInv'
  <1> USE DEF Key
  <1>1. PlaceType /\ LocalType /\ TripsType
    BY DEF TypeOK
  <1>2. avl \subseteq avl'
    BY Grows
  <1>3. ASSUME NEW w \in Workers, Fetch(w) \/ Proceeds(w) \/ Returns(w) PROVE SavedInv'
    <2> SUFFICES ASSUME NEW v \in Workers, pc'[v] \in Saved PROVE Key(cur'[v]) \in avl'
      BY DEF SavedInv
    <2>1. CASE v # w
      BY <1>1, <1>2, <1>3, <2>1, Others DEF SavedInv
    <2>2. CASE v = w
      BY <1>1, <1>2, <1>3, <2>2, SavedFrom DEF SavedInv, InsertRecord
    <2> QED BY <2>1, <2>2
  <1>4. CASE UNCHANGED <<pc, locals, avl>>
    BY <1>4 DEF SavedInv, locals
  <1> QED BY <1>3, <1>4, NextCases, Environment

LEMMA LiveStep ==
  ASSUME TypeOK, SavedInv, LiveIsStored, Next
  PROVE  LiveIsStored'
  <1>1. avl \subseteq avl' /\ PlaceType /\ StoreType
    BY Grows DEF TypeOK
  <1>2. ASSUME NEW w \in Workers, UpdateLastSeen(w) PROVE LiveIsStored'
    <2>1. Dev(w) \in Devices /\ <<Dev(w), Rec(w).ts>> \in avl
      BY <1>1, <1>2, CurType DEF UpdateLastSeen, Step, SavedInv, Saved
    <2> QED BY <1>1, <1>2, <2>1 DEF UpdateLastSeen, LiveIsStored, StoreType
  <1>3. ASSUME NEW w \in Workers, UpdateLive(w) PROVE LiveIsStored'
    <2>1. Dev(w) \in Devices /\ <<Dev(w), Rec(w).ts>> \in avl
      BY <1>1, <1>3, CurType DEF UpdateLive, Step, SavedInv, Saved
    <2> QED BY <1>1, <1>3, <2>1 DEF UpdateLive, LiveIsStored, StoreType
  <1>4. ASSUME NEW d \in Devices, DeleteDevice(d) \/ LiveExpires(d) PROVE LiveIsStored'
    BY <1>1, <1>4 DEF DeleteDevice, LiveExpires, LiveIsStored, StoreType
  <1>5. ASSUME NEW w \in Workers, InsertRecord(w) PROVE UNCHANGED <<lastSeen, live>>
    BY <1>5 DEF InsertRecord
  <1>6. CASE UNCHANGED <<lastSeen, live>>
    BY <1>1, <1>6 DEF LiveIsStored
  <1> QED BY <1>2, <1>3, <1>4, <1>5, <1>6, StoreFrame

(* The live snapshot of a device and its last_seen_at only ever show a     *)
(* position that avl_records holds, although UpdateLive and the UPDATE are *)
(* statements of their own after the INSERT and any replica may die, be    *)
(* slow or repeat a message between them.                                  *)
THEOREM LiveViewIsStored == Spec => []LiveIsStored
  <1>1. Init => SavedInv /\ LiveIsStored
    BY DEF Init, SavedInv, LiveIsStored, Saved
  <1>2. TypeOK /\ SavedInv /\ LiveIsStored /\ [Next]_vars => SavedInv' /\ LiveIsStored'
    <2>1. TypeOK /\ SavedInv /\ LiveIsStored /\ Next => SavedInv' /\ LiveIsStored'
      BY SavedStep, LiveStep
    <2>2. SavedInv /\ LiveIsStored /\ UNCHANGED vars => SavedInv' /\ LiveIsStored'
      BY DEF vars, locals, SavedInv, LiveIsStored, Key
    <2> QED BY <2>1, <2>2
  <1> QED BY <1>1, <1>2, TypeCorrect, PTL DEF Spec

-----------------------------------------------------------------------------
(* What is acknowledged has been processed.                                *)

LEMMA OverspeedTried ==
  ASSUME TypeOK, NEW w \in Workers, Overspeed(w), tenant[w]
  PROVE  OverspeedDone(cur[w])'
  <1>1. cur[w] \in Msgs /\ Rec(w) = Stream[cur[w]] /\ cur' = cur
    BY CurType DEF TypeOK, Overspeed, AlertStep, Step, locals
  <1>2. CASE alerts' = [alerts EXCEPT ![cur[w]]["overspeed"] = @ + 1]
    <2>1. alerts \in [Msgs -> [overspeed : Nat, sos : Nat]]
      BY DEF TypeOK, EffectType
    <2>2. alerts'[cur[w]].overspeed > 0
      BY <1>1, <1>2, <2>1
    <2> QED BY <1>1, <2>2 DEF OverspeedDone, Attempted
  <1>3. CASE ignored' = ignored \cup {<<cur[w], "overspeed">>}
    BY <1>1, <1>3 DEF OverspeedDone, Attempted
  <1>4. CASE ~(Rec(w).speed > 120)
    BY <1>1, <1>4 DEF OverspeedDone
  <1> QED BY <1>2, <1>3, <1>4 DEF Overspeed, AlertStep, Ignoring

LEMMA SosTried ==
  ASSUME TypeOK, NEW w \in Workers, SOS(w), tenant[w]
  PROVE  SosDone(cur[w])'
  <1>1. cur[w] \in Msgs /\ Rec(w) = Stream[cur[w]] /\ cur' = cur
    BY CurType DEF TypeOK, SOS, AlertStep, Step, locals
  <1>2. CASE alerts' = [alerts EXCEPT ![cur[w]]["sos"] = @ + 1]
    <2>1. alerts \in [Msgs -> [overspeed : Nat, sos : Nat]]
      BY DEF TypeOK, EffectType
    <2>2. alerts'[cur[w]].sos > 0
      BY <1>1, <1>2, <2>1
    <2> QED BY <1>1, <2>2 DEF SosDone, Attempted
  <1>3. CASE ignored' = ignored \cup {<<cur[w], "sos">>}
    BY <1>1, <1>3 DEF SosDone, Attempted
  <1>4. CASE ~Rec(w).sos
    BY <1>1, <1>4 DEF SosDone
  <1> QED BY <1>2, <1>3, <1>4 DEF SOS, AlertStep, Ignoring

LEMMA EffectAtStep ==
  ASSUME TypeOK, NEW w \in Workers, EffectAt(w), Next, Fetch(w) \/ Proceeds(w) \/ Returns(w)
  PROVE  EffectAt(w)'
  <1>1. PlaceType /\ LocalType
    BY DEF TypeOK
  <1>2. CASE Fetch(w)
    <2>1. pc'[w] \in {"lookup", "malformed"}
      BY <1>1, <1>2 DEF Fetch, Step, PlaceType
    <2> QED BY <2>1 DEF EffectAt, Saved
  <1>3. CASE Returns(w)
    <2>1. pc'[w] = "idle"
      BY <1>1, <1>3, ReturnsTo DEF PlaceType
    <2> QED BY <2>1 DEF EffectAt, Saved
  <1>4. CASE LookupTenant(w) \/ TripSetActive(w) \/ TripSetIdle(w) \/ TripSetID(w)
              \/ TripDelID(w) \/ TripEnd(w)
    <2>1. pc'[w] \in {"trip", "trip setid", "trip delid", "trip idle", "overspeed"}
      BY <1>1, <1>4 DEF LookupTenant, TripSetActive, TripSetIdle, TripSetState, TripSetID,
           TripDelID, TripPutID, TripEnd, Step, PlaceType
    <2> QED BY <2>1 DEF EffectAt, Saved
  <1>5. CASE TripGet(w) \/ TripInsert(w) \/ TripGetID(w)
    <2>1. pc'[w] \in {"trip insert", "trip getid", "overspeed", "trip set", "trip idle",
                      "trip update"}
      BY <1>1, <1>5 DEF TripGet, TripBranch, TripInsert, TripGetID, Step, PlaceType
    <2> QED BY <2>1 DEF EffectAt, Saved
  <1>6. CASE Overspeed(w)
    <2>1. pc'[w] = "sos" /\ tenant' = tenant /\ cur' = cur
      BY <1>1, <1>6 DEF Overspeed, AlertStep, Step, PlaceType, locals
    <2> QED BY <1>6, <2>1, OverspeedTried DEF EffectAt, Saved
  <1>7. CASE SOS(w)
    <2>1. pc[w] = "sos" /\ tenant' = tenant /\ cur' = cur /\ cur[w] \in Msgs
      BY <1>1, <1>7, CurType DEF SOS, AlertStep, Step, locals
    <2>2. CASE tenant[w]
      <3>1. pc'[w] = "insert"
        BY <1>1, <1>7, <2>2 DEF SOS, AlertStep, Step, PlaceType
      <3>2. OverspeedDone(cur[w])'
        BY <2>1, <2>2, DoneStable DEF EffectAt, OverspeedDone
      <3>3. SosDone(cur[w])'
        BY <1>7, <2>2, SosTried
      <3> QED BY <3>1, <3>2, <3>3 DEF EffectAt, Saved
    <2>3. CASE ~tenant[w]
      <3>1. pc'[w] = "drop"
        BY <1>1, <1>7, <2>3 DEF SOS, AlertStep, Step, PlaceType
      <3> QED BY <3>1 DEF EffectAt, Saved
    <2> QED BY <2>2, <2>3
  <1>9. CASE InsertFails(w)
    <2>1. pc'[w] = "nak"
      BY <1>1, <1>9 DEF InsertFails, InsertFailsTo, Step, PlaceType
    <2> QED BY <2>1 DEF EffectAt, Saved
  <1>8. CASE InsertRecord(w) \/ UpdateLastSeen(w) \/ UpdateLive(w) \/ PublishEnriched(w)
              \/ PublishLive(w)
    <2>1. /\ pc[w] \in Saved \cup {"insert"} /\ cur' = cur /\ cur[w] \in Msgs
          /\ pc[w] # "idle"
      BY <1>1, <1>8, CurType DEF InsertRecord, UpdateLastSeen, UpdateLive, PublishEnriched,
           PublishLive, Step, locals, Saved
    <2>2. OverspeedDone(cur[w]) /\ SosDone(cur[w])
      BY <2>1 DEF EffectAt
    <2>3. OverspeedDone(cur[w])' /\ SosDone(cur[w])'
      BY <2>1, <2>2, DoneStable DEF OverspeedDone, SosDone
    <2>4. pc'[w] # "sos" /\ (pc'[w] \in {"pubsub", "ack"} => PublishEnriched(w) \/ PublishLive(w))
      BY <1>1, <1>8 DEF InsertRecord, UpdateLastSeen, UpdateLive, PublishEnriched,
           PublishLive, Step, PlaceType
    <2>5. PublishEnriched(w) => EnrichedDone(cur[w])' /\ pc'[w] = "pubsub"
      BY <1>1, <2>1 DEF PublishEnriched, Ignoring, EnrichedDone, Attempted, Step, PlaceType
    <2>6. ASSUME PublishLive(w) PROVE EnrichedDone(cur[w])' /\ NotifiedDone(cur[w])'
      <3>1. EnrichedDone(cur[w])
        BY <2>6 DEF PublishLive, Step, EffectAt
      <3>2. EnrichedDone(cur[w])'
        BY <2>1, <3>1, DoneStable DEF EnrichedDone
      <3> QED BY <2>1, <2>6, <3>2 DEF PublishLive, Ignoring, NotifiedDone, Attempted
    <2> QED BY <2>3, <2>4, <2>5, <2>6 DEF EffectAt
  <1> QED BY <1>2, <1>3, <1>4, <1>5, <1>6, <1>7, <1>8, <1>9 DEF Proceeds

LEMMA EffectInvStep ==
  ASSUME TypeOK, EffectInv, Next
  PROVE  EffectInv'
  <1>1. PlaceType /\ LocalType /\ TripsType
    BY DEF TypeOK
  <1>2. \A w \in Workers : EffectAt(w)
    BY DEF EffectInv, EffectAt
  <1>3. ASSUME NEW v \in Workers, pc'[v] = pc[v], cur'[v] = cur[v], tenant'[v] = tenant[v]
        PROVE  EffectAt(v)'
    <2>1. CASE pc[v] = "idle"
      BY <1>3, <2>1 DEF EffectAt, Saved
    <2>2. CASE pc[v] # "idle"
      <3>1. cur[v] \in Msgs
        BY <1>1, <2>2, CurType
      <3>2. /\ OverspeedDone(cur[v]) => OverspeedDone(cur[v])'
            /\ SosDone(cur[v]) => SosDone(cur[v])'
            /\ EnrichedDone(cur[v]) => EnrichedDone(cur[v])'
            /\ NotifiedDone(cur[v]) => NotifiedDone(cur[v])'
        BY <1>3, <3>1, DoneStable DEF OverspeedDone, SosDone, EnrichedDone, NotifiedDone, Attempted
      <3> QED BY <1>2, <1>3, <3>2 DEF EffectAt
    <2> QED BY <2>1, <2>2
  <1>4. ASSUME NEW w \in Workers, Fetch(w) \/ Proceeds(w) \/ Returns(w)
        PROVE  \A v \in Workers : EffectAt(v)'
    <2>1. EffectAt(w)'
      BY <1>2, <1>4, EffectAtStep
    <2>2. \A v \in Workers \ {w} : EffectAt(v)'
      BY <1>1, <1>3, <1>4, Others
    <2> QED BY <2>1, <2>2
  <1>5. CASE UNCHANGED <<pc, locals>>
    BY <1>3, <1>5 DEF locals, EffectInv, EffectAt
  <1>6. ASSUME \A v \in Workers : EffectAt(v)' PROVE EffectInv'
    BY <1>6 DEF EffectAt, EffectInv
  <1> QED BY <1>4, <1>5, <1>6, NextCases, Environment

(* A message becomes acknowledged by a replica that holds it.              *)
LEMMA AckedBy ==
  ASSUME TypeOK, Next, NEW m \in Msgs, status'[m] = "acked", status[m] # "acked"
  PROVE  \E w \in Workers :
           /\ DropMalformed(w) \/ DropUnknown(w) \/ AckDone(w)
           /\ cur[w] = m
  <1>1. PlaceType /\ QueueType
    BY DEF TypeOK
  <1>2. ASSUME NEW w \in Workers, SendAck(w), pc[w] # "idle" PROVE cur[w] = m
    <2>1. cur[w] \in Msgs
      BY <1>1, <1>2, CurType
    <2> QED BY <1>1, <1>2, <2>1 DEF SendAck, Ack, QueueType
  <1>3. ASSUME NEW w \in Workers, DropMalformed(w) \/ DropUnknown(w) \/ AckDone(w)
        PROVE  SendAck(w) /\ pc[w] # "idle"
    BY <1>3 DEF DropMalformed, DropUnknown, AckDrop, AckDone, Step
  <1>4. ASSUME NEW w \in Workers, Fetch(w) PROVE FALSE
    <2>1. PICK k \in Msgs : status' = [status EXCEPT ![k] = "inflight"]
      BY <1>4, Zenon DEF Fetch
    <2> QED BY <1>1, <2>1 DEF QueueType
  <1>5. ASSUME NEW k \in Msgs, Requeue(k) PROVE FALSE
    BY <1>1, <1>5 DEF Requeue, QueueType
  <1>6. ASSUME NEW w \in Workers, GiveBack(w) PROVE FALSE
    <2>1. cur[w] \in Msgs
      BY <1>1, <1>6, CurType DEF GiveBack, Step
    <2> QED BY <1>5, <1>6, <2>1 DEF GiveBack, Nak
  <1>7. ASSUME NEW k \in Msgs, AckWaitExpires(k) PROVE FALSE
    BY <1>5, <1>7 DEF AckWaitExpires
  <1>8. ASSUME NEW w \in Workers, Proceeds(w) \/ Crash(w) PROVE status' = status
    BY <1>8, QueueFrame DEF nats
  <1>9. ASSUME NEW d \in Devices, DeleteDevice(d) \/ LiveExpires(d) PROVE status' = status
    BY <1>9 DEF DeleteDevice, LiveExpires, nats
  <1> QED BY <1>2, <1>3, <1>4, <1>6, <1>7, <1>8, <1>9, NextCases DEF Returns

LEMMA AckedStep ==
  ASSUME TypeOK, SavedInv, EffectInv, AckedIsProcessed, Next
  PROVE  AckedIsProcessed'
  <1> SUFFICES ASSUME NEW m \in Msgs, status'[m] = "acked", m \notin dropped'
               PROVE  Processed(m)'
    BY DEF AckedIsProcessed
  <1>1. m \notin dropped
    BY Grows
  <1>2. CASE status[m] = "acked"
    BY <1>1, <1>2, DoneStable DEF AckedIsProcessed
  <1>3. CASE status[m] # "acked"
    <2>1. PICK w \in Workers :
            (DropMalformed(w) \/ DropUnknown(w) \/ AckDone(w)) /\ cur[w] = m
      BY <1>3, AckedBy
    <2>2. AckDone(w)
      BY <2>1 DEF DropMalformed, DropUnknown, AckDrop
    <2>3. pc[w] = "ack"
      BY <2>2 DEF AckDone, Step
    <2>4. Key(m) \in avl
      BY <2>1, <2>3 DEF SavedInv, Saved
    <2>5. OverspeedDone(m) /\ SosDone(m) /\ EnrichedDone(m) /\ NotifiedDone(m)
      BY <2>1, <2>3 DEF EffectInv, EffectAt, Saved
    <2>6. Processed(m)
      BY <2>4, <2>5 DEF Processed, OverspeedDone, SosDone, EnrichedDone, NotifiedDone
    <2> QED BY <2>6, DoneStable
  <1> QED BY <1>2, <1>3

(* An acknowledged message was deliberately dropped, or its row is in      *)
(* avl_records and every other effect of processMessage was attempted,     *)
(* for any number of replicas, crashes, redeliveries and late answers.     *)
THEOREM AckedProcessed == Spec => []AckedIsProcessed
  <1> DEFINE Inv == SavedInv /\ EffectInv /\ AckedIsProcessed
  <1>1. Init => Inv
    <2>1. Init => SavedInv /\ EffectInv
      BY DEF Init, SavedInv, EffectInv, EffectAt, Saved
    <2>2. Init => AckedIsProcessed
      BY DEF Init, AckedIsProcessed
    <2> QED BY <2>1, <2>2
  <1>2. TypeOK /\ Inv /\ [Next]_vars => Inv'
    <2>1. TypeOK /\ Inv /\ Next => Inv'
      BY SavedStep, EffectInvStep, AckedStep
    <2>2. Inv /\ UNCHANGED vars => Inv'
      <3> SUFFICES ASSUME Inv, UNCHANGED vars PROVE Inv'
        OBVIOUS
      <3>1. UNCHANGED <<status, pc, cur, tenant, avl, alerts, enriched, notified, dropped, ignored>>
        BY DEF vars, nats, locals, outputs, history
      <3>2. SavedInv'
        BY <3>1 DEF SavedInv, Key
      <3>3. EffectInv'
        BY <3>1 DEF EffectInv, EffectAt, OverspeedDone, SosDone, EnrichedDone, NotifiedDone, Attempted
      <3>4. AckedIsProcessed'
        BY <3>1 DEF AckedIsProcessed, Processed, Attempted, Key
      <3> QED BY <3>2, <3>3, <3>4
    <2> QED BY <2>1, <2>2
  <1>3. Inv => AckedIsProcessed
    OBVIOUS
  <1> QED BY <1>1, <1>2, <1>3, TypeCorrect, PTL DEF Spec

-----------------------------------------------------------------------------
(* What is dropped.                                                        *)

(* The places a step other than Fetch and LookupTenant starts from and     *)
(* leads to.                                                               *)
LEMMA ProceedsFrom ==
  ASSUME PlaceType, NEW w \in Workers, Proceeds(w)
  PROVE  /\ pc[w] \notin {"idle", "malformed"} /\ pc'[w] \notin {"idle", "malformed"}
         /\ pc[w] = "lookup" => LookupTenant(w)
         /\ pc'[w] = "drop" => SOS(w) /\ ~tenant[w]
  <1>1. CASE LookupTenant(w) \/ InsertRecord(w) \/ InsertFails(w) \/ UpdateLastSeen(w)
              \/ UpdateLive(w) \/ PublishEnriched(w) \/ PublishLive(w)
    BY <1>1 DEF LookupTenant, InsertRecord, InsertFails, InsertFailsTo, UpdateLastSeen, UpdateLive, PublishEnriched,
         PublishLive, Step, PlaceType
  <1>2. CASE TripGet(w)
    BY <1>2 DEF TripGet, TripBranch, Step, PlaceType
  <1>3. CASE TripInsert(w) \/ TripGetID(w)
    BY <1>3 DEF TripInsert, TripGetID, Step, PlaceType
  <1>4. CASE TripSetActive(w) \/ TripSetIdle(w) \/ TripSetID(w) \/ TripDelID(w) \/ TripEnd(w)
    BY <1>4 DEF TripSetActive, TripSetIdle, TripSetState, TripSetID, TripDelID, TripPutID,
         TripEnd, Step, PlaceType
  <1>5. CASE Overspeed(w) \/ SOS(w)
    BY <1>5 DEF Overspeed, SOS, AlertStep, Step, PlaceType
  <1> QED BY <1>1, <1>2, <1>3, <1>4, <1>5 DEF Proceeds

(* A delivery is never taken back.                                         *)
LEMMA DeliveriesGrow ==
  ASSUME TypeOK, Next, NEW m \in Msgs, deliveries[m] > 0
  PROVE  deliveries'[m] > 0
  <1>1. deliveries \in [Msgs -> 0 .. MaxDeliver] /\ deliveries[m] \in Nat
    <2>1. deliveries \in [Msgs -> 0 .. MaxDeliver]
      BY DEF TypeOK, QueueType
    <2>2. deliveries[m] \in 0 .. MaxDeliver
      BY <2>1
    <2> QED BY <2>1, <2>2, ConsumerAssumption
  <1>2. ASSUME NEW w \in Workers, Fetch(w) PROVE deliveries'[m] > 0
    <2>1. PICK k \in Msgs : deliveries' = [deliveries EXCEPT ![k] = @ + 1]
      BY <1>2, Zenon DEF Fetch
    <2> QED BY <1>1, <2>1
  <1>3. ASSUME NEW w \in Workers, Proceeds(w) \/ Returns(w) PROVE deliveries' = deliveries
    BY <1>3, QueueFrame DEF nats, Returns, DropMalformed, DropUnknown, AckDrop, GiveBack, AckDone
  <1> QED BY <1>2, <1>3, NextCases, Environment

LEMMA HeldStep ==
  ASSUME TypeOK, HeldInv, Next
  PROVE  HeldInv'
  <1>1. PlaceType /\ LocalType /\ TripsType
    BY DEF TypeOK
  <1> SUFFICES ASSUME NEW v \in Workers, pc'[v] # "idle"
               PROVE  deliveries'[cur'[v]] > 0 /\ (pc'[v] = "malformed" <=> ~Stream[cur'[v]].ok)
    BY DEF HeldInv, Rec
  <1>2. CASE pc'[v] # "malformed" /\ pc[v] \notin {"idle", "malformed"} /\ cur'[v] = cur[v]
    <2>1. cur[v] \in Msgs /\ deliveries[cur[v]] > 0 /\ Stream[cur[v]].ok
      BY <1>1, <1>2, CurType DEF HeldInv, Rec
    <2> QED BY <1>2, <2>1, DeliveriesGrow
  <1>3. CASE pc'[v] = pc[v] /\ cur'[v] = cur[v]
    <2>1. cur[v] \in Msgs /\ deliveries[cur[v]] > 0 /\ (pc[v] = "malformed" <=> ~Stream[cur[v]].ok)
      BY <1>1, <1>3, CurType DEF HeldInv, Rec
    <2> QED BY <1>3, <2>1, DeliveriesGrow
  <1>4. ASSUME NEW w \in Workers, Fetch(w) \/ Proceeds(w) \/ Returns(w)
        PROVE  deliveries'[cur'[v]] > 0 /\ (pc'[v] = "malformed" <=> ~Stream[cur'[v]].ok)
    <2>1. CASE v # w
      BY <1>1, <1>3, <1>4, <2>1, Others
    <2>2. CASE v = w /\ Proceeds(w)
      BY <1>1, <1>2, <2>2, ProceedsFrom, ProceedsTo
    <2>3. CASE v = w /\ Returns(w)
      BY <1>1, <2>3, ReturnsTo DEF PlaceType
    <2>4. CASE v = w /\ Fetch(w)
      <3>1. PICK m \in Msgs :
              /\ Step(w, "idle", IF Stream[m].ok THEN "lookup" ELSE "malformed")
              /\ cur' = [cur EXCEPT ![w] = m]
              /\ deliveries' = [deliveries EXCEPT ![m] = @ + 1]
        BY <2>4, Zenon DEF Fetch
      <3>2. cur'[v] = m /\ pc'[v] = (IF Stream[m].ok THEN "lookup" ELSE "malformed")
        BY <1>1, <2>4, <3>1 DEF Step, PlaceType
      <3>3. deliveries'[m] > 0
        <4>1. deliveries \in [Msgs -> 0 .. MaxDeliver]
          BY DEF TypeOK, QueueType
        <4>2. deliveries[m] \in 0 .. MaxDeliver
          BY <4>1
        <4>3. deliveries'[m] = deliveries[m] + 1
          BY <3>1, <4>1
        <4> QED BY <4>2, <4>3, ConsumerAssumption
      <3> QED BY <3>2, <3>3
    <2> QED BY <1>4, <2>1, <2>2, <2>3, <2>4
  <1> QED BY <1>3, <1>4, NextCases, Environment DEF locals

LEMMA LookupStep ==
  ASSUME TypeOK, LookupInv, Next
  PROVE  LookupInv'
  <1>1. PlaceType /\ LocalType /\ TripsType
    BY DEF TypeOK
  <1>2. known' \subseteq known /\ ignored \subseteq ignored'
    BY Grows
  <1> DEFINE Unknown(v) == Stream[cur[v]].device \notin known \/ <<cur[v], "lookup">> \in ignored
             At(v) == /\ pc[v] \notin {"idle", "malformed", "lookup"} /\ ~tenant[v] => Unknown(v)
                      /\ pc[v] = "drop" => ~tenant[v]
  <1>3. \A v \in Workers : At(v)
    BY DEF LookupInv, Dev, Rec
  <1>4. ASSUME \A v \in Workers : At(v)' PROVE LookupInv'
    BY <1>4 DEF LookupInv, Dev, Rec
  <1>5. ASSUME NEW v \in Workers, pc'[v] = pc[v], cur'[v] = cur[v], tenant'[v] = tenant[v]
        PROVE  At(v)'
    BY <1>2, <1>3, <1>5
  <1>6. ASSUME NEW w \in Workers, Fetch(w) PROVE At(w)'
    BY <1>1, <1>6 DEF Fetch, Step, PlaceType
  <1>7. ASSUME NEW w \in Workers, Returns(w) PROVE At(w)'
    BY <1>1, <1>7, ReturnsTo DEF PlaceType
  <1>8. ASSUME NEW w \in Workers, LookupTenant(w) PROVE At(w)'
    <2>1. /\ pc'[w] = "trip" /\ cur' = cur /\ known' = known
          /\ \/ tenant' = [tenant EXCEPT ![w] = Dev(w) \in known]
             \/ ignored' = ignored \cup {<<cur[w], "lookup">>}
      BY <1>1, <1>8 DEF LookupTenant, Step, PlaceType, Ignoring
    <2>2. CASE tenant' = [tenant EXCEPT ![w] = Dev(w) \in known]
      <3>1. tenant'[w] = (Dev(w) \in known)
        BY <1>1, <2>2, Zenon DEF LocalType
      <3> QED BY <2>1, <3>1 DEF Dev, Rec
    <2>3. CASE ignored' = ignored \cup {<<cur[w], "lookup">>}
      BY <2>1, <2>3
    <2> QED BY <2>1, <2>2, <2>3
  <1>9. ASSUME NEW w \in Workers, Proceeds(w), ~LookupTenant(w) PROVE At(w)'
    <2>1. /\ pc[w] \notin {"idle", "malformed", "lookup"} /\ cur' = cur
          /\ pc'[w] = "drop" => ~tenant[w]
      BY <1>1, <1>9, ProceedsFrom, ProceedsTo
    <2>2. tenant' = tenant
      BY <1>9, Zenon DEF Proceeds, TripGet, TripInsert, TripSetActive, locals,
         TripSetIdle, TripSetState, TripSetID, TripDelID, TripPutID, TripGetID, TripEnd,
         Overspeed, SOS, AlertStep, InsertRecord, InsertFails, InsertFailsTo, UpdateLastSeen, UpdateLive,
         PublishEnriched, PublishLive
    <2> QED BY <1>2, <1>3, <2>1, <2>2
  <1>10. ASSUME NEW w \in Workers, Fetch(w) \/ Proceeds(w) \/ Returns(w)
         PROVE  \A v \in Workers : At(v)'
    <2>1. At(w)'
      BY <1>6, <1>7, <1>8, <1>9, <1>10
    <2>2. \A v \in Workers \ {w} : At(v)'
      BY <1>1, <1>5, <1>10, Others
    <2> QED BY <2>1, <2>2
  <1>11. CASE UNCHANGED <<pc, locals>>
    <2>1. UNCHANGED <<pc, cur, tenant>>
      BY <1>11 DEF locals
    <2> QED BY <1>4, <1>5, <2>1
  <1> QED BY <1>4, <1>10, <1>11, NextCases, Environment

LEMMA DropStep ==
  ASSUME TypeOK, HeldInv, LookupInv, DropOnlyUnknown, Next
  PROVE  DropOnlyUnknown'
  <1>1. known' \subseteq known /\ ignored \subseteq ignored' /\ PlaceType
    BY Grows DEF TypeOK
  <1>2. ASSUME NEW w \in Workers, DropMalformed(w) \/ DropUnknown(w) PROVE DropOnlyUnknown'
    <2>1. dropped' = dropped \cup {cur[w]} /\ pc[w] \in {"malformed", "drop"}
      BY <1>2 DEF DropMalformed, DropUnknown, AckDrop, Step
    <2>2. CASE pc[w] = "malformed"
      <3>1. ~Stream[cur[w]].ok
        BY <2>2 DEF HeldInv, Rec
      <3> QED BY <1>1, <2>1, <3>1 DEF DropOnlyUnknown
    <2>3. CASE pc[w] = "drop"
      <3>1. Stream[cur[w]].device \notin known \/ <<cur[w], "lookup">> \in ignored
        BY <2>3 DEF LookupInv, Dev, Rec
      <3> QED BY <1>1, <2>1, <3>1 DEF DropOnlyUnknown
    <2> QED BY <2>1, <2>2, <2>3
  <1>3. ASSUME NEW w \in Workers,
               LookupTenant(w) \/ Overspeed(w) \/ SOS(w) \/ UpdateLastSeen(w) \/ UpdateLive(w)
                 \/ PublishEnriched(w) \/ PublishLive(w)
        PROVE  dropped' = dropped
    BY <1>3, Zenon DEF LookupTenant, Overspeed, SOS, AlertStep, UpdateLastSeen, UpdateLive,
         PublishEnriched, PublishLive
  <1>4. CASE dropped' = dropped
    BY <1>1, <1>4 DEF DropOnlyUnknown
  <1> QED BY <1>2, <1>3, <1>4, EffectFrame DEF history

(* A message is dropped for good only if it is malformed, its device is    *)
(* not known, or its own tenant lookup failed: no other failure, crash or  *)
(* deletion in between ends in a drop.                                     *)
THEOREM DroppedUnknown == Spec => []DropOnlyUnknown
  <1> DEFINE Inv == HeldInv /\ LookupInv /\ DropOnlyUnknown
  <1>1. Init => Inv
    BY DEF Init, HeldInv, LookupInv, DropOnlyUnknown
  <1>2. TypeOK /\ Inv /\ [Next]_vars => Inv'
    <2>1. TypeOK /\ Inv /\ Next => Inv'
      BY HeldStep, LookupStep, DropStep
    <2>2. Inv /\ UNCHANGED vars => Inv'
      BY DEF vars, nats, locals, history, HeldInv, LookupInv, DropOnlyUnknown, Dev, Rec
    <2> QED BY <2>1, <2>2
  <1>3. Inv => DropOnlyUnknown
    OBVIOUS
  <1> QED BY <1>1, <1>2, <1>3, TypeCorrect, PTL DEF Spec

-----------------------------------------------------------------------------
(* The refinement of Delivery.                                             *)

Acked     == {m \in Msgs : status[m] = "acked"}
Exhausted == {m \in Msgs : status[m] = "exhausted"}

(* What Delivery sees of a state.                                          *)
view == <<deliveries, avl, dropped, Acked, Exhausted>>

LEMMA SameOperators ==
  /\ D!Msgs = Msgs
  /\ \A m \in Msgs : D!Key(m) = Key(m)
  BY DEF D!Msgs, Msgs, D!Key, Key

(* A message that is requeued waits, or has used up its deliveries.        *)
LEMMA RequeueRefines ==
  ASSUME TypeOK, NEW m \in Msgs, status[m] = "inflight", Requeue(m),
         UNCHANGED <<deliveries, avl, dropped>>
  PROVE  D!Abandon(m) \/ UNCHANGED view
  <1>1. status \in [Msgs -> {"ready", "inflight", "acked", "exhausted"}]
    BY DEF TypeOK, QueueType
  <1>2. deliveries[m] \in 0 .. MaxDeliver
    BY DEF TypeOK, QueueType
  <1>3. CASE deliveries[m] < MaxDeliver
    <2>1. status' = [status EXCEPT ![m] = "ready"]
      BY <1>3 DEF Requeue
    <2>2. Acked' = Acked /\ Exhausted' = Exhausted
      BY <1>1, <2>1 DEF Acked, Exhausted
    <2> QED BY <2>2 DEF view
  <1>4. CASE ~(deliveries[m] < MaxDeliver)
    <2>1. status' = [status EXCEPT ![m] = "exhausted"]
      BY <1>4 DEF Requeue
    <2>2. Acked' = Acked /\ Exhausted' = Exhausted \cup {m} /\ m \notin Acked
      BY <1>1, <2>1 DEF Acked, Exhausted
    <2>3. deliveries[m] = MaxDeliver
      BY <1>2, <1>4, ConsumerAssumption
    <2> QED BY <2>2, <2>3 DEF D!Abandon, Acked, Exhausted
  <1> QED BY <1>3, <1>4

(* An acknowledgement settles the message, unless it was given up.         *)
LEMMA AckRefines ==
  ASSUME TypeOK, NEW m \in Msgs, Ack(m)
  PROVE  /\ Exhausted' = Exhausted
         /\ Acked' = IF m \in Exhausted THEN Acked ELSE Acked \cup {m}
  <1>1. status \in [Msgs -> {"ready", "inflight", "acked", "exhausted"}]
    BY DEF TypeOK, QueueType
  <1>2. CASE status[m] = "exhausted"
    <2>1. status' = status
      BY <1>1, <1>2 DEF Ack
    <2> QED BY <1>2, <2>1 DEF Acked, Exhausted
  <1>3. CASE status[m] # "exhausted"
    <2>1. status' = [status EXCEPT ![m] = "acked"]
      BY <1>3 DEF Ack
    <2> QED BY <1>1, <1>3, <2>1 DEF Acked, Exhausted
  <1> QED BY <1>2, <1>3

LEMMA FetchRefines ==
  ASSUME TypeOK, QueueInv, NEW w \in Workers, Fetch(w)
  PROVE  \E m \in Msgs : D!Deliver(m)
  <1>1. PICK m \in Msgs :
          /\ Deliverable(m)
          /\ status' = [status EXCEPT ![m] = "inflight"]
          /\ deliveries' = [deliveries EXCEPT ![m] = @ + 1]
          /\ UNCHANGED <<avl, history>>
    BY Zenon DEF Fetch
  <1>2. status[m] = "ready" /\ deliveries[m] < MaxDeliver
    BY <1>1 DEF Deliverable, QueueInv
  <1>3. m \notin Acked \cup Exhausted /\ Acked' = Acked /\ Exhausted' = Exhausted
    BY <1>1, <1>2 DEF Acked, Exhausted, TypeOK, QueueType
  <1> QED BY <1>1, <1>2, <1>3 DEF D!Deliver, Acked, Exhausted, history

LEMMA StoreRefines ==
  ASSUME TypeOK, HeldInv, NEW w \in Workers, InsertRecord(w)
  PROVE  \E m \in Msgs : D!Store(m)
  <1>1. /\ pc[w] = "insert" /\ cur[w] \in Msgs
        /\ avl' = avl \cup {Key(cur[w])} /\ UNCHANGED <<deliveries, dropped, status>>
    BY CurType DEF TypeOK, InsertRecord, Step, nats, history
  <1>2. deliveries[cur[w]] > 0 /\ Stream[cur[w]].ok
    BY <1>1 DEF HeldInv, Rec
  <1>3. Acked' = Acked /\ Exhausted' = Exhausted
    BY <1>1 DEF Acked, Exhausted
  <1> QED BY <1>1, <1>2, <1>3, SameOperators DEF D!Store, Acked, Exhausted

LEMMA RefuseRefines ==
  ASSUME TypeOK, HeldInv, NEW w \in Workers, DropMalformed(w) \/ DropUnknown(w)
  PROVE  \E m \in Msgs : D!Refuse(m)
  <1>1. pc[w] # "idle" /\ cur[w] \in Msgs
    BY CurType DEF TypeOK, DropMalformed, DropUnknown, AckDrop, Step
  <1>2. /\ SendAck(w) /\ dropped' = dropped \cup {cur[w]}
        /\ UNCHANGED <<deliveries, avl>>
    BY DEF DropMalformed, DropUnknown, AckDrop
  <1>3. deliveries[cur[w]] > 0
    BY <1>1 DEF HeldInv
  <1>4. /\ Exhausted' = Exhausted
        /\ Acked' \in {Acked, IF cur[w] \in Exhausted THEN Acked ELSE Acked \cup {cur[w]}}
    <2>1. CASE Ack(cur[w])
      BY <1>1, <2>1, AckRefines
    <2>2. CASE UNCHANGED status
      BY <2>2 DEF Acked, Exhausted
    <2> QED BY <1>2, <2>1, <2>2 DEF SendAck
  <1>5. PICK m \in Msgs : m = cur[w]
    BY <1>1
  <1>6. D!Refuse(m)
    BY <1>2, <1>3, <1>4, <1>5 DEF D!Refuse, Acked, Exhausted
  <1> QED BY <1>6

LEMMA AcknowledgeRefines ==
  ASSUME TypeOK, SavedInv, NEW w \in Workers, AckDone(w)
  PROVE  (\E m \in Msgs : D!Acknowledge(m)) \/ UNCHANGED view
  <1>1. pc[w] = "ack" /\ cur[w] \in Msgs
    BY CurType DEF TypeOK, AckDone, Step
  <1>2. SendAck(w) /\ UNCHANGED <<deliveries, avl, dropped>>
    BY DEF AckDone, history
  <1>3. Key(cur[w]) \in avl
    BY <1>1 DEF SavedInv, Saved
  <1>4. CASE UNCHANGED status
    BY <1>2, <1>4 DEF view, Acked, Exhausted
  <1>5. CASE Ack(cur[w])
    <2>1. /\ Exhausted' = Exhausted
          /\ Acked' = IF cur[w] \in Exhausted THEN Acked ELSE Acked \cup {cur[w]}
      BY <1>1, <1>5, AckRefines
    <2>2. CASE cur[w] \in Exhausted
      BY <1>2, <2>1, <2>2 DEF view
    <2>3. CASE cur[w] \notin Exhausted
      <3>1. PICK m \in Msgs : m = cur[w]
        BY <1>1
      <3>2. D!Acknowledge(m)
        BY <1>2, <1>3, <2>1, <2>3, <3>1, SameOperators DEF D!Acknowledge, Acked, Exhausted
      <3> QED BY <3>2
    <2> QED BY <2>2, <2>3
  <1> QED BY <1>2, <1>4, <1>5 DEF SendAck

LEMMA AbandonRefines ==
  ASSUME TypeOK, \/ \E w \in Workers : GiveBack(w)
                 \/ \E m \in Msgs : AckWaitExpires(m)
  PROVE  (\E m \in Msgs : D!Abandon(m)) \/ UNCHANGED view
  <1>1. ASSUME NEW w \in Workers, GiveBack(w)
        PROVE  (\E m \in Msgs : D!Abandon(m)) \/ UNCHANGED view
    <2>1. cur[w] \in Msgs /\ UNCHANGED <<deliveries, avl, dropped>>
      BY <1>1, CurType DEF TypeOK, GiveBack, Step, history
    <2>2. CASE UNCHANGED status
      BY <2>1, <2>2 DEF view, Acked, Exhausted
    <2>3. CASE status[cur[w]] = "inflight" /\ Requeue(cur[w])
      BY <2>1, <2>3, RequeueRefines
    <2> QED BY <1>1, <2>2, <2>3 DEF GiveBack, Nak
  <1>2. ASSUME NEW m \in Msgs, AckWaitExpires(m)
        PROVE  (\E k \in Msgs : D!Abandon(k)) \/ UNCHANGED view
    <2>1. status[m] = "inflight" /\ Requeue(m) /\ UNCHANGED <<deliveries, avl, dropped>>
      BY <1>2 DEF AckWaitExpires, history
    <2> QED BY <2>1, RequeueRefines
  <1> QED BY <1>1, <1>2

(* All other steps are invisible to Delivery.                              *)
LEMMA Invisible ==
  ASSUME \/ \E w \in Workers : (Proceeds(w) /\ ~InsertRecord(w)) \/ Crash(w)
         \/ \E d \in Devices : DeleteDevice(d) \/ LiveExpires(d)
  PROVE  UNCHANGED view
  <1>1. CASE UNCHANGED <<nats, avl, dropped>>
    BY <1>1 DEF view, nats, Acked, Exhausted
  <1>2. ASSUME NEW w \in Workers, Proceeds(w), ~InsertRecord(w)
        PROVE  UNCHANGED <<nats, avl, dropped>>
    <2>1. UNCHANGED nats
      BY <1>2, QueueFrame
    <2>2. UNCHANGED <<avl, dropped>>
      BY <1>2, Zenon DEF Proceeds, LookupTenant, TripGet, TripInsert, TripSetActive,
         TripSetIdle, TripSetState, TripSetID, TripDelID, TripPutID, TripGetID, TripEnd,
         Overspeed, SOS, AlertStep, InsertFails, InsertFailsTo, UpdateLastSeen, UpdateLive,
         PublishEnriched, PublishLive, history
    <2> QED BY <2>1, <2>2
  <1>3. ASSUME NEW w \in Workers, Crash(w) PROVE UNCHANGED <<nats, avl, dropped>>
    BY <1>3 DEF Crash, history
  <1>4. ASSUME NEW d \in Devices, DeleteDevice(d) \/ LiveExpires(d)
        PROVE  UNCHANGED <<nats, avl, dropped>>
    BY <1>4 DEF DeleteDevice, LiveExpires, history
  <1> QED BY <1>1, <1>2, <1>3, <1>4

(* Replicas that crash, time out, repeat and overtake one another look to  *)
(* JetStream and avl_records like one consumer that stores a record, or    *)
(* refuses it, before it acknowledges it, gives it up only after           *)
(* MaxDeliver deliveries, and never takes back what is settled.            *)
THEOREM RefinesDelivery == Spec => ImplementsDelivery
  <1> DEFINE Inv == TypeOK /\ QueueInv /\ HeldInv /\ SavedInv
  <1>1. Init => D!Init
    BY SameOperators DEF Init, D!Init
  <1>2. Inv /\ [Next]_vars => [D!Next]_(D!vars)
    <2> SUFFICES ASSUME Inv, [Next]_vars PROVE D!Next \/ UNCHANGED view
      BY DEF view, D!vars, Acked, Exhausted
    <2>1. CASE UNCHANGED vars
      BY <2>1 DEF vars, nats, history, view, Acked, Exhausted
    <2>2. CASE Next
      <3>1. ASSUME NEW w \in Workers, Fetch(w) \/ Proceeds(w) \/ Returns(w)
            PROVE  D!Next \/ UNCHANGED view
        BY <3>1, FetchRefines, StoreRefines, RefuseRefines, AcknowledgeRefines, AbandonRefines,
           Invisible, SameOperators DEF Returns, D!Next
      <3>2. ASSUME NEW m \in Msgs, AckWaitExpires(m) PROVE D!Next \/ UNCHANGED view
        BY <3>2, AbandonRefines, SameOperators DEF D!Next
      <3>3. ASSUME NEW d \in Devices, DeleteDevice(d) \/ LiveExpires(d) PROVE UNCHANGED view
        BY <3>3, Invisible
      <3> QED BY <2>2, <3>1, <3>2, <3>3, NextCases
    <2> QED BY <2>1, <2>2
  <1>3. Spec => []Inv
    <2>1. Init => HeldInv /\ SavedInv
      BY DEF Init, HeldInv, SavedInv, Saved
    <2>2. TypeOK /\ HeldInv /\ SavedInv /\ [Next]_vars => HeldInv' /\ SavedInv'
      <3>1. TypeOK /\ HeldInv /\ SavedInv /\ Next => HeldInv' /\ SavedInv'
        BY HeldStep, SavedStep
      <3>2. HeldInv /\ SavedInv /\ UNCHANGED vars => HeldInv' /\ SavedInv'
        BY DEF vars, nats, locals, HeldInv, SavedInv, Rec, Key
      <3> QED BY <3>1, <3>2
    <2> QED BY <2>1, <2>2, TypeInvariant, PTL DEF Spec
  <1> QED BY <1>1, <1>2, <1>3, PTL DEF Spec, ImplementsDelivery, D!Spec

-----------------------------------------------------------------------------
(* The trip machine.                                                       *)

LEMMA OpenRange ==
  ASSUME TripsType, NEW d
  PROVE  Open(d) \subseteq 1 .. Len(trips) /\ NoTrip \notin Open(d)
  BY DEF Open, NoTrip, TripsType

(* A new trip is open; the trips of other devices are as before.           *)
LEMMA OpenAppended ==
  ASSUME TripsType, NEW d \in Devices, NEW e \in Devices, NEW t \in Nat \ {0},
         trips' = Append(trips, [device |-> e, start |-> t, end |-> 0])
  PROVE  Open(d)' = IF d = e THEN Open(d) \cup {Len(trips) + 1} ELSE Open(d)
  <1>1. [device |-> e, start |-> t, end |-> 0] \in TripType
    BY DEF TripType
  <1>2. /\ Len(trips) \in Nat /\ Len(trips') = Len(trips) + 1
        /\ trips'[Len(trips) + 1] = [device |-> e, start |-> t, end |-> 0]
        /\ \A i \in 1 .. Len(trips) : trips'[i] = trips[i]
    BY <1>1, TripAppended
  <1>3. 1 .. Len(trips') = 1 .. Len(trips) \cup {Len(trips) + 1}
    BY <1>2
  <1>4. trips'[Len(trips) + 1].device = e /\ trips'[Len(trips) + 1].end = 0
    BY <1>2
  <1> QED BY <1>2, <1>3, <1>4 DEF Open

(* A trip that is ended is open no more.                                   *)
LEMMA OpenEnded ==
  ASSUME TripsType, NEW d, NEW i \in 1 .. Len(trips), NEW t \in Nat \ {0},
         trips' = [trips EXCEPT ![i].end = t]
  PROVE  Open(d)' = Open(d) \ {i} /\ (trips[i].device # d => Open(d)' = Open(d))
  <1>1. /\ Len(trips') = Len(trips) /\ trips'[i] = [trips[i] EXCEPT !.end = t]
        /\ \A j \in 1 .. Len(trips) : j # i => trips'[j] = trips[j]
    BY TripEnded
  <1>2. trips[i] \in TripType
    BY DEF TripsType
  <1>3. trips'[i].end = t /\ trips'[i].device = trips[i].device
    BY <1>1, <1>2 DEF TripType
  <1> QED BY <1>1, <1>3 DEF Open

(* Nothing of the device changes: neither its rows and keys nor the        *)
(* replica, if any, that is in its trip.                                   *)
LEMMA TripForDevice ==
  ASSUME NEW d \in Devices, TripClean(d),
         Open(d)' = Open(d), tripstate'[d] = tripstate[d], tripid'[d] = tripid[d],
         \A v \in Workers : (InTrip(v)' /\ Dev(v)' = d) <=> (InTrip(v) /\ Dev(v) = d),
         \A v \in Workers : InTrip(v) /\ Dev(v) = d => pc'[v] = pc[v] /\ tid'[v] = tid[v]
  PROVE  TripClean(d)'
  <1>1. \A v, w \in Workers : InTrip(v)' /\ InTrip(w)' /\ Dev(v)' = d /\ Dev(w)' = d => v = w
    BY DEF TripClean
  <1>2. ASSUME NEW w \in Workers, InTrip(w)', Dev(w)' = d PROVE TripAt(w)'
    <2>1. InTrip(w) /\ Dev(w) = d /\ TripAt(w) /\ pc'[w] = pc[w] /\ tid'[w] = tid[w]
      BY <1>2 DEF TripClean
    <2> QED BY <1>2, <2>1 DEF TripAt
  <1>3. (\A w \in Workers : InTrip(w)' => Dev(w)' # d) => Settled(d)'
    <2>1. Settled(d) => Settled(d)'
      BY DEF Settled
    <2> QED BY <2>1 DEF TripClean
  <1> QED BY <1>1, <1>2, <1>3 DEF TripClean

(* The device's own replica has moved, and no other is in its trip.        *)
LEMMA TripOwn ==
  ASSUME NEW d \in Devices, NEW w \in Workers,
         \A v \in Workers \ {w} : ~(InTrip(v)' /\ Dev(v)' = d),
         InTrip(w)' => Dev(w)' = d /\ TripAt(w)', ~InTrip(w)' => Settled(d)'
  PROVE  TripClean(d)'
  BY DEF TripClean

(* Steps outside TripMachine.Process.                                      *)
LEMMA OutsideTrip ==
  ASSUME PlaceType, NEW w \in Workers, Fetch(w) \/ Proceeds(w) \/ Returns(w),
         ~InTrip(w), ~TripGet(w)
  PROVE  UNCHANGED tripDB /\ ~InTrip(w)'
  <1>1. CASE Fetch(w)
    BY <1>1 DEF Fetch, Step, PlaceType, InTrip
  <1>2. CASE Returns(w)
    <2>1. pc'[w] = "idle"
      BY <1>2, ReturnsTo DEF PlaceType
    <2>2. UNCHANGED tripDB
      BY <1>2 DEF Returns, DropMalformed, DropUnknown, AckDrop, GiveBack, AckDone, Crash,
           InTrip, tripDB
    <2> QED BY <2>1, <2>2 DEF InTrip
  <1>3. CASE LookupTenant(w) \/ InsertRecord(w) \/ InsertFails(w) \/ UpdateLastSeen(w)
              \/ UpdateLive(w) \/ PublishEnriched(w) \/ PublishLive(w)
    BY <1>3 DEF LookupTenant, InsertRecord, InsertFails, InsertFailsTo, UpdateLastSeen, UpdateLive, PublishEnriched,
         PublishLive, Step, PlaceType, InTrip
  <1>4. CASE Overspeed(w) \/ SOS(w)
    BY <1>4 DEF Overspeed, SOS, AlertStep, Step, PlaceType, InTrip
  <1>5. ~TripInsert(w) /\ ~TripSetActive(w) /\ ~TripSetID(w) /\ ~TripGetID(w) /\ ~TripEnd(w)
          /\ ~TripSetIdle(w) /\ ~TripDelID(w)
    BY DEF TripInsert, TripSetActive, TripSetIdle, TripSetState, TripSetID, TripDelID,
         TripPutID, TripGetID, TripEnd, Step, InTrip
  <1> QED BY <1>1, <1>2, <1>3, <1>4, <1>5 DEF Proceeds

(* The steps of a replica that is inside it.                               *)
LEMMA InsideTrip ==
  ASSUME NEW w \in Workers, Fetch(w) \/ Proceeds(w) \/ Returns(w), InTrip(w)
  PROVE  \/ TripInsert(w) \/ TripSetActive(w) \/ TripSetID(w) \/ TripGetID(w)
         \/ TripEnd(w) \/ TripSetIdle(w) \/ TripDelID(w) \/ Crash(w)
  <1>1. ~Fetch(w)
    BY DEF Fetch, Step, InTrip
  <1>2. ~LookupTenant(w) /\ ~InsertRecord(w) /\ ~InsertFails(w) /\ ~UpdateLastSeen(w) /\ ~UpdateLive(w)
          /\ ~PublishEnriched(w) /\ ~PublishLive(w) /\ ~Overspeed(w) /\ ~SOS(w) /\ ~TripGet(w)
    BY DEF LookupTenant, InsertRecord, InsertFails, InsertFailsTo, UpdateLastSeen, UpdateLive, PublishEnriched,
         PublishLive, Overspeed, SOS, AlertStep, TripGet, Step, InTrip
  <1>3. ~DropMalformed(w) /\ ~DropUnknown(w) /\ ~GiveBack(w) /\ ~AckDone(w)
    BY DEF DropMalformed, DropUnknown, AckDrop, GiveBack, AckDone, Step, InTrip
  <1> QED BY <1>1, <1>2, <1>3 DEF Proceeds, Returns

(* A trip never changes hands.                                             *)
LEMMA RowsKept ==
  ASSUME TypeOK, Next, NEW i \in 1 .. Len(trips)
  PROVE  trips'[i].device = trips[i].device
  <1>1. PlaceType /\ TripsType
    BY DEF TypeOK
  <1>2. ASSUME NEW w \in Workers, TripInsert(w) PROVE trips'[i].device = trips[i].device
    <2>1. CASE trips' = trips
      BY <2>1
    <2>2. CASE trips' = Append(trips, [device |-> Dev(w), start |-> Rec(w).ts, end |-> 0])
      <3>1. Dev(w) \in Devices /\ Rec(w).ts \in Nat \ {0}
        BY <1>1, <1>2, CurType DEF TripInsert
      <3>2. [device |-> Dev(w), start |-> Rec(w).ts, end |-> 0] \in TripType
        BY <3>1 DEF TripType
      <3> QED BY <1>1, <2>2, <3>2, TripAppended
    <2> QED BY <1>2, <2>1, <2>2 DEF TripInsert
  <1>3. ASSUME NEW w \in Workers, TripEnd(w) PROVE trips'[i].device = trips[i].device
    <2>1. CASE trips' = trips
      BY <2>1
    <2>2. CASE trips' = [trips EXCEPT ![tid[w]].end = Rec(w).ts]
      <3>1. DOMAIN trips = 1 .. Len(trips) /\ trips[i] \in TripType
        BY <1>1 DEF TripsType
      <3> QED BY <2>2, <3>1 DEF TripType
    <2> QED BY <1>3, <2>1, <2>2 DEF TripEnd
  <1>4. ASSUME NEW w \in Workers,
               TripGet(w) \/ TripSetActive(w) \/ TripSetID(w) \/ TripGetID(w)
                 \/ TripSetIdle(w) \/ TripDelID(w) \/ Crash(w)
        PROVE  trips' = trips
    BY <1>4, Zenon DEF TripGet, TripSetActive, TripSetIdle, TripSetState, TripSetID, TripDelID,
         TripPutID, TripGetID, Crash
  <1> QED BY <1>2, <1>3, <1>4, TripsFrame DEF tripDB

LEMMA OwnerStep ==
  ASSUME TypeOK, TripOwner, Next
  PROVE  TripOwner'
  <1>1. PlaceType /\ TripsType /\ LocalType
    BY DEF TypeOK
  <1>2. ASSUME NEW i \in 0 .. Len(trips), i # NoTrip PROVE trips'[i].device = trips[i].device
    <2>1. Len(trips) \in Nat
      BY <1>1 DEF TripsType
    <2>2. i \in 1 .. Len(trips)
      BY <1>2, <2>1 DEF NoTrip
    <2> QED BY <2>2, RowsKept
  <1>3. ASSUME NEW d \in Devices, tripid'[d] # NoTrip PROVE trips'[tripid'[d]].device = d
    <2>1. tripid[d] \in 0 .. Len(trips)
      BY <1>1 DEF TripsType
    <2>2. CASE tripid'[d] = tripid[d]
      BY <1>2, <1>3, <2>1, <2>2 DEF TripOwner
    <2>3. CASE tripid'[d] # tripid[d]
      <3>1. PICK w \in Workers : TripSetID(w) \/ TripDelID(w)
        <4>1. ASSUME NEW w \in Workers,
                     TripGet(w) \/ TripInsert(w) \/ TripSetActive(w) \/ TripGetID(w)
                       \/ TripEnd(w) \/ TripSetIdle(w) \/ Crash(w)
              PROVE  tripid' = tripid
          BY <4>1, Zenon DEF TripGet, TripInsert, TripSetActive, TripSetIdle, TripSetState,
               TripGetID, TripEnd, Crash
        <4> QED BY <2>3, <4>1, TripsFrame DEF tripDB
      <3>2. Dev(w) \in Devices
        BY <1>1, <3>1, CurType DEF TripSetID, TripDelID, TripPutID, Step
      <3>3. TripSetID(w) /\ d = Dev(w) /\ tripid'[d] = tid[w]
        BY <1>1, <1>3, <2>3, <3>1, <3>2 DEF TripSetID, TripDelID, TripPutID, TripsType
      <3>4. tid[w] \in 0 .. Len(trips) /\ trips[tid[w]].device = Dev(w)
        BY <1>1, <1>3, <3>3 DEF TripsType, TripOwner
      <3> QED BY <1>2, <1>3, <3>3, <3>4
    <2> QED BY <2>2, <2>3
  <1>4. ASSUME NEW v \in Workers, tid'[v] # NoTrip
        PROVE  pc'[v] # "idle" /\ trips'[tid'[v]].device = Stream[cur'[v]].device
    <2>1. tid[v] \in 0 .. Len(trips)
      BY <1>1 DEF TripsType
    <2>2. ASSUME tid'[v] = tid[v], cur'[v] = cur[v], pc'[v] # "idle" \/ pc'[v] = pc[v]
          PROVE  pc'[v] # "idle" /\ trips'[tid'[v]].device = Stream[cur'[v]].device
      BY <1>2, <1>4, <2>1, <2>2 DEF TripOwner, Dev, Rec
    <2>3. ASSUME NEW w \in Workers, Fetch(w) \/ Proceeds(w) \/ Returns(w)
          PROVE  pc'[v] # "idle" /\ trips'[tid'[v]].device = Stream[cur'[v]].device
      <3>1. CASE v # w
        BY <1>1, <2>2, <2>3, <3>1, Others
      <3>2. CASE v = w /\ Returns(w)
        BY <1>1, <1>4, <3>2, ReturnsTo DEF Forget, TripsType
      <3>3. CASE v = w /\ Fetch(w)
        <4>1. pc[v] = "idle" /\ tid' = tid
          BY <3>3 DEF Fetch, Step
        <4> QED BY <1>4, <4>1 DEF TripOwner
      <3>4. CASE v = w /\ TripInsert(w)
        <4>1. cur' = cur /\ pc'[v] # "idle"
          BY <1>1, <3>4 DEF TripInsert, Step, PlaceType
        <4>2. CASE tid' = tid
          BY <2>2, <4>1, <4>2
        <4>3. CASE /\ trips' = Append(trips, [device |-> Dev(w), start |-> Rec(w).ts, end |-> 0])
                   /\ tid' = [tid EXCEPT ![w] = Len(trips) + 1]
          <5>1. Dev(w) \in Devices /\ Rec(w).ts \in Nat \ {0}
            BY <1>1, <3>4, CurType DEF TripInsert
          <5>2. [device |-> Dev(w), start |-> Rec(w).ts, end |-> 0] \in TripType
            BY <5>1 DEF TripType
          <5>3. trips'[Len(trips) + 1] = [device |-> Dev(w), start |-> Rec(w).ts, end |-> 0]
            BY <1>1, <4>3, <5>2, TripAppended
          <5>4. tid'[v] = Len(trips) + 1
            BY <1>1, <3>4, <4>3 DEF TripsType
          <5>5. trips'[tid'[v]].device = Dev(w)
            BY <5>3, <5>4
          <5> QED BY <3>4, <4>1, <5>5 DEF Dev, Rec
        <4> QED BY <3>4, <4>2, <4>3 DEF TripInsert
      <3>5. CASE v = w /\ TripGetID(w)
        <4>1. cur' = cur /\ pc'[v] # "idle" /\ trips' = trips
          BY <1>1, <3>5 DEF TripGetID, Step, PlaceType
        <4>2. Dev(w) \in Devices
          BY <1>1, <3>5, CurType DEF TripGetID
        <4>3. tid'[v] = tripid[Dev(w)]
          BY <1>1, <1>4, <3>5 DEF TripGetID, TripsType
        <4> QED BY <1>4, <3>5, <4>1, <4>2, <4>3 DEF TripOwner, Dev, Rec
      <3>6. CASE v = w /\ Proceeds(w) /\ ~TripInsert(w) /\ ~TripGetID(w)
        <4>1. tid' = tid
          BY <3>6, Zenon DEF Proceeds, LookupTenant, TripGet, TripSetActive, TripSetIdle,
               TripSetState, TripSetID, TripDelID, TripPutID, TripEnd, locals,
               Overspeed, SOS, AlertStep, InsertRecord, InsertFails, InsertFailsTo, UpdateLastSeen, UpdateLive,
               PublishEnriched, PublishLive
        <4>2. cur' = cur /\ pc'[v] # "idle"
          BY <1>1, <3>6, ProceedsTo, ProceedsFrom
        <4> QED BY <2>2, <4>1, <4>2
      <3> QED BY <2>3, <3>1, <3>2, <3>3, <3>4, <3>5, <3>6
    <2>4. CASE UNCHANGED <<pc, locals>>
      BY <2>2, <2>4 DEF locals
    <2> QED BY <2>3, <2>4, NextCases, Environment
  <1> QED BY <1>3, <1>4 DEF TripOwner, Dev, Rec

(* Work on one device's trip leaves every other device's alone.            *)
LEMMA TripFar ==
  ASSUME TypeOK, TripOwner, NEW w \in Workers, NEW d \in Devices, d # Dev(w),
         TripGet(w) \/ TripInsert(w) \/ TripSetActive(w) \/ TripSetID(w) \/ TripGetID(w)
           \/ TripEnd(w) \/ TripSetIdle(w) \/ TripDelID(w) \/ Crash(w)
  PROVE  Open(d)' = Open(d) /\ tripstate'[d] = tripstate[d] /\ tripid'[d] = tripid[d]
  <1>1. PlaceType /\ TripsType
    BY DEF TypeOK
  <1>2. Dev(w) \in Devices /\ Rec(w).ts \in Nat \ {0}
    BY <1>1, CurType DEF TripGet, TripInsert, TripSetActive, TripSetIdle, TripSetState,
         TripSetID, TripDelID, TripPutID, TripGetID, TripEnd, Crash, Step
  <1>3. CASE trips' = trips
    <2>1. Open(d)' = Open(d)
      BY <1>3 DEF Open
    <2>2. tripstate'[d] = tripstate[d] /\ tripid'[d] = tripid[d]
      BY <1>1, <1>2 DEF TripsType, TripGet, TripInsert, TripSetActive, TripSetIdle,
           TripSetState, TripSetID, TripDelID, TripPutID, TripGetID, TripEnd, Crash
    <2> QED BY <2>1, <2>2
  <1>4. CASE TripInsert(w)
    <2>1. UNCHANGED <<tripstate, tripid>>
      BY <1>4 DEF TripInsert
    <2>2. CASE trips' = Append(trips, [device |-> Dev(w), start |-> Rec(w).ts, end |-> 0])
      BY <1>1, <1>2, <2>1, <2>2, OpenAppended
    <2> QED BY <1>3, <1>4, <2>2 DEF TripInsert
  <1>5. CASE TripEnd(w)
    <2>1. UNCHANGED <<tripstate, tripid>>
      BY <1>5 DEF TripEnd
    <2>2. CASE trips' = [trips EXCEPT ![tid[w]].end = Rec(w).ts]
      <3>1. Len(trips) \in Nat /\ tid[w] \in 0 .. Len(trips) /\ DOMAIN trips = 1 .. Len(trips)
        BY <1>1 DEF TripsType
      <3>2. CASE tid[w] = NoTrip
        <4>1. trips' = trips
          BY <1>1, <2>2, <3>1, <3>2 DEF NoTrip, TripsType
        <4> QED BY <1>3, <4>1
      <3>3. CASE tid[w] # NoTrip
        <4>1. tid[w] \in 1 .. Len(trips)
          BY <3>1, <3>3 DEF NoTrip
        <4>2. trips[tid[w]].device # d
          BY <3>3 DEF TripOwner
        <4> QED BY <1>1, <1>2, <2>1, <2>2, <4>1, <4>2, OpenEnded
      <3> QED BY <3>2, <3>3
    <2> QED BY <1>3, <1>5, <2>2 DEF TripEnd
  <1>6. ASSUME TripGet(w) \/ TripSetActive(w) \/ TripSetID(w) \/ TripGetID(w)
                 \/ TripSetIdle(w) \/ TripDelID(w) \/ Crash(w)
        PROVE  trips' = trips
    BY <1>6, Zenon DEF TripGet, TripSetActive, TripSetIdle, TripSetState, TripSetID, TripDelID,
         TripPutID, TripGetID, Crash
  <1> QED BY <1>3, <1>4, <1>5, <1>6

(* A disturbance is remembered.                                            *)
LEMMA DisturbMarks ==
  ASSUME TripsType, NEW w \in Workers, Dev(w) \in Devices, Disturb(w)
  PROVE  Dev(w) \in disturbed'
  <1>1. disturbances[Dev(w)] \in Nat /\ disturbances'[Dev(w)] = disturbances[Dev(w)] + 1
    BY DEF TripsType, Disturb
  <1> QED BY <1>1 DEF disturbed

(* A step in the trip of an undisturbed device leads to the next place's   *)
(* assertion, or out of the trip with the two stores settled.              *)
LEMMA TripNear ==
  ASSUME TypeOK, NEW w \in Workers, NEW d \in Devices \ disturbed', d = Dev(w),
         InTrip(w), TripAt(w),
         TripInsert(w) \/ TripSetActive(w) \/ TripSetID(w) \/ TripGetID(w)
           \/ TripEnd(w) \/ TripSetIdle(w) \/ TripDelID(w) \/ Crash(w)
  PROVE  (InTrip(w)' => Dev(w)' = d /\ TripAt(w)') /\ (~InTrip(w)' => Settled(d)')
  <1>1. PlaceType /\ TripsType
    BY DEF TypeOK
  <1>2. d \in Devices /\ Rec(w).ts \in Nat \ {0} /\ NoTrip \notin Open(d)
    BY <1>1, CurType, OpenRange DEF InTrip
  <1>13. ~Disturb(w)
    BY <1>1, <1>2, DisturbMarks
  <1>3. trips' = trips => Open(d)' = Open(d)
    BY DEF Open
  <1>4. ~Crash(w) => cur' = cur /\ Dev(w)' = d
    <2>1. ~Crash(w) => Proceeds(w)
      BY DEF Proceeds
    <2> QED BY <2>1, ProceedsTo DEF Dev, Rec
  <1>5. CASE TripInsert(w)
    <2>1. tripstate[d] # "ACTIVE" /\ Open(d) = {} /\ UNCHANGED <<tripstate, tripid, cur>>
      BY <1>5 DEF TripInsert, TripAt
    <2>2. CASE trips' = trips /\ Step(w, "trip insert", "overspeed")
      <3>1. ~InTrip(w)'
        BY <1>1, <2>2 DEF Step, PlaceType, InTrip
      <3> QED BY <1>3, <2>1, <2>2, <3>1 DEF Settled
    <2>3. CASE /\ trips' = Append(trips, [device |-> Dev(w), start |-> Rec(w).ts, end |-> 0])
               /\ tid' = [tid EXCEPT ![w] = Len(trips) + 1]
               /\ Step(w, "trip insert", "trip set")
      <3>1. pc'[w] = "trip set" /\ tid'[w] = Len(trips) + 1
        BY <1>1, <2>3 DEF Step, PlaceType, TripsType
      <3>2. Open(d)' = {Len(trips) + 1}
        <4>1. Open(d)' = Open(d) \cup {Len(trips) + 1}
          BY <1>1, <1>2, <2>3, OpenAppended
        <4> QED BY <2>1, <4>1
      <3>3. Dev(w)' = d
        BY <2>1 DEF Dev, Rec
      <3> QED BY <3>1, <3>2, <3>3 DEF TripAt, InTrip
    <2> QED BY <1>5, <1>13, <2>2, <2>3 DEF TripInsert
  <1>6. CASE TripSetActive(w)
    <2>1. /\ pc[w] = "trip set" /\ pc'[w] = "trip setid" /\ tid' = tid /\ trips' = trips
          /\ tripstate'[d] = "ACTIVE"
      BY <1>1, <1>2, <1>6, <1>13 DEF TripSetActive, TripSetState, Step, PlaceType, TripsType, locals
    <2>2. Open(d) = {tid[w]}
      BY <2>1 DEF TripAt
    <2>3. Dev(w)' = d
      BY <1>4, <1>6 DEF TripSetActive, TripSetState, Dev, Rec, locals
    <2> QED BY <1>3, <2>1, <2>2, <2>3 DEF TripAt, InTrip
  <1>7. CASE TripSetID(w)
    <2>1. /\ pc[w] = "trip setid" /\ pc'[w] = "overspeed" /\ trips' = trips
          /\ tripstate' = tripstate
      BY <1>1, <1>7 DEF TripSetID, TripPutID, Step, PlaceType
    <2>2. tripstate[d] = "ACTIVE" /\ Open(d) = {tid[w]}
      BY <2>1 DEF TripAt
    <2>3. tripid'[d] = tid[w]
      BY <1>1, <1>2, <1>7, <1>13, <2>2 DEF TripSetID, TripPutID, TripsType
    <2> QED BY <1>3, <2>1, <2>2, <2>3 DEF Settled, InTrip
  <1>8. CASE TripGetID(w)
    <2>1. /\ pc[w] = "trip getid" /\ tid'[w] = tripid[d]
          /\ UNCHANGED <<trips, tripstate, tripid>>
          /\ pc'[w] = IF tid'[w] = NoTrip THEN "trip idle" ELSE "trip update"
      BY <1>1, <1>8, <1>13 DEF TripGetID, Step, PlaceType, TripsType
    <2>2. tripstate[d] = "ACTIVE" /\ Open(d) = {tripid[d]}
      BY <2>1 DEF TripAt
    <2>3. pc'[w] = "trip update"
      BY <1>2, <2>1, <2>2
    <2>4. Dev(w)' = d
      BY <1>8 DEF TripGetID, Dev, Rec
    <2> QED BY <1>3, <2>1, <2>2, <2>3, <2>4 DEF TripAt, InTrip
  <1>9. CASE TripEnd(w)
    <2>1. /\ pc[w] = "trip update" /\ pc'[w] = "trip idle"
          /\ trips' = [trips EXCEPT ![tid[w]].end = Rec(w).ts]
      BY <1>1, <1>9, <1>13 DEF TripEnd, Step, PlaceType
    <2>2. Open(d) = {tid[w]}
      BY <2>1 DEF TripAt
    <2>3. tid[w] \in 1 .. Len(trips)
      BY <1>1, <2>2, OpenRange
    <2>4. Open(d)' = Open(d) \ {tid[w]}
      BY <1>1, <1>2, <2>1, <2>3, OpenEnded
    <2>5. Dev(w)' = d
      BY <1>9 DEF TripEnd, Dev, Rec, locals
    <2> QED BY <2>1, <2>2, <2>4, <2>5 DEF TripAt, InTrip
  <1>10. CASE TripSetIdle(w)
    <2>1. /\ pc[w] = "trip idle" /\ pc'[w] = "trip delid" /\ trips' = trips
          /\ tripstate'[d] = "IDLE"
      BY <1>1, <1>2, <1>10, <1>13 DEF TripSetIdle, TripSetState, Step, PlaceType, TripsType
    <2>2. Open(d) = {}
      BY <2>1 DEF TripAt
    <2>3. Dev(w)' = d
      BY <1>10 DEF TripSetIdle, TripSetState, Dev, Rec, locals
    <2> QED BY <1>3, <2>1, <2>2, <2>3 DEF TripAt, InTrip
  <1>11. CASE TripDelID(w)
    <2>1. /\ pc[w] = "trip delid" /\ pc'[w] = "overspeed" /\ trips' = trips
          /\ tripstate' = tripstate
      BY <1>1, <1>11 DEF TripDelID, TripPutID, Step, PlaceType
    <2>2. tripstate[d] # "ACTIVE" /\ Open(d) = {}
      BY <2>1 DEF TripAt
    <2> QED BY <1>3, <2>1, <2>2 DEF Settled, InTrip
  <1>12. CASE Crash(w)
    <2>1. /\ pc'[w] = "idle" /\ pc[w] \notin {"trip set", "trip setid", "trip idle"}
          /\ UNCHANGED <<trips, tripstate, tripid>>
      BY <1>1, <1>12, <1>13 DEF Crash, PlaceType
    <2>2. pc[w] \in {"trip insert", "trip getid", "trip update", "trip delid"}
      BY <2>1 DEF InTrip
    <2>3. Settled(d)
      BY <2>2 DEF TripAt, Settled
    <2> QED BY <1>3, <2>1, <2>3 DEF Settled, InTrip
  <1> QED BY <1>5, <1>6, <1>7, <1>8, <1>9, <1>10, <1>11, <1>12

(* TripMachine.Process begins: a device that nobody else works on is       *)
(* settled, and the state read says which branch fits.                     *)
LEMMA TripBegins ==
  ASSUME TypeOK, NEW w \in Workers, NEW d \in Devices \ disturbed', d = Dev(w),
         TripGet(w), TripClean(d)
  PROVE  /\ \A v \in Workers \ {w} : ~(InTrip(v) /\ Dev(v) = d)
         /\ (InTrip(w)' => Dev(w)' = d /\ TripAt(w)') /\ (~InTrip(w)' => Settled(d)')
  <1>1. PlaceType /\ LocalType
    BY DEF TypeOK
  <1>2. \A v \in Workers \ {w} : ~(InTrip(v) /\ Dev(v) = d)
    <2>1. ~Disturb(w)
      BY DisturbMarks DEF TypeOK
    <2> QED BY <2>1 DEF TripGet, AlsoInTrip
  <1>3. ~InTrip(w)
    BY DEF TripGet, InTrip
  <1>4. Settled(d)
    BY <1>2, <1>3 DEF TripClean
  <1>5. UNCHANGED <<trips, tripstate, tripid>> /\ Dev(w)' = d /\ Open(d)' = Open(d)
    BY DEF TripGet, Dev, Rec, Open
  <1>6. /\ st'[w] \in {"", tripstate[d]}
        /\ pc'[w] = TripBranch(st'[w], Rec(w).speed)
    BY <1>1 DEF TripGet, Step, PlaceType, LocalType
  <1>7. CASE pc'[w] = "trip insert"
    <2>1. tripstate[d] # "ACTIVE"
      BY <1>6, <1>7 DEF TripBranch
    <2> QED BY <1>2, <1>4, <1>5, <1>7, <2>1 DEF Settled, TripAt, InTrip
  <1>8. CASE pc'[w] = "trip getid"
    <2>1. tripstate[d] = "ACTIVE"
      BY <1>6, <1>8 DEF TripBranch
    <2> QED BY <1>2, <1>4, <1>5, <1>8, <2>1 DEF Settled, TripAt, InTrip
  <1>9. CASE pc'[w] = "overspeed"
    BY <1>2, <1>4, <1>5, <1>9 DEF Settled, InTrip
  <1> QED BY <1>6, <1>7, <1>8, <1>9 DEF TripBranch

LEMMA DisturbedGrows ==
  ASSUME TypeOK, Next
  PROVE  disturbed \subseteq disturbed'
  <1>1. CASE disturbances' = disturbances
    BY <1>1 DEF disturbed
  <1>2. ASSUME NEW w \in Workers, Disturb(w) PROVE disturbed \subseteq disturbed'
    <2>1. disturbances \in [Devices -> Nat]
      BY DEF TypeOK, TripsType
    <2> QED BY <1>2, <2>1 DEF Disturb, disturbed
  <1> QED BY <1>1, <1>2, DisturbedBy

LEMMA TripStep ==
  ASSUME TypeOK, TripInv, TripOwner, Next
  PROVE  TripInv'
  <1>1. PlaceType /\ LocalType /\ TripsType
    BY DEF TypeOK
  <1> SUFFICES ASSUME NEW d \in Devices \ disturbed' PROVE TripClean(d)'
    BY DEF TripInv
  <1>2. TripClean(d)
    BY DisturbedGrows DEF TripInv
  <1>3. CASE UNCHANGED <<pc, locals, tripDB>>
    <2>1. UNCHANGED <<pc, cur, tid, trips, tripstate, tripid>>
      BY <1>3 DEF locals, tripDB
    <2> QED BY <1>2, <2>1, TripForDevice DEF Open, InTrip, Dev, Rec
  <1>4. ASSUME NEW w \in Workers, Fetch(w) \/ Proceeds(w) \/ Returns(w) PROVE TripClean(d)'
    <2>1. \A v \in Workers \ {w} :
            /\ pc'[v] = pc[v] /\ cur'[v] = cur[v] /\ tid'[v] = tid[v]
            /\ InTrip(v)' = InTrip(v) /\ Dev(v)' = Dev(v)
      BY <1>1, <1>4, Others DEF InTrip, Dev, Rec
    <2>2. CASE ~InTrip(w) /\ ~TripGet(w)
      <3>1. UNCHANGED <<trips, tripstate, tripid>> /\ ~InTrip(w)'
        BY <1>1, <1>4, <2>2, OutsideTrip DEF tripDB
      <3>2. Open(d)' = Open(d) /\ tripstate'[d] = tripstate[d] /\ tripid'[d] = tripid[d]
        BY <3>1 DEF Open
      <3>3. \A v \in Workers : (InTrip(v)' /\ Dev(v)' = d) <=> (InTrip(v) /\ Dev(v) = d)
        BY <2>1, <2>2, <3>1
      <3>4. \A v \in Workers : InTrip(v) /\ Dev(v) = d => pc'[v] = pc[v] /\ tid'[v] = tid[v]
        BY <2>1, <2>2
      <3> QED BY <1>2, <3>2, <3>3, <3>4, TripForDevice
    <2>3. CASE (InTrip(w) \/ TripGet(w)) /\ d # Dev(w)
      <3>1. Open(d)' = Open(d) /\ tripstate'[d] = tripstate[d] /\ tripid'[d] = tripid[d]
        BY <1>4, <2>3, InsideTrip, TripFar
      <3>2. ~(InTrip(w)' /\ Dev(w)' = d)
        <4>1. CASE Crash(w)
          BY <1>1, <4>1 DEF Crash, PlaceType, InTrip
        <4>2. CASE Proceeds(w)
          BY <2>3, <4>2, ProceedsTo DEF Dev, Rec
        <4> QED BY <1>4, <2>3, <4>1, <4>2, InsideTrip DEF Proceeds
      <3>3. \A v \in Workers : (InTrip(v)' /\ Dev(v)' = d) <=> (InTrip(v) /\ Dev(v) = d)
        BY <2>1, <2>3, <3>2
      <3>4. \A v \in Workers : InTrip(v) /\ Dev(v) = d => pc'[v] = pc[v] /\ tid'[v] = tid[v]
        BY <2>1, <2>3
      <3> QED BY <1>2, <3>1, <3>3, <3>4, TripForDevice
    <2>4. CASE TripGet(w) /\ d = Dev(w)
      <3>1. /\ \A v \in Workers \ {w} : ~(InTrip(v) /\ Dev(v) = d)
            /\ (InTrip(w)' => Dev(w)' = d /\ TripAt(w)') /\ (~InTrip(w)' => Settled(d)')
        BY <1>2, <2>4, TripBegins
      <3>2. \A v \in Workers \ {w} : ~(InTrip(v)' /\ Dev(v)' = d)
        BY <2>1, <3>1
      <3> QED BY <3>1, <3>2, TripOwn
    <2>5. CASE InTrip(w) /\ d = Dev(w)
      <3>1. TripAt(w) /\ \A v \in Workers \ {w} : ~(InTrip(v) /\ Dev(v) = d)
        BY <1>2, <2>5 DEF TripClean
      <3>2. (InTrip(w)' => Dev(w)' = d /\ TripAt(w)') /\ (~InTrip(w)' => Settled(d)')
        BY <1>4, <2>5, <3>1, InsideTrip, TripNear
      <3>3. \A v \in Workers \ {w} : ~(InTrip(v)' /\ Dev(v)' = d)
        BY <2>1, <3>1
      <3> QED BY <3>2, <3>3, TripOwn
    <2> QED BY <2>2, <2>3, <2>4, <2>5
  <1> QED BY <1>3, <1>4, NextCases, Environment

(* The trip machine keeps Redis and Postgres in step for any number of     *)
(* replicas and messages, repeated and reordered: a device that no two     *)
(* replicas worked on at once, no fault struck between the two stores and  *)
(* no answer to the INSERT of a trip was lost,                             *)
(* never has two open trips, and outside TripMachine.Process is ACTIVE     *)
(* exactly when it has one, the one whose id Redis holds.                  *)
THEOREM TripsStayConsistent == Spec => []TripsConsistent
  <1>1. Init => TripInv /\ TripOwner
    <2> SUFFICES ASSUME Init PROVE TripInv /\ TripOwner
      OBVIOUS
    <2>1. \A d : Open(d) = {}
      <3>1. Len(trips) = 0
        BY EmptySeq DEF Init
      <3>2. 1 .. Len(trips) = {}
        BY <3>1
      <3> QED BY <3>2 DEF Open
    <2>2. (\A w \in Workers : ~InTrip(w)) /\ \A d \in Devices : tripstate[d] # "ACTIVE"
      BY DEF Init, InTrip
    <2>3. ASSUME NEW d \in Devices PROVE TripClean(d)
      <3>1. Settled(d)
        BY <2>1, <2>2 DEF Settled
      <3> QED BY <2>2, <3>1 DEF TripClean
    <2>4. TripOwner
      BY DEF Init, TripOwner
    <2> QED BY <2>3, <2>4 DEF TripInv
  <1>2. TypeOK /\ TripInv /\ TripOwner /\ [Next]_vars => TripInv' /\ TripOwner'
    <2>1. TypeOK /\ TripInv /\ TripOwner /\ Next => TripInv' /\ TripOwner'
      BY TripStep, OwnerStep
    <2>2. TripInv /\ TripOwner /\ UNCHANGED vars => TripInv' /\ TripOwner'
      <3> SUFFICES ASSUME TripInv, TripOwner, UNCHANGED vars PROVE TripInv' /\ TripOwner'
        OBVIOUS
      <3>1. UNCHANGED <<pc, cur, tid, trips, tripstate, tripid, disturbances>>
        BY DEF vars, locals, tripDB
      <3>2. ASSUME NEW d \in Devices, TripClean(d) PROVE TripClean(d)'
        BY <3>1, <3>2, TripForDevice DEF Open, InTrip, Dev, Rec
      <3>3. TripInv'
        BY <3>1, <3>2 DEF TripInv, disturbed
      <3>4. TripOwner'
        BY <3>1 DEF TripOwner, Dev, Rec
      <3> QED BY <3>3, <3>4
    <2> QED BY <2>1, <2>2
  <1>3. TripInv => TripsConsistent
    <2> SUFFICES ASSUME TripInv, NEW d \in Devices \ disturbed
                 PROVE  /\ Cardinality(Open(d)) <= 1
                        /\ (\A w \in Workers : InTrip(w) => Dev(w) # d) => Settled(d)
      BY DEF TripsConsistent, Settled
    <2>1. TripClean(d)
      BY DEF TripInv
    <2>2. Open(d) = {} \/ \E i : Open(d) = {i}
      <3>1. CASE \A w \in Workers : InTrip(w) => Dev(w) # d
        BY <2>1, <3>1 DEF TripClean, Settled
      <3>2. ASSUME NEW w \in Workers, InTrip(w), Dev(w) = d
            PROVE  Open(d) = {} \/ \E i : Open(d) = {i}
        <4>1. TripAt(w)
          BY <2>1, <3>2 DEF TripClean
        <4> QED BY <3>2, <4>1 DEF TripAt, InTrip
      <3> QED BY <3>1, <3>2
    <2>3. Cardinality(Open(d)) <= 1
      <3>1. CASE Open(d) = {}
        BY <3>1, FS_EmptySet
      <3>2. ASSUME NEW i, Open(d) = {i} PROVE Cardinality(Open(d)) <= 1
        BY <3>2, FS_Singleton
      <3> QED BY <2>2, <3>1, <3>2
    <2> QED BY <2>1, <2>3 DEF TripClean
  <1> QED BY <1>1, <1>2, <1>3, TypeCorrect, PTL DEF Spec
=============================================================================
