------------------------------ MODULE FleetAPI ------------------------------
(***************************************************************************)
(* api-service: the protected routes of the REST API.  A request passes    *)
(* the JWT middleware, RLS and RateLimit and then one handler; each        *)
(* statement sent to Redis or Postgres is a step, so requests that are     *)
(* served at the same time interleave.  Row contents are abstracted to a   *)
(* unique key and a version.                                               *)
(***************************************************************************)
EXTENDS Integers, FiniteSets, FiniteSetsExt

CONSTANTS
  Tenants,
  Conns,          \* requests that are served at the same time
  Keys,           \* imei of a device, registration of a vehicle, name
  InitRows,       \* contents of the tables
  Points,         \* avl_records: timestamps of each device
  Clock,          \* the time of all requests
  Limit,          \* requests in a window, 1000 in the code
  MaxWrites,      \* bound: rows written in a behaviour
  Lossy           \* bound: tenants for whom Redis may lose an EXPIRE or an answer

(* live is deleted_at IS NULL.                                             *)
Tables  == {"devices", "vehicles", "geofences", "drivers", "alerts", "trips",
            "users", "tenants"}
RowType == [table : Tables, id : Nat, tenant : Tenants, key : Keys,
            live : BOOLEAN, version : Nat]

NoTenant == "none"

(* UNIQUE(tenant_id, imei) and UNIQUE(tenant_id, registration).            *)
Keyed == {"devices", "vehicles"}
SameKey(r, s) == r.table = s.table /\ r.tenant = s.tenant /\ r.key = s.key

ASSUME APIAssumption ==
  /\ InitRows \subseteq RowType
  /\ Limit \in Nat \ {0} /\ MaxWrites \in Nat /\ Clock \in Nat
  /\ NoTenant \notin Tenants /\ Lossy \subseteq Tenants
ASSUME FiniteAssumption == IsFiniteSet(InitRows) /\ IsFiniteSet(Conns)
ASSUME UniqueAssumption ==
  \A r, s \in InitRows : r.table \in Keyed /\ SameKey(r, s) => r = s

VARIABLES
  at,             \* where the request is: "idle", "incr", "expire", "handler",
                  \* "online" or "user"
  ctx,            \* tenant_id in its context, NoTenant when idle
  found,          \* rows its first statement returned
  counted,        \* whether RateLimit counted it
  count, ttl,     \* Redis ratelimit:api:{tenant}: value (0: absent), has a TTL
  rows,           \* the tables
  resp,           \* the response that is being sent
  writes,         \* number of statements that changed a row
  allowance,      \* history: requests of a tenant that may still be handled in
                  \* this window
  unexpiring      \* history: tenants whose EXPIRE was lost, or never sent because
                  \* the answer to the INCR that created the key was

request == <<at, ctx, found, counted>>
limiter == <<count, ttl, unexpiring>>
tables  == <<rows, writes>>
vars == <<request, limiter, allowance, tables, resp>>

NoResponse == [status |-> 0]
NoID == 0

Init ==
  /\ at = [c \in Conns |-> "idle"]
  /\ ctx = [c \in Conns |-> NoTenant]
  /\ found = [c \in Conns |-> {}]
  /\ counted = [c \in Conns |-> FALSE]
  /\ count = [t \in Tenants |-> 0] /\ ttl = [t \in Tenants |-> FALSE]
  /\ rows = InitRows /\ writes = 0 /\ resp = NoResponse
  /\ allowance = [t \in Tenants |-> Limit] /\ unexpiring = {}

(* Mutant: a context goes back to the pool with its tenant.                *)
FreeKeeping(c) ==
  /\ at' = [at EXCEPT ![c] = "idle"]
  /\ found' = [found EXCEPT ![c] = {}]
  /\ counted' = [counted EXCEPT ![c] = FALSE]
  /\ UNCHANGED ctx

Free(c) ==
  /\ at' = [at EXCEPT ![c] = "idle"]
  /\ ctx' = [ctx EXCEPT ![c] = NoTenant]
  /\ found' = [found EXCEPT ![c] = {}]
  /\ counted' = [counted EXCEPT ![c] = FALSE]

(* The request is answered with a status and the rows in the body, or with *)
(* the id of a row said to have been created in the table.                 *)
Answer(c, status, items) ==
  resp' = [tenant |-> ctx[c], status |-> status, items |-> items] /\ Free(c)

Created(c, table, id) ==
  /\ resp' = [tenant |-> ctx[c], status |-> 201, items |-> {}, table |-> table, id |-> id]
  /\ Free(c)

Goto(c, place) == at' = [at EXCEPT ![c] = place] /\ UNCHANGED resp

(* The response is on its way.  It is only looked at, so nothing is lost   *)
(* by letting it go before the next step.                                  *)
Sent ==
  /\ resp # NoResponse /\ resp' = NoResponse
  /\ UNCHANGED <<request, limiter, allowance, tables>>

-----------------------------------------------------------------------------
(* Middleware, RLS and RateLimit.                                          *)

(* RLS refuses a token without a tenant.                                   *)
RLS == 403

(* A token that does not validate is answered 401.                         *)
Unauthorized(c) ==
  /\ at[c] = "idle"
  /\ \E status \in {401, RLS} : Answer(c, status, {})
  /\ UNCHANGED <<limiter, allowance, tables>>

Middleware(c) ==
  /\ at[c] = "idle"
  /\ \E t \in Tenants : ctx' = [ctx EXCEPT ![c] = t]
  /\ Goto(c, "incr")
  /\ UNCHANGED <<found, counted, limiter, allowance, tables>>

(* Mutants: one request too many; the expiry is never set.                 *)
ExceededLate(n)  == n > Limit + 1
FirstNever(n)    == n = 0

Exceeded(n) == n > Limit
First(n)    == n = 1

(* INCR.  Beyond the limit the value makes no difference any more, so it   *)
(* is capped.  A Redis error lets the request pass.                        *)
Incr(c) ==
  LET t == ctx[c]
      n == Min({count[t] + 1, Limit + 1})
  IN  /\ at[c] = "incr"
      /\ count' = [count EXCEPT ![t] = n]
      /\ IF Exceeded(n) THEN Answer(c, 429, {})
         ELSE /\ counted' = [counted EXCEPT ![c] = TRUE]
              /\ Goto(c, IF First(n) THEN "expire" ELSE "handler")
              /\ UNCHANGED <<ctx, found>>
      /\ UNCHANGED <<ttl, unexpiring, allowance, tables>>

(* Redis applies an INCR whose answer is lost.  go-redis repeats it, which *)
(* is one of these or an Incr (how often is not bounded here), or gives up *)
(* with an error, which is IncrFails.  When the one that is lost created   *)
(* the key, nobody will see the value 1.                                   *)
IncrLost(c) ==
  LET t == ctx[c]
  IN  /\ at[c] = "incr" /\ t \in Lossy
      /\ count' = [count EXCEPT ![t] = Min({count[t] + 1, Limit + 1})]
      /\ unexpiring' = IF count[t] = 0 THEN unexpiring \cup {t} ELSE unexpiring
      /\ UNCHANGED <<request, ttl, allowance, tables, resp>>

IncrFails(c) ==
  /\ at[c] = "incr" /\ Goto(c, "handler")
  /\ UNCHANGED <<ctx, found, counted, limiter, allowance, tables>>

(* EXPIRE, whose error is ignored; it runs under the request's context, so *)
(* it is also lost when the client goes away.                              *)
Expire(c) ==
  /\ at[c] = "expire" /\ Goto(c, "handler")
  /\ \/ ttl' = [ttl EXCEPT ![ctx[c]] = TRUE] /\ UNCHANGED unexpiring
     \/ ctx[c] \in Lossy /\ unexpiring' = unexpiring \cup {ctx[c]} /\ UNCHANGED ttl
  /\ UNCHANGED <<ctx, found, counted, count, allowance, tables>>

(* The minute is over.                                                     *)
WindowEnds(t) ==
  /\ ttl[t]
  /\ count' = [count EXCEPT ![t] = 0] /\ ttl' = [ttl EXCEPT ![t] = FALSE]
  /\ allowance' = [allowance EXCEPT ![t] =
       Limit + Cardinality({c \in Conns : ctx[c] = t /\ counted[c] /\ at[c] = "handler"})]
  /\ UNCHANGED <<request, unexpiring, tables, resp>>

(* A handler begins.                                                       *)
Handle(c) ==
  /\ at[c] = "handler"
  /\ allowance' = IF counted[c] THEN [allowance EXCEPT ![ctx[c]] = @ - 1] ELSE allowance
  /\ UNCHANGED limiter

-----------------------------------------------------------------------------
(* Statements.                                                             *)

(* Mutants: the tenant is left out of the WHERE clause.                    *)
SelectAnyTenant(table, t) == {r \in rows : r.table = table /\ r.live}
WhereID(table, t, id) == {r \in rows : r.table = table /\ r.id = id}

(* WHERE tenant_id=$1 AND deleted_at IS NULL                               *)
Select(table, t) == {r \in rows : r.table = table /\ r.tenant = t /\ r.live}

(* WHERE id=$1 AND tenant_id=$2, deleted or not.                           *)
Where(table, t, id) == {r \in rows : r.table = table /\ r.id = id /\ r.tenant = t}

RowsWith(table, key, t) == {r \in rows : r.table = table /\ r.tenant = t /\ r.key = key}

(* Mutant: unique among the rows that are not deleted.                     *)
ConflictsLive(table, key, t) ==
  table \in Keyed /\ \E r \in RowsWith(table, key, t) : r.live

(* The unique keys count deleted rows too; geofences have none.            *)
Conflicts(table, key, t) ==
  table \in Keyed /\ RowsWith(table, key, t) # {}

NewRow(table, key, t) ==
  [table |-> table, id |-> 1 + Max({r.id : r \in {x \in rows : x.table = table}} \cup {0}),
   tenant |-> t, key |-> key, live |-> TRUE, version |-> 0]

Changed(old, new) ==
  /\ rows' = (rows \ old) \cup new
  /\ rows' # rows => writes < MaxWrites
  /\ writes' = IF rows' = rows THEN writes ELSE writes + 1

(* A write that is applied: its result arrives or gets lost.  A statement  *)
(* that fails is a Read of nothing.                                        *)
Write(c, old, new, good, bad) ==
  Changed(old, new) /\ \E status \in {good, bad} : Answer(c, status, {})

Read(c, status, items) == Answer(c, status, items) /\ UNCHANGED tables

IDs == {r.id : r \in rows} \cup {1 + Max({r.id : r \in rows})}
T(c) == ctx[c]
-----------------------------------------------------------------------------
(* Devices.                                                                *)

(* List and Get look the rows up and then ask Redis for each live key.     *)
ListDevices(c) ==
  /\ Handle(c)
  /\ \/ /\ Goto(c, "online")
        /\ found' = [found EXCEPT ![c] = Select("devices", T(c))]
        /\ UNCHANGED <<ctx, counted, tables>>
     \/ Read(c, 500, {})

GetDevice(c) ==
  /\ Handle(c)
  /\ \/ \E r \in Select("devices", T(c)) :
          /\ Goto(c, "online")
          /\ found' = [found EXCEPT ![c] = {r}]
          /\ UNCHANGED <<ctx, counted, tables>>
     \/ Read(c, 404, {})

(* EXISTS gives the online flag; an error counts as offline.               *)
Online(c) ==
  /\ at[c] = "online"
  /\ Read(c, 200, found[c])
  /\ UNCHANGED <<limiter, allowance>>

(* Mutant: the error of the INSERT is not looked at.                       *)
InsertedUnchecked(c, table, key) ==
  LET row == NewRow(table, key, T(c))
  IN  \/ Changed({}, {row}) /\ Created(c, table, row.id)
      \/ UNCHANGED tables /\ Created(c, table, NoID)

(* INSERT ... RETURNING id, with its error looked at: 500.                 *)
Inserted(c, table, key) ==
  LET row == NewRow(table, key, T(c))
  IN  \/ /\ ~Conflicts(table, key, T(c))
         /\ Changed({}, {row})
         /\ \/ Created(c, table, row.id)
            \/ Answer(c, 500, {})
      \/ UNCHANGED tables /\ Answer(c, 500, {})

(* The same with the error ignored: 201 and an empty id.                   *)
InsertedOrNot(c, table, key) ==
  LET row == NewRow(table, key, T(c))
  IN  \/ /\ ~Conflicts(table, key, T(c))
         /\ Changed({}, {row})
         /\ \/ Created(c, table, row.id)
            \/ Created(c, table, NoID)
      \/ UNCHANGED tables /\ Created(c, table, NoID)

CreateDevice(c) == Handle(c) /\ \E key \in Keys : Inserted(c, "devices", key)

(* UPDATE of the name and vehicle of a device that is not deleted.         *)
UpdateDevice(c) ==
  /\ Handle(c)
  /\ \/ \E id \in IDs :
          LET hit == {r \in Where("devices", T(c), id) : r.live}
          IN  Write(c, hit, {[r EXCEPT !.version = 1] : r \in hit}, 204, 500)
     \/ Read(c, 500, {})

(* Soft deletion of a device or a vehicle; an error is ignored.            *)
SoftDelete(c, table) ==
  /\ Handle(c)
  /\ \/ \E id \in IDs :
          LET hit == Where(table, T(c), id)
          IN  Write(c, hit, {[r EXCEPT !.live = FALSE] : r \in hit}, 204, 204)
     \/ Read(c, 204, {})

DeleteDevice(c) == SoftDelete(c, "devices")

(* Redis device:live:{tenant}:{id}, which the stream processor writes for  *)
(* the tenant of the device, deleted or not.                               *)
Live(c) ==
  /\ Handle(c)
  /\ \/ \E id \in IDs : /\ Where("devices", T(c), id) # {}
                       /\ Read(c, 200, Where("devices", T(c), id))
     \/ Read(c, 404, {})

(* Bounds of a time range; a missing or malformed one has its default.     *)
Day == 2
parseTimeRange(from, to) ==
  (IF from = "bad" THEN Clock - Day ELSE Clock - 1) .. (IF to = "bad" THEN Clock ELSE Clock - 1)

(* avl_records of the device with this tenant and in the range.            *)
AvlOf(t, id, range) ==
  {[table |-> "avl", tenant |-> r.tenant, id |-> id, ts |-> p] :
     r \in Where("devices", t, id), p \in Points[id] \cap range}

History(c) ==
  /\ Handle(c)
  /\ \/ \E id \in DOMAIN Points, from \in {"ok", "bad"}, to \in {"ok", "bad"} :
          Read(c, 200, AvlOf(T(c), id, parseTimeRange(from, to)))
     \/ Read(c, 500, {})

DeviceTrips(c) ==
  /\ Handle(c)
  /\ \/ \E id \in IDs : Read(c, 200, Where("trips", T(c), id))
     \/ Read(c, 500, {})

(* The latest record; none, or a database error, is 404.                   *)
Telemetry(c) ==
  /\ Handle(c)
  /\ \/ \E id \in DOMAIN Points :
          LET avl == AvlOf(T(c), id, 0 .. Clock)
          IN  /\ avl # {}
              /\ Read(c, 200, {p \in avl : \A q \in avl : q.ts <= p.ts})
     \/ Read(c, 404, {})

-----------------------------------------------------------------------------
(* Vehicles, geofences, drivers, alerts, reports and settings.             *)

(* Lists that ignore an error of the query: an empty list.                 *)
ListIgnoring(c, table) ==
  Handle(c) /\ (Read(c, 200, Select(table, T(c))) \/ Read(c, 200, {}))

ListVehicles(c)  == ListIgnoring(c, "vehicles")
ListGeofences(c) == ListIgnoring(c, "geofences")
ListDrivers(c)   == ListIgnoring(c, "drivers")
ListAlerts(c)    == ListIgnoring(c, "alerts")
ReportTrips(c)   == ListIgnoring(c, "trips")

GetVehicle(c) ==
  /\ Handle(c)
  /\ (\E r \in Select("vehicles", T(c)) : Read(c, 200, {r})) \/ Read(c, 404, {})

CreateVehicle(c)  == Handle(c) /\ \E key \in Keys : InsertedOrNot(c, "vehicles", key)
CreateGeofence(c) == Handle(c) /\ \E key \in Keys : InsertedOrNot(c, "geofences", key)
DeleteVehicle(c)  == SoftDelete(c, "vehicles")

(* 204 whether or not there is such an alert.                              *)
Acknowledge(c) ==
  /\ Handle(c)
  /\ \/ \E id \in IDs :
          LET hit == Where("alerts", T(c), id)
          IN  Write(c, hit, {[r EXCEPT !.version = 1] : r \in hit}, 204, 204)
     \/ Read(c, 204, {})

(* From harsh accelerations and brakings, and overspeeds, of all trips.    *)
ScoreOf(accel, brake, overspeed) ==
  LET lost == 2 * accel + 2 * brake + overspeed
  IN  IF lost > 100 THEN 0 ELSE 100 - lost

(* The aggregate of a driver's trips with this tenant, and 500 on an       *)
(* error.  Rows have no driver_id here: any of the tenant's trips may be   *)
(* the driver's.  The item carries the tenants of the trips it is made of. *)
Score(c) ==
  /\ Handle(c)
  /\ \/ \E driven \in SUBSET Select("trips", T(c)) :
          LET sum == SumFunction([r \in driven |-> r.version])
          IN  Read(c, 200, {[tenant |-> r.tenant, score |-> ScoreOf(sum, 0, sum)] : r \in driven})
     \/ Read(c, 500, {})

(* Two queries: the tenant, then the user in that tenant.                  *)
Overview(c) ==
  /\ Handle(c)
  /\ \/ /\ Select("tenants", T(c)) # {} /\ Goto(c, "user")
        /\ found' = [found EXCEPT ![c] = Select("tenants", T(c))]
        /\ UNCHANGED <<ctx, counted, tables>>
     \/ Read(c, 500, {})

OverviewUser(c) ==
  /\ at[c] = "user"
  /\ \/ \E u \in Select("users", T(c)) : Read(c, 200, found[c] \cup {u})
     \/ Read(c, 500, {})
  /\ UNCHANGED <<limiter, allowance>>

Users(c) ==
  Handle(c) /\ (Read(c, 200, Select("users", T(c))) \/ Read(c, 500, {}))

UpdatePreferences(c) ==
  /\ Handle(c)
  /\ LET hit == Select("tenants", T(c))
     IN  \/ Write(c, hit, {[r EXCEPT !.version = 1] : r \in hit}, 200, 500)
         \/ Read(c, 500, {}) \/ Read(c, 400, {})

(* A body that does not bind.                                              *)
BindFails(c) == Handle(c) /\ Read(c, 400, {})

(* Handlers without a statement: what they answer.                         *)
UpdateVehicle  == {204}
SendCommand    == {202}
GeofenceStubs  == {200, 204}
RuleStubs      == {200, 201, 204}
ReportStubs    == {200}
DriverStubs    == {200, 201}
Stub(c) ==
  /\ Handle(c)
  /\ \E status \in UNION {UpdateVehicle, SendCommand, GeofenceStubs, RuleStubs,
                          ReportStubs, DriverStubs} : Read(c, status, {})

Handler(c) ==
  \/ ListDevices(c) \/ GetDevice(c) \/ Online(c) \/ CreateDevice(c) \/ UpdateDevice(c)
  \/ DeleteDevice(c) \/ Live(c) \/ History(c) \/ DeviceTrips(c) \/ Telemetry(c)
  \/ ListVehicles(c) \/ GetVehicle(c) \/ CreateVehicle(c) \/ DeleteVehicle(c)
  \/ ListGeofences(c) \/ CreateGeofence(c) \/ ListAlerts(c) \/ Acknowledge(c)
  \/ ReportTrips(c) \/ ListDrivers(c) \/ Score(c)
  \/ Overview(c) \/ OverviewUser(c) \/ Users(c) \/ UpdatePreferences(c)
  \/ BindFails(c) \/ Stub(c)

Step ==
  \/ \E c \in Conns :
       \/ Unauthorized(c) \/ Middleware(c) \/ Incr(c) \/ IncrLost(c) \/ IncrFails(c)
       \/ Expire(c) \/ Handler(c)
  \/ \E t \in Tenants : WindowEnds(t)

Next == (resp = NoResponse /\ Step) \/ Sent

Spec == Init /\ [][Next]_vars
-----------------------------------------------------------------------------
(* Properties.                                                             *)

RequestType ==
  /\ at \in [Conns -> {"idle", "incr", "expire", "handler", "online", "user"}]
  /\ ctx \in [Conns -> Tenants \cup {NoTenant}]
  /\ \A c \in Conns : at[c] = "idle" <=> ctx[c] = NoTenant
  /\ found \in [Conns -> SUBSET RowType]
  /\ counted \in [Conns -> BOOLEAN]

LimiterType ==
  /\ count \in [Tenants -> 0 .. Limit + 1] /\ ttl \in [Tenants -> BOOLEAN]
  /\ unexpiring \subseteq Tenants
  /\ allowance \in [Tenants -> -1 .. Limit + Cardinality(Conns)]

TablesType == rows \subseteq RowType /\ writes \in 0 .. MaxWrites

(* Type correctness; a request that is not being served has no tenant.     *)
TypeOK == RequestType /\ LimiterType /\ TablesType

(* Whatever id a request names, and whatever other requests do between its *)
(* statements, its response holds rows of the caller's tenant only, and so *)
(* do the rows a handler keeps between two statements.                     *)
TenantIsolated ==
  /\ resp # NoResponse => \A r \in resp.items : r.tenant = resp.tenant
  /\ \A c \in Conns : \A r \in found[c] : r.tenant = ctx[c]

(* A step of a request changes rows of its own tenant only, even when the  *)
(* id it names belongs to another.                                         *)
OnlyOwnRowsChange ==
  [][\A r \in (rows \ rows') \cup (rows' \ rows) : r.tenant = resp'.tenant]_vars

(* A deleted row is never brought back, not even by registering the same   *)
(* device again: what the stream processor was told is gone stays gone.    *)
DeletionIsFinal ==
  [][\A r \in rows : ~r.live =>
       \A s \in RowsWith(r.table, r.key, r.tenant)' :
         r.table \in Keyed => ~s.live]_vars

(* A 201 for a device names a row that is there, although the answer of    *)
(* the database may be lost or the key be taken.                           *)
CreatedIsStored ==
  resp.status = 201 /\ resp.items = {} /\ "table" \in DOMAIN resp /\ resp.table = "devices" =>
    \E r \in Select("devices", resp.tenant) : r.id = resp.id

(* A rate limit counter has no expiry, and will lock its tenant out for    *)
(* good, exactly when an EXPIRE or the answer to the first INCR was lost,  *)
(* or for as long as a request is about to set it: no interleaving of      *)
(* requests and window ends makes another such counter, and once the loss  *)
(* has happened no later request makes up for it.                          *)
CounterExpires ==
  \A t \in Tenants :
    (count[t] > 0 /\ ~ttl[t])
      <=> (t \in unexpiring \/ \E c \in Conns : at[c] = "expire" /\ ctx[c] = t)

(* However requests interleave, no more than Limit counted requests of a   *)
(* tenant are handled in a window, besides those that were on their way    *)
(* when it began.                                                          *)
WithinLimit == \A t \in Tenants : allowance[t] >= 0
=============================================================================
