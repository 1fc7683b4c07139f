--------------------------- MODULE FleetAPIProofs ---------------------------
(***************************************************************************)
(* Proofs about FleetAPI for any number of tenants, requests, rows and any *)
(* limit.                                                                  *)
(***************************************************************************)
EXTENDS FleetAPI, Extrema

-----------------------------------------------------------------------------
(* What the handlers have in common.                                       *)

Own(c, items) == \A r \in items : r.tenant = ctx[c]

(* The request is answered with rows of its own tenant.                    *)
Replies(c) ==
  Free(c) /\ resp'.tenant = ctx[c] /\ Own(c, resp'.items)

(* A first query, whose rows are kept for the second.                      *)
Looks(c) ==
  /\ \E place \in {"online", "user"} : at' = [at EXCEPT ![c] = place]
  /\ \E items \in SUBSET rows : Own(c, items) /\ found' = [found EXCEPT ![c] = items]
  /\ UNCHANGED <<ctx, counted, resp, tables>>

(* What a statement does to the tables: INSERT, UPDATE, soft deletion.     *)
Inserts(c) ==
  \E table \in Tables, key \in Keys :
    ~Conflicts(table, key, ctx[c]) /\ Changed({}, {NewRow(table, key, ctx[c])})

Updates(c) ==
  \E hit \in SUBSET rows :
    /\ Own(c, hit) /\ \A r \in hit : r.table \in Keyed => r.live
    /\ Changed(hit, {[r EXCEPT !.version = 1] : r \in hit})

Deletes(c) ==
  \E hit \in SUBSET rows :
    Own(c, hit) /\ Changed(hit, {[r EXCEPT !.live = FALSE] : r \in hit})

Writes(c) == UNCHANGED tables \/ Inserts(c) \/ Updates(c) \/ Deletes(c)

(* The history of the limiter: a handler begins, or goes on.               *)
Begins(c)    == Handle(c)
Continues(c) == at[c] \in {"online", "user"} /\ UNCHANGED <<limiter, allowance>>

Shape(c) ==
  /\ Begins(c) \/ Continues(c)
  /\ Looks(c) \/ (Replies(c) /\ Writes(c))

LEMMA OwnRows ==
  ASSUME NEW c \in Conns, NEW table, NEW id
  PROVE  /\ Select(table, T(c)) \in SUBSET rows /\ Own(c, Select(table, T(c)))
         /\ Where(table, T(c), id) \in SUBSET rows /\ Own(c, Where(table, T(c), id))
  BY DEF Select, Where, Own, T

LEMMA AnswerReplies ==
  ASSUME NEW c \in Conns, NEW status, NEW items, Answer(c, status, items), Own(c, items)
  PROVE  Replies(c)
  BY DEF Answer, Replies, Own

LEMMA ReadShape ==
  ASSUME NEW c \in Conns, NEW status, NEW items, Read(c, status, items), Own(c, items)
  PROVE  Replies(c) /\ Writes(c)
  BY AnswerReplies DEF Read, Writes

LEMMA EmptyRead ==
  ASSUME NEW c \in Conns, NEW status, Read(c, status, {})
  PROVE  Replies(c) /\ Writes(c)
  BY ReadShape DEF Own

LEMMA CreatedReplies ==
  ASSUME NEW c \in Conns, NEW table, NEW id, Created(c, table, id)
  PROVE  Replies(c)
  BY DEF Created, Replies, Own

LEMMA InsertedShape ==
  ASSUME NEW c \in Conns, NEW table \in Tables, NEW key \in Keys,
         Inserted(c, table, key) \/ InsertedOrNot(c, table, key)
  PROVE  Replies(c) /\ Writes(c)
  <1>1. \/ /\ ~Conflicts(table, key, T(c)) /\ Changed({}, {NewRow(table, key, T(c))})
        \/ UNCHANGED tables
    BY DEF Inserted, InsertedOrNot
  <1>2. (\E id : Created(c, table, id)) \/ Answer(c, 500, {})
    BY DEF Inserted, InsertedOrNot
  <1>3. Replies(c)
    BY <1>2, AnswerReplies, CreatedReplies DEF Own
  <1> QED BY <1>1, <1>3 DEF Writes, Inserts, T

LEMMA WriteShape ==
  ASSUME NEW c \in Conns, NEW old, NEW new, NEW good, NEW bad, Write(c, old, new, good, bad)
  PROVE  Replies(c) /\ Changed(old, new)
  <1>1. Changed(old, new) /\ \E status \in {good, bad} : Answer(c, status, {})
    BY DEF Write
  <1> QED BY <1>1, AnswerReplies DEF Own

(* Each group of handlers has the shape.                                   *)
LEMMA LookShape ==
  ASSUME NEW c \in Conns, ListDevices(c) \/ GetDevice(c) \/ Overview(c)
  PROVE  Shape(c)
  <1>1. Begins(c)
    BY DEF ListDevices, GetDevice, Overview, Begins
  <1>2. ASSUME NEW place \in {"online", "user"}, NEW items \in SUBSET rows, Own(c, items),
               Goto(c, place), found' = [found EXCEPT ![c] = items],
               UNCHANGED <<ctx, counted, tables>>
        PROVE  Looks(c)
    BY <1>2 DEF Looks, Goto
  <1>3. Looks(c) \/ (Replies(c) /\ Writes(c))
    <2>1. ASSUME ListDevices(c) PROVE Looks(c) \/ (Replies(c) /\ Writes(c))
      BY <1>2, <2>1, OwnRows, EmptyRead DEF ListDevices
    <2>2. ASSUME GetDevice(c) PROVE Looks(c) \/ (Replies(c) /\ Writes(c))
      <3>1. ASSUME NEW r \in Select("devices", T(c)) PROVE {r} \in SUBSET rows /\ Own(c, {r})
        BY OwnRows DEF Own
      <3> QED BY <1>2, <2>2, <3>1, EmptyRead DEF GetDevice
    <2>3. ASSUME Overview(c) PROVE Looks(c) \/ (Replies(c) /\ Writes(c))
      BY <1>2, <2>3, OwnRows, EmptyRead DEF Overview
    <2> QED BY <2>1, <2>2, <2>3
  <1> QED BY <1>1, <1>3 DEF Shape

LEMMA ContinueShape ==
  ASSUME NEW c \in Conns, Own(c, found[c]), Online(c) \/ OverviewUser(c)
  PROVE  Shape(c)
  <1>1. CASE Online(c)
    BY <1>1, ReadShape DEF Online, Shape, Continues
  <1>2. CASE OverviewUser(c)
    <2>1. Continues(c)
      BY <1>2 DEF OverviewUser, Continues
    <2>2. ASSUME NEW u \in Select("users", T(c)) PROVE Own(c, found[c] \cup {u})
      BY OwnRows DEF Own
    <2> QED BY <1>2, <2>1, <2>2, ReadShape, EmptyRead DEF OverviewUser, Shape
  <1> QED BY <1>1, <1>2

LEMMA CreateShape ==
  ASSUME NEW c \in Conns, CreateDevice(c) \/ CreateVehicle(c) \/ CreateGeofence(c)
  PROVE  Shape(c)
  BY InsertedShape DEF CreateDevice, CreateVehicle, CreateGeofence, Tables, Shape, Begins

LEMMA UpdateShape ==
  ASSUME NEW c \in Conns, UpdateDevice(c) \/ Acknowledge(c) \/ UpdatePreferences(c)
  PROVE  Shape(c)
  <1>1. Begins(c)
    BY DEF UpdateDevice, Acknowledge, UpdatePreferences, Begins
  <1>2. ASSUME NEW hit \in SUBSET rows, Own(c, hit), \A r \in hit : r.table \in Keyed => r.live,
               NEW good, NEW bad,
               Write(c, hit, {[r EXCEPT !.version = 1] : r \in hit}, good, bad)
        PROVE  Replies(c) /\ Writes(c)
    BY <1>2, WriteShape DEF Writes, Updates
  <1>3. ASSUME UpdateDevice(c) PROVE Replies(c) /\ Writes(c)
    <2>1. ASSUME NEW id
          PROVE  LET hit == {r \in Where("devices", T(c), id) : r.live}
                 IN  hit \in SUBSET rows /\ Own(c, hit) /\ \A r \in hit : r.table \in Keyed => r.live
      BY OwnRows DEF Own
    <2> QED BY <1>2, <1>3, <2>1, EmptyRead DEF UpdateDevice
  <1>4. ASSUME Acknowledge(c) PROVE Replies(c) /\ Writes(c)
    <2>1. ASSUME NEW id
          PROVE  \A r \in Where("alerts", T(c), id) : r.table \notin Keyed
      BY DEF Where, Keyed
    <2> QED BY <1>2, <1>4, <2>1, OwnRows, EmptyRead DEF Acknowledge
  <1>5. ASSUME UpdatePreferences(c) PROVE Replies(c) /\ Writes(c)
    <2>1. \A r \in Select("tenants", T(c)) : r.table \notin Keyed
      BY DEF Select, Keyed
    <2> QED BY <1>2, <1>5, <2>1, OwnRows, EmptyRead DEF UpdatePreferences
  <1> QED BY <1>1, <1>3, <1>4, <1>5 DEF Shape

LEMMA DeleteShape ==
  ASSUME NEW c \in Conns, DeleteDevice(c) \/ DeleteVehicle(c)
  PROVE  Shape(c)
  <1>1. PICK table \in Tables : SoftDelete(c, table)
    BY DEF DeleteDevice, DeleteVehicle, Tables
  <1>2. ASSUME NEW hit \in SUBSET rows, Own(c, hit), NEW good, NEW bad,
               Write(c, hit, {[r EXCEPT !.live = FALSE] : r \in hit}, good, bad)
        PROVE  Replies(c) /\ Writes(c)
    BY <1>2, WriteShape DEF Writes, Deletes
  <1>3. Replies(c) /\ Writes(c)
    BY <1>1, <1>2, OwnRows, EmptyRead DEF SoftDelete
  <1> QED BY <1>1, <1>3 DEF SoftDelete, Shape, Begins

LEMMA ReadersShape ==
  ASSUME NEW c \in Conns,
         \/ Live(c) \/ History(c) \/ DeviceTrips(c) \/ Telemetry(c)
         \/ ListVehicles(c) \/ ListGeofences(c) \/ ListDrivers(c) \/ ListAlerts(c)
         \/ ReportTrips(c) \/ GetVehicle(c) \/ Score(c) \/ Users(c) \/ BindFails(c) \/ Stub(c)
  PROVE  Shape(c)
  <1>1. Begins(c)
    BY DEF Live, History, DeviceTrips, Telemetry, ListVehicles, ListGeofences, ListDrivers,
         ListAlerts, ReportTrips, ListIgnoring, GetVehicle, Score, Users, BindFails, Stub, Begins
  <1>2. ASSUME NEW id, NEW range PROVE Own(c, AvlOf(T(c), id, range))
    BY OwnRows DEF Own, AvlOf
  <1>3. CASE Live(c) \/ DeviceTrips(c) \/ Users(c)
    BY <1>1, <1>3, OwnRows, ReadShape, EmptyRead DEF Live, DeviceTrips, Users, Shape
  <1>4. CASE History(c)
    BY <1>1, <1>2, <1>4, ReadShape, EmptyRead DEF History, Shape
  <1>5. CASE Telemetry(c)
    <2>1. ASSUME NEW id
          PROVE  LET avl == AvlOf(T(c), id, 0 .. Clock)
                 IN  Own(c, {p \in avl : \A q \in avl : q.ts <= p.ts})
      BY <1>2 DEF Own
    <2> QED BY <1>1, <1>5, <2>1, ReadShape, EmptyRead DEF Telemetry, Shape
  <1>6. CASE ListVehicles(c) \/ ListGeofences(c) \/ ListDrivers(c) \/ ListAlerts(c)
              \/ ReportTrips(c)
    BY <1>1, <1>6, OwnRows, ReadShape, EmptyRead
       DEF ListVehicles, ListGeofences, ListDrivers, ListAlerts, ReportTrips, ListIgnoring, Shape
  <1>7. CASE GetVehicle(c)
    <2>1. ASSUME NEW r \in Select("vehicles", T(c)) PROVE Own(c, {r})
      BY OwnRows DEF Own
    <2> QED BY <1>1, <1>7, <2>1, ReadShape, EmptyRead DEF GetVehicle, Shape
  <1>8. CASE Score(c)
    <2>1. ASSUME NEW driven \in SUBSET Select("trips", T(c)), NEW n
          PROVE  Own(c, {[tenant |-> r.tenant, score |-> n] : r \in driven})
      BY OwnRows DEF Own
    <2>2. \/ \E driven \in SUBSET Select("trips", T(c)) : \E n :
               Read(c, 200, {[tenant |-> r.tenant, score |-> n] : r \in driven})
          \/ Read(c, 500, {})
      BY <1>8, Zenon DEF Score
    <2> QED BY <1>1, <2>1, <2>2, ReadShape, EmptyRead DEF Shape
  <1>9. CASE BindFails(c) \/ Stub(c)
    BY <1>1, <1>9, EmptyRead DEF BindFails, Stub, Shape
  <1> QED BY <1>3, <1>4, <1>5, <1>6, <1>7, <1>8, <1>9

LEMMA HandlerShape ==
  ASSUME NEW c \in Conns, Own(c, found[c]), Handler(c)
  PROVE  Shape(c)
  BY LookShape, ContinueShape, CreateShape, UpdateShape, DeleteShape, ReadersShape DEF Handler

-----------------------------------------------------------------------------
(* The inductive invariants.                                               *)

FoundOwn == \A c \in Conns : Own(c, found[c])

(* A table is finite, so it has a greatest id, and its unique keys are     *)
(* unique.                                                                 *)
TablesInv ==
  /\ TablesType /\ IsFiniteSet(rows)
  /\ \A r, s \in rows : r.table \in Keyed /\ SameKey(r, s) => r = s

(* A request is counted only once INCR has let it pass.                    *)
CountedInv == \A c \in Conns : at[c] \in {"idle", "incr"} => ~counted[c]

(* The allowance covers the requests that have been counted and not yet    *)
(* handled, and those that the counter will still let pass.  One request   *)
(* at most is about to set the expiry, of a counter that has none.         *)
Pending(t) == {c \in Conns : ctx[c] = t /\ counted[c] /\ at[c] \in {"expire", "handler"}}
Left(t)    == IF count[t] < Limit THEN Limit - count[t] ELSE 0
Expiring(c, t) == at[c] = "expire" /\ ctx[c] = t

WindowInv(t) ==
  /\ allowance[t] >= Cardinality(Pending(t)) + Left(t)
  /\ ttl[t] => count[t] > 0
  /\ \A c \in Conns : Expiring(c, t) => count[t] > 0 /\ ~ttl[t]
  /\ \A c, e \in Conns : Expiring(c, t) /\ Expiring(e, t) => c = e

LimitInv == \A t \in Tenants : WindowInv(t)

LEMMA NextCases ==
  ASSUME Next, FoundOwn
  PROVE  \/ Sent
         \/ \E c \in Conns : Unauthorized(c) \/ Middleware(c) \/ Incr(c) \/ IncrLost(c)
                              \/ IncrFails(c) \/ Expire(c) \/ Shape(c)
         \/ \E t \in Tenants : WindowEnds(t)
  BY HandlerShape DEF Next, Step, FoundOwn

(* A request that is being served has a tenant.                            *)
LEMMA ServedTenant ==
  ASSUME RequestType, NEW c \in Conns, at[c] # "idle"
  PROVE  ctx[c] \in Tenants
  BY DEF RequestType

LEMMA ShapeServed ==
  ASSUME RequestType, NEW c \in Conns, Shape(c)
  PROVE  at[c] \in {"handler", "online", "user"} /\ ctx[c] \in Tenants
  <1>1. at[c] \in {"handler", "online", "user"}
    BY DEF Shape, Begins, Handle, Continues
  <1> QED BY <1>1, ServedTenant

-----------------------------------------------------------------------------
(* Requests.                                                               *)

LEMMA FreeRequest ==
  ASSUME RequestType, FoundOwn, NEW c \in Conns, Free(c)
  PROVE  RequestType' /\ FoundOwn'
  <1>1. RequestType'
    <2>1. counted' \in [Conns -> BOOLEAN]
      BY DEF Free, RequestType
    <2> QED BY <2>1 DEF Free, RequestType
  <1>2. FoundOwn'
    BY DEF Free, RequestType, FoundOwn, Own
  <1> QED BY <1>1, <1>2

(* A request that goes on to another place with what it has found.         *)
LEMMA GoOnRequest ==
  ASSUME RequestType, FoundOwn, NEW c \in Conns, at[c] # "idle",
         NEW place \in {"expire", "handler", "online", "user"},
         at' = [at EXCEPT ![c] = place], ctx' = ctx, found' = found,
         counted' \in [Conns -> BOOLEAN]
  PROVE  RequestType' /\ FoundOwn'
  BY DEF RequestType, FoundOwn, Own

LEMMA RequestStep ==
  ASSUME RequestType, FoundOwn, TablesType, Next
  PROVE  RequestType' /\ FoundOwn'
  <1>1. CASE UNCHANGED request
    BY <1>1 DEF request, RequestType, FoundOwn, Own
  <1>2. ASSUME NEW c \in Conns, Free(c) PROVE RequestType' /\ FoundOwn'
    BY <1>2, FreeRequest
  <1>3. ASSUME NEW c \in Conns, Middleware(c) PROVE RequestType' /\ FoundOwn'
    <2>1. PICK t \in Tenants : ctx' = [ctx EXCEPT ![c] = t]
      BY <1>3 DEF Middleware
    <2>2. at[c] = "idle" /\ at' = [at EXCEPT ![c] = "incr"] /\ UNCHANGED <<found, counted>>
      BY <1>3 DEF Middleware, Goto
    <2>3. found[c] = {}
      <3> SUFFICES ASSUME NEW r \in found[c] PROVE FALSE
        OBVIOUS
      <3>1. r.tenant = NoTenant
        BY <2>2 DEF RequestType, FoundOwn, Own
      <3>2. r \in RowType
        BY DEF RequestType
      <3> QED BY <3>1, <3>2, APIAssumption DEF RowType
    <2>4. RequestType'
      BY <2>1, <2>2, APIAssumption DEF RequestType
    <2>5. FoundOwn'
      BY <2>1, <2>2, <2>3 DEF RequestType, FoundOwn, Own
    <2> QED BY <2>4, <2>5
  <1>4. ASSUME NEW c \in Conns, Incr(c) PROVE RequestType' /\ FoundOwn'
    <2>1. CASE Free(c)
      BY <2>1, <1>2
    <2>2. CASE ~Free(c)
      <3>1. /\ at[c] = "incr" /\ ctx' = ctx /\ found' = found
            /\ counted' = [counted EXCEPT ![c] = TRUE]
            /\ \E place \in {"expire", "handler"} : at' = [at EXCEPT ![c] = place]
        BY <1>4, <2>2 DEF Incr, Answer, Goto
      <3>2. counted' \in [Conns -> BOOLEAN]
        BY <3>1 DEF RequestType
      <3> QED BY <3>1, <3>2, GoOnRequest
    <2> QED BY <2>1, <2>2
  <1>5. ASSUME NEW c \in Conns, IncrFails(c) \/ Expire(c) PROVE RequestType' /\ FoundOwn'
    <2>1. /\ at[c] # "idle" /\ at' = [at EXCEPT ![c] = "handler"] /\ UNCHANGED <<ctx, found, counted>>
      BY <1>5 DEF IncrFails, Expire, Goto
    <2>2. counted' \in [Conns -> BOOLEAN]
      BY <2>1 DEF RequestType
    <2> QED BY <2>1, <2>2, GoOnRequest
  <1>6. ASSUME NEW c \in Conns, Shape(c) PROVE RequestType' /\ FoundOwn'
    <2>1. CASE Replies(c)
      BY <1>2, <2>1 DEF Replies
    <2>2. CASE Looks(c)
      <3>1. PICK place \in {"online", "user"} : at' = [at EXCEPT ![c] = place]
        BY <2>2 DEF Looks
      <3>2. PICK items \in SUBSET rows : Own(c, items) /\ found' = [found EXCEPT ![c] = items]
        BY <2>2 DEF Looks
      <3>3. at[c] # "idle" /\ ctx' = ctx /\ counted' = counted
        BY <1>6, <2>2, ShapeServed DEF Looks
      <3>4. items \in SUBSET RowType
        BY DEF TablesType
      <3>5. RequestType'
        BY <3>1, <3>2, <3>3, <3>4 DEF RequestType
      <3>6. FoundOwn'
        BY <3>2, <3>3 DEF FoundOwn, Own, RequestType
      <3> QED BY <3>5, <3>6
    <2> QED BY <1>6, <2>1, <2>2 DEF Shape
  <1>7. ASSUME NEW c \in Conns, Unauthorized(c) PROVE Free(c)
    BY <1>7 DEF Unauthorized, Answer
  <1>8. ASSUME Sent \/ (\E t \in Tenants : WindowEnds(t)) \/ \E c \in Conns : IncrLost(c)
        PROVE  UNCHANGED request
    BY <1>8 DEF Sent, WindowEnds, IncrLost
  <1> QED BY <1>1, <1>2, <1>3, <1>4, <1>5, <1>6, <1>7, <1>8, NextCases

-----------------------------------------------------------------------------
(* Tables.                                                                 *)

(* The next id of a table is a number: the table has a greatest one.       *)
LEMMA NewRowType ==
  ASSUME TablesInv, NEW table \in Tables, NEW key \in Keys, NEW t \in Tenants
  PROVE  /\ NewRow(table, key, t) \in RowType
         /\ NewRow(table, key, t).table = table /\ NewRow(table, key, t).key = key
         /\ NewRow(table, key, t).tenant = t /\ NewRow(table, key, t).live
  <1> DEFINE of  == {x \in rows : x.table = table}
             ids == {r.id : r \in of}
             S   == ids \cup {0}
  <1>1. IsFiniteSet(of)
    BY FS_Subset DEF TablesInv
  <1>2. IsFiniteSet(ids)
    <2>1. [r \in of |-> r.id] \in Surjection(of, ids)
      BY DEF Surjection
    <2> HIDE DEF of, ids
    <2> QED BY <1>1, <2>1, FS_Surjection
  <1>3. IsFiniteSet(S)
    <2> HIDE DEF of, ids
    <2> QED BY <1>2, FS_AddElement
  <1>4. S \in SUBSET Nat
    BY DEF TablesInv, TablesType, RowType
  <1>5. Max(S) \in Nat
    <2>1. S # {}
      OBVIOUS
    <2> HIDE DEF S
    <2> QED BY <1>3, <1>4, <2>1, MaxIsGreatest
  <1>6. NewRow(table, key, t) =
          [table |-> table, id |-> 1 + Max(S), tenant |-> t, key |-> key, live |-> TRUE, version |-> 0]
    BY DEF NewRow
  <1> HIDE DEF S
  <1> QED BY <1>5, <1>6 DEF RowType

LEMMA UnchangedTables ==
  ASSUME TablesInv, UNCHANGED tables
  PROVE  TablesInv'
  BY DEF tables, TablesInv, TablesType

LEMMA WritesCounted ==
  ASSUME TablesType, NEW old, NEW new, Changed(old, new)
  PROVE  writes' \in 0 .. MaxWrites
  BY APIAssumption DEF Changed, TablesType

LEMMA TablesStep ==
  ASSUME RequestType, FoundOwn, TablesInv, Next
  PROVE  TablesInv'
  <1>1. CASE UNCHANGED tables
    BY <1>1, UnchangedTables
  <1>2. TablesType /\ IsFiniteSet(rows) /\ rows \subseteq RowType
    BY DEF TablesInv, TablesType
  <1>3. ASSUME NEW c \in Conns, ctx[c] \in Tenants, Inserts(c) PROVE TablesInv'
    <2>1. PICK table \in Tables, key \in Keys :
            ~Conflicts(table, key, ctx[c]) /\ Changed({}, {NewRow(table, key, ctx[c])})
      BY <1>3 DEF Inserts
    <2> DEFINE row == NewRow(table, key, ctx[c])
    <2>2. /\ row \in RowType /\ row.table = table /\ row.key = key
          /\ row.tenant = ctx[c]
      BY <1>3, NewRowType
    <2>3. rows' = rows \cup {row}
      BY <2>1 DEF Changed
    <2> HIDE DEF row
    <2>4. IsFiniteSet(rows')
      BY <1>2, <2>3, FS_AddElement
    <2>5. writes' \in 0 .. MaxWrites
      BY <1>2, <2>1, WritesCounted
    <2>6. ASSUME NEW r \in rows', NEW s \in rows', r.table \in Keyed, SameKey(r, s) PROVE r = s
      <3>1. ASSUME NEW x \in rows, x.table \in Keyed \/ row.table \in Keyed PROVE ~SameKey(x, row)
        BY <2>1, <2>2, <3>1 DEF Conflicts, RowsWith, SameKey
      <3> QED BY <2>3, <2>6, <3>1 DEF TablesInv, SameKey
    <2> QED BY <1>2, <2>2, <2>3, <2>4, <2>5, <2>6 DEF TablesInv, TablesType
  <1>4. ASSUME NEW hit \in SUBSET rows, NEW f \in [hit -> RowType],
               \A r \in hit : SameKey(r, f[r]),
               Changed(hit, {f[r] : r \in hit})
        PROVE  TablesInv'
    <2> DEFINE new == {f[r] : r \in hit}
    <2>1. rows' = (rows \ hit) \cup new /\ new \subseteq RowType
      BY <1>4 DEF Changed
    <2>2. IsFiniteSet(rows')
      <3>1. IsFiniteSet(hit) /\ IsFiniteSet(rows \ hit)
        BY <1>2, FS_Subset
      <3>2. f \in Surjection(hit, new)
        BY <1>4 DEF Surjection
      <3> HIDE DEF new
      <3> QED BY <2>1, <3>1, <3>2, FS_Surjection, FS_Union
    <2>3. writes' \in 0 .. MaxWrites
      BY <1>2, <1>4, WritesCounted
    <2>4. ASSUME NEW r \in rows', NEW s \in rows', r.table \in Keyed, SameKey(r, s) PROVE r = s
      <3>1. \A x \in rows' : \E y \in rows : SameKey(y, x) /\ x = IF y \in hit THEN f[y] ELSE y
        BY <1>4, <2>1 DEF SameKey
      <3>2. PICK y \in rows : SameKey(y, r) /\ r = IF y \in hit THEN f[y] ELSE y
        BY <3>1
      <3>3. PICK z \in rows : SameKey(z, s) /\ s = IF z \in hit THEN f[z] ELSE z
        BY <3>1
      <3>4. y = z
        BY <2>4, <3>2, <3>3 DEF TablesInv, SameKey
      <3> QED BY <3>2, <3>3, <3>4
    <2> QED BY <1>2, <2>1, <2>2, <2>3, <2>4 DEF TablesInv, TablesType
  <1>5. ASSUME NEW c \in Conns, Updates(c) PROVE TablesInv'
    <2>1. PICK hit \in SUBSET rows : Changed(hit, {[r EXCEPT !.version = 1] : r \in hit})
      BY <1>5, Zenon DEF Updates
    <2> DEFINE f == [r \in hit |-> [r EXCEPT !.version = 1]]
    <2>2. f \in [hit -> RowType] /\ \A r \in hit : SameKey(r, f[r])
      BY <1>2 DEF RowType, SameKey
    <2>3. {[r EXCEPT !.version = 1] : r \in hit} = {f[r] : r \in hit}
      OBVIOUS
    <2> HIDE DEF f
    <2> QED BY <1>4, <2>1, <2>2, <2>3
  <1>6. ASSUME NEW c \in Conns, Deletes(c) PROVE TablesInv'
    <2>1. PICK hit \in SUBSET rows : Changed(hit, {[r EXCEPT !.live = FALSE] : r \in hit})
      BY <1>6, Zenon DEF Deletes
    <2> DEFINE f == [r \in hit |-> [r EXCEPT !.live = FALSE]]
    <2>2. f \in [hit -> RowType] /\ \A r \in hit : SameKey(r, f[r])
      BY <1>2 DEF RowType, SameKey
    <2>3. {[r EXCEPT !.live = FALSE] : r \in hit} = {f[r] : r \in hit}
      OBVIOUS
    <2> HIDE DEF f
    <2> QED BY <1>4, <2>1, <2>2, <2>3
  <1>7. ASSUME NEW c \in Conns, Shape(c) PROVE TablesInv'
    BY <1>1, <1>3, <1>5, <1>6, <1>7, ShapeServed DEF Shape, Looks, Writes
  <1>8. ASSUME NEW c \in Conns,
               Unauthorized(c) \/ Middleware(c) \/ Incr(c) \/ IncrLost(c) \/ IncrFails(c) \/ Expire(c)
        PROVE  UNCHANGED tables
    BY <1>8 DEF Unauthorized, Middleware, Incr, IncrLost, IncrFails, Expire
  <1>9. ASSUME Sent \/ \E t \in Tenants : WindowEnds(t) PROVE UNCHANGED tables
    BY <1>9 DEF Sent, WindowEnds
  <1> QED BY <1>1, <1>7, <1>8, <1>9, NextCases

-----------------------------------------------------------------------------
(* The rate limit.                                                         *)

(* A step of one request leaves the others alone.                          *)
RequestOf(c) ==
  Unauthorized(c) \/ Middleware(c) \/ Incr(c) \/ IncrLost(c) \/ IncrFails(c) \/ Expire(c) \/ Shape(c)

LEMMA OtherRequests ==
  ASSUME RequestType, NEW c \in Conns, RequestOf(c), NEW e \in Conns, e # c
  PROVE  at'[e] = at[e] /\ ctx'[e] = ctx[e] /\ counted'[e] = counted[e]
  <1>1. CASE Free(c)
    BY <1>1 DEF Free, RequestType
  <1>2. CASE Middleware(c)
    BY <1>2 DEF Middleware, Goto, RequestType
  <1>3. CASE Incr(c)
    BY <1>1, <1>3 DEF Incr, Answer, Goto, RequestType
  <1>4. CASE IncrFails(c) \/ Expire(c)
    BY <1>4 DEF IncrFails, Expire, Goto, RequestType
  <1>5. CASE Looks(c)
    BY <1>5 DEF Looks, RequestType
  <1>6. CASE IncrLost(c)
    BY <1>6 DEF IncrLost, request
  <1> QED BY <1>1, <1>2, <1>3, <1>4, <1>5, <1>6 DEF RequestOf, Unauthorized, Answer, Shape, Replies

(* Where the request itself is afterwards.                                 *)
LEMMA ShapeTo ==
  ASSUME RequestType, NEW c \in Conns, Shape(c)
  PROVE  at'[c] \in {"idle", "online", "user"} /\ (at'[c] = "idle" => ~counted'[c])
  BY DEF Shape, Looks, Replies, Free, RequestType

LEMMA CountedStep ==
  ASSUME RequestType, FoundOwn, CountedInv, Next
  PROVE  CountedInv'
  <1>1. ASSUME NEW c \in Conns, RequestOf(c),
               at'[c] \in {"idle", "incr"} => ~counted'[c]
        PROVE  CountedInv'
    BY <1>1, OtherRequests DEF CountedInv
  <1>2. ASSUME NEW c \in Conns, Unauthorized(c) PROVE CountedInv'
    <2>1. ~counted'[c]
      BY <1>2 DEF Unauthorized, Answer, Free, RequestType
    <2> QED BY <1>1, <1>2, <2>1 DEF RequestOf
  <1>3. ASSUME NEW c \in Conns, Middleware(c) PROVE CountedInv'
    <2>1. ~counted'[c]
      BY <1>3 DEF Middleware, CountedInv
    <2> QED BY <1>1, <1>3, <2>1 DEF RequestOf
  <1>4. ASSUME NEW c \in Conns, Incr(c) PROVE CountedInv'
    <2>1. Free(c) \/ at'[c] \in {"expire", "handler"}
      BY <1>4 DEF Incr, Answer, Goto, RequestType
    <2>2. Free(c) => ~counted'[c]
      BY DEF Free, RequestType
    <2> QED BY <1>1, <1>4, <2>1, <2>2 DEF RequestOf
  <1>5. ASSUME NEW c \in Conns, IncrFails(c) \/ Expire(c) PROVE CountedInv'
    <2>1. at'[c] = "handler"
      BY <1>5 DEF IncrFails, Expire, Goto, RequestType
    <2> QED BY <1>1, <1>5, <2>1 DEF RequestOf
  <1>6. ASSUME NEW c \in Conns, Shape(c) PROVE CountedInv'
    BY <1>1, <1>6, ShapeTo DEF RequestOf
  <1>7. ASSUME Sent \/ (\E t \in Tenants : WindowEnds(t)) \/ \E c \in Conns : IncrLost(c)
        PROVE  CountedInv'
    BY <1>7 DEF Sent, WindowEnds, IncrLost, request, CountedInv
  <1> QED BY <1>2, <1>3, <1>4, <1>5, <1>6, <1>7, NextCases

LEMMA PendingFinite ==
  ASSUME NEW t
  PROVE  /\ IsFiniteSet(Pending(t)) /\ Cardinality(Pending(t)) \in Nat
         /\ Cardinality(Pending(t)) <= Cardinality(Conns)
  <1>1. Pending(t) \in SUBSET Conns
    BY DEF Pending
  <1> QED BY <1>1, FiniteAssumption, FS_Subset, FS_CardinalityType

LEMMA CountTypes ==
  ASSUME LimiterType, NEW t \in Tenants
  PROVE  /\ count[t] \in Nat /\ count[t] <= Limit + 1 /\ ttl[t] \in BOOLEAN
         /\ allowance[t] \in Int /\ allowance[t] >= -1
         /\ allowance[t] <= Limit + Cardinality(Conns)
         /\ Cardinality(Conns) \in Nat /\ Limit \in Nat \ {0} /\ Left(t) \in Nat
  <1>1. count[t] \in 0 .. Limit + 1 /\ ttl[t] \in BOOLEAN
    BY DEF LimiterType
  <1>2. allowance[t] \in -1 .. Limit + Cardinality(Conns)
    BY DEF LimiterType
  <1>3. Cardinality(Conns) \in Nat /\ Limit \in Nat \ {0}
    BY APIAssumption, FiniteAssumption, FS_CardinalityType
  <1>4. count[t] \in Nat /\ count[t] <= Limit + 1
    BY <1>1, <1>3
  <1> QED BY <1>1, <1>2, <1>3, <1>4 DEF Left

(* Nothing of the tenant's window changes.                                 *)
LEMMA WindowSame ==
  ASSUME NEW t \in Tenants, WindowInv(t), Pending(t)' = Pending(t), count'[t] = count[t],
         ttl'[t] = ttl[t], allowance'[t] = allowance[t],
         \A c \in Conns : Expiring(c, t)' => Expiring(c, t)
  PROVE  WindowInv(t)'
  <1>1. Left(t)' = Left(t)
    BY DEF Left
  <1> QED BY <1>1 DEF WindowInv

(* Neither a pending request nor an expiry of t comes or goes with c.      *)
LEMMA PendingSame ==
  ASSUME RequestType, NEW c \in Conns, RequestOf(c), NEW t,
         (c \in Pending(t))' <=> c \in Pending(t)
  PROVE  Pending(t)' = Pending(t)
  <1>1. \A e \in Conns \ {c} : (e \in Pending(t))' <=> e \in Pending(t)
    BY OtherRequests DEF Pending
  <1> QED BY <1>1 DEF Pending

LEMMA ExpiringSame ==
  ASSUME RequestType, NEW c \in Conns, RequestOf(c), NEW t, NEW e \in Conns, e # c
  PROVE  Expiring(e, t)' <=> Expiring(e, t)
  BY OtherRequests DEF Expiring

(* INCR as arithmetic: one more, up to the cap.                            *)
LEMMA IncrCount ==
  ASSUME RequestType, LimiterType, NEW c \in Conns, Incr(c)
  PROVE  LET t == ctx[c]
             n == count'[t]
         IN  /\ at[c] = "incr" /\ t \in Tenants
             /\ n = (IF count[t] <= Limit THEN count[t] + 1 ELSE Limit + 1)
             /\ n \in 0 .. Limit + 1 /\ n > 0
             /\ count' = [count EXCEPT ![t] = n]
             /\ n > Limit => Free(c)
             /\ n <= Limit => /\ counted' = [counted EXCEPT ![c] = TRUE] /\ ctx' = ctx
                              /\ at' = [at EXCEPT ![c] = IF n = 1 THEN "expire" ELSE "handler"]
             /\ UNCHANGED <<ttl, unexpiring, allowance>>
  <1> DEFINE t == ctx[c]
             m == Min({count[t] + 1, Limit + 1})
  <1>1. at[c] = "incr" /\ t \in Tenants
    BY ServedTenant DEF Incr
  <1>2. count[t] \in Nat /\ count[t] <= Limit + 1 /\ Limit \in Nat \ {0}
    BY <1>1, CountTypes
  <1>3. m = IF count[t] <= Limit THEN count[t] + 1 ELSE Limit + 1
    <2>1. count[t] + 1 \in Int /\ Limit + 1 \in Int
      BY <1>2
    <2>2. m = IF count[t] + 1 <= Limit + 1 THEN count[t] + 1 ELSE Limit + 1
      BY <2>1, MinOfTwo
    <2> QED BY <1>2, <2>2
  <1>4. /\ count' = [count EXCEPT ![t] = m] /\ UNCHANGED <<ttl, unexpiring, allowance>>
        /\ m > Limit => Free(c)
        /\ ~(m > Limit) => /\ counted' = [counted EXCEPT ![c] = TRUE] /\ ctx' = ctx
                           /\ at' = [at EXCEPT ![c] = IF m = 1 THEN "expire" ELSE "handler"]
    BY DEF Incr, Exceeded, First, Answer, Goto
  <1>5. count'[t] = m
    BY <1>1, <1>4 DEF LimiterType
  <1>6. m \in Nat /\ m \in 0 .. Limit + 1 /\ m > 0 /\ (m <= Limit => ~(m > Limit))
    BY <1>2, <1>3
  <1> HIDE DEF m
  <1> QED BY <1>1, <1>3, <1>4, <1>5, <1>6

(* The same of one whose answer is lost.                                   *)
LEMMA IncrLostCount ==
  ASSUME RequestType, LimiterType, NEW c \in Conns, IncrLost(c)
  PROVE  LET t == ctx[c]
             n == count'[t]
         IN  /\ t \in Tenants /\ n \in 0 .. Limit + 1 /\ n > 0 /\ n >= count[t]
             /\ count' = [count EXCEPT ![t] = n]
             /\ UNCHANGED <<at, ctx, counted, ttl, allowance>>
  <1> DEFINE t == ctx[c]
             m == Min({count[t] + 1, Limit + 1})
  <1>1. t \in Tenants
    BY ServedTenant DEF IncrLost
  <1>2. count[t] \in Nat /\ count[t] <= Limit + 1 /\ Limit \in Nat \ {0}
    BY <1>1, CountTypes
  <1>3. m = IF count[t] + 1 <= Limit + 1 THEN count[t] + 1 ELSE Limit + 1
    <2>1. count[t] + 1 \in Int /\ Limit + 1 \in Int
      BY <1>2
    <2> QED BY <2>1, MinOfTwo
  <1>4. count' = [count EXCEPT ![t] = m] /\ UNCHANGED <<at, ctx, counted, ttl, allowance>>
    BY DEF IncrLost, request
  <1>5. count'[t] = m
    BY <1>1, <1>4 DEF LimiterType
  <1>6. m \in 0 .. Limit + 1 /\ m > 0 /\ m >= count[t]
    BY <1>2, <1>3
  <1> HIDE DEF m
  <1> QED BY <1>1, <1>4, <1>5, <1>6

LEMMA IncrLostWindow ==
  ASSUME RequestType, LimiterType, NEW c \in Conns, IncrLost(c), NEW t \in Tenants, WindowInv(t)
  PROVE  WindowInv(t)'
  <1> DEFINE n == count'[ctx[c]]
  <1>1. /\ ctx[c] \in Tenants /\ n \in 0 .. Limit + 1 /\ n > 0 /\ n >= count[ctx[c]]
        /\ count' = [count EXCEPT ![ctx[c]] = n]
        /\ UNCHANGED <<at, ctx, counted, ttl, allowance>>
    BY IncrLostCount
  <1>2. Pending(t)' = Pending(t) /\ \A e \in Conns : Expiring(e, t)' <=> Expiring(e, t)
    BY <1>1 DEF Pending, Expiring
  <1>3. CASE t # ctx[c]
    <2>1. count'[t] = count[t]
      BY <1>1, <1>3 DEF LimiterType
    <2> QED BY <1>1, <1>2, <2>1, WindowSame
  <1>4. CASE t = ctx[c]
    <2>1. /\ count[t] \in Nat /\ count'[t] \in Nat /\ count'[t] > 0 /\ count'[t] >= count[t]
          /\ Limit \in Nat /\ allowance[t] \in Int /\ Cardinality(Pending(t)) \in Nat
      BY <1>1, <1>4, CountTypes, PendingFinite
    <2>2. Left(t)' <= Left(t) /\ Left(t) \in Nat /\ Left(t)' \in Nat
      BY <2>1 DEF Left
    <2>3. allowance'[t] >= Cardinality(Pending(t)') + Left(t)'
      <3>1. allowance[t] >= Cardinality(Pending(t)) + Left(t)
        BY DEF WindowInv
      <3> QED BY <1>1, <1>2, <2>1, <2>2, <3>1
    <2> QED BY <1>1, <1>2, <2>1, <2>3 DEF WindowInv
  <1> QED BY <1>3, <1>4

LEMMA IncrWindow ==
  ASSUME RequestType, LimiterType, CountedInv, NEW c \in Conns, Incr(c),
         NEW t \in Tenants, WindowInv(t)
  PROVE  WindowInv(t)'
  <1> DEFINE n == count'[ctx[c]]
  <1>1. /\ at[c] = "incr" /\ ctx[c] \in Tenants
        /\ count' = [count EXCEPT ![ctx[c]] = n] /\ UNCHANGED <<ttl, allowance>>
        /\ n > 0 /\ n \in 0 .. Limit + 1
        /\ n = (IF count[ctx[c]] <= Limit THEN count[ctx[c]] + 1 ELSE Limit + 1)
    BY IncrCount
  <1>2. RequestOf(c)
    BY DEF RequestOf
  <1>3. c \notin Pending(t) /\ ~Expiring(c, t)
    BY <1>1 DEF Pending, Expiring
  <1>4. CASE t # ctx[c]
    <2>1. ctx'[c] # t
      <3>1. Free(c) => ctx'[c] = NoTenant
        BY DEF Free, RequestType
      <3>2. NoTenant # t
        BY APIAssumption
      <3> QED BY <1>4, <3>1, <3>2 DEF Incr, Answer
    <2>2. Pending(t)' = Pending(t)
      <3>1. ~(c \in Pending(t))'
        BY <2>1 DEF Pending
      <3> QED BY <1>2, <1>3, <3>1, PendingSame
    <2>3. \A e \in Conns : Expiring(e, t)' => Expiring(e, t)
      BY <1>2, <2>1, ExpiringSame DEF Expiring
    <2>4. count'[t] = count[t]
      BY <1>1, <1>4 DEF LimiterType
    <2> QED BY <1>1, <2>2, <2>3, <2>4, WindowSame
  <1>5. CASE t = ctx[c]
    <2>1. count[t] \in Nat /\ Limit \in Nat \ {0} /\ count'[t] = n /\ n \in Nat
      BY <1>1, <1>5, CountTypes
    <2>2. allowance[t] \in Int /\ Cardinality(Pending(t)) \in Nat /\ IsFiniteSet(Pending(t))
      BY CountTypes, PendingFinite
    <2>3. CASE n > Limit
      <3>1. Free(c)
        BY <2>3, IncrCount
      <3>2. at'[c] = "idle" /\ ~(c \in Pending(t))' /\ ~Expiring(c, t)'
        BY <3>1 DEF Free, RequestType, Pending, Expiring
      <3>3. Pending(t)' = Pending(t)
        BY <1>2, <1>3, <3>2, PendingSame
      <3>4. Left(t)' = 0 /\ Left(t) = 0
        BY <1>1, <1>5, <2>1, <2>3 DEF Left
      <3>5. \A e \in Conns : Expiring(e, t)' => Expiring(e, t)
        BY <1>2, <3>2, ExpiringSame
      <3> QED BY <1>1, <2>1, <3>3, <3>4, <3>5 DEF WindowInv
    <2>4. CASE n <= Limit
      <3>1. /\ counted'[c] /\ ctx'[c] = t
            /\ at'[c] = IF n = 1 THEN "expire" ELSE "handler"
        BY <1>5, <2>4, IncrCount DEF RequestType
      <3>2. Pending(t)' = Pending(t) \cup {c}
        <4>1. \A e \in Conns \ {c} : (e \in Pending(t))' <=> e \in Pending(t)
          BY <1>2, OtherRequests DEF Pending
        <4> QED BY <3>1, <4>1 DEF Pending
      <3>3. Cardinality(Pending(t)') = Cardinality(Pending(t)) + 1
        BY <1>3, <2>2, <3>2, FS_AddElement
      <3>4. n = count[t] + 1 /\ Left(t) = Limit - count[t] /\ Left(t)' = Limit - n
        BY <1>1, <1>5, <2>1, <2>4 DEF Left
      <3>5. allowance'[t] >= Cardinality(Pending(t)') + Left(t)'
        BY <1>1, <2>1, <2>2, <3>3, <3>4 DEF WindowInv
      <3>6. CASE n = 1
        <4>1. count[t] = 0 /\ ~ttl[t] /\ \A e \in Conns : ~Expiring(e, t)
          BY <2>1, <3>4, <3>6 DEF WindowInv
        <4>2. \A e \in Conns : Expiring(e, t)' => e = c
          BY <1>2, <4>1, ExpiringSame
        <4> QED BY <1>1, <2>1, <3>5, <4>1, <4>2 DEF WindowInv
      <3>7. CASE n # 1
        <4>1. \A e \in Conns : Expiring(e, t)' => Expiring(e, t)
          BY <1>2, <3>1, <3>7, ExpiringSame DEF Expiring
        <4> QED BY <1>1, <2>1, <3>5, <4>1 DEF WindowInv
      <3> QED BY <3>6, <3>7
    <2> QED BY <2>1, <2>3, <2>4
  <1> QED BY <1>4, <1>5

LEMMA ExpireWindow ==
  ASSUME RequestType, LimiterType, NEW c \in Conns, Expire(c), NEW t \in Tenants, WindowInv(t)
  PROVE  WindowInv(t)'
  <1>1. /\ at[c] = "expire" /\ at'[c] = "handler" /\ ctx' = ctx /\ counted' = counted
        /\ UNCHANGED <<count, allowance>> /\ ctx[c] \in Tenants
        /\ ttl' = ttl \/ ttl' = [ttl EXCEPT ![ctx[c]] = TRUE]
    BY ServedTenant DEF Expire, Goto, RequestType
  <1>2. RequestOf(c)
    BY DEF RequestOf
  <1>3. Pending(t)' = Pending(t) /\ Left(t)' = Left(t)
    <2>1. (c \in Pending(t))' <=> c \in Pending(t)
      BY <1>1 DEF Pending
    <2> QED BY <1>1, <1>2, <2>1, PendingSame DEF Left
  <1>4. \A e \in Conns : Expiring(e, t)' => Expiring(e, t) /\ e # c
    BY <1>1, <1>2, ExpiringSame DEF Expiring
  <1>5. CASE ctx[c] # t
    <2>1. ttl'[t] = ttl[t]
      BY <1>1, <1>5 DEF LimiterType
    <2> QED BY <1>1, <1>3, <1>4, <2>1, WindowSame
  <1>6. CASE ctx[c] = t
    <2>1. count[t] > 0 /\ \A e \in Conns : ~Expiring(e, t)'
      BY <1>1, <1>4, <1>6 DEF WindowInv, Expiring
    <2> QED BY <1>1, <1>3, <2>1 DEF WindowInv
  <1> QED BY <1>5, <1>6

LEMMA EndsWindow ==
  ASSUME RequestType, LimiterType, NEW u \in Tenants, WindowEnds(u),
         NEW t \in Tenants, WindowInv(t)
  PROVE  WindowInv(t)'
  <1>1. /\ ttl[u] /\ count' = [count EXCEPT ![u] = 0] /\ ttl' = [ttl EXCEPT ![u] = FALSE]
        /\ UNCHANGED <<at, ctx, counted>>
    BY DEF WindowEnds, request
  <1>2. Pending(t)' = Pending(t) /\ \A c \in Conns : Expiring(c, t)' <=> Expiring(c, t)
    BY <1>1 DEF Pending, Expiring
  <1>3. CASE t # u
    <2>1. count'[t] = count[t] /\ ttl'[t] = ttl[t]
      BY <1>1, <1>3 DEF LimiterType
    <2>2. allowance'[t] = allowance[t]
      BY <1>3 DEF WindowEnds, LimiterType
    <2> QED BY <1>2, <2>1, <2>2, WindowSame
  <1>4. CASE t = u
    <2>1. \A c \in Conns : ~Expiring(c, t)
      BY <1>1, <1>4 DEF WindowInv
    <2>2. Pending(t) = {c \in Conns : ctx[c] = u /\ counted[c] /\ at[c] = "handler"}
      BY <1>4, <2>1 DEF Pending, Expiring
    <2>3. allowance'[t] = Limit + Cardinality(Pending(t))
      BY <1>4, <2>2 DEF WindowEnds, LimiterType
    <2>4. count'[t] = 0 /\ ~ttl'[t]
      BY <1>1, <1>4 DEF LimiterType
    <2>5. Left(t)' = Limit
      BY <2>4, APIAssumption DEF Left
    <2>6. allowance'[t] >= Cardinality(Pending(t)') + Left(t)'
      BY <1>2, <2>3, <2>5, PendingFinite, APIAssumption
    <2> QED BY <1>2, <2>1, <2>4, <2>6 DEF WindowInv
  <1> QED BY <1>3, <1>4

LEMMA HandleWindow ==
  ASSUME RequestType, LimiterType, NEW c \in Conns, Shape(c), NEW t \in Tenants, WindowInv(t)
  PROVE  WindowInv(t)'
  <1>1. RequestOf(c) /\ ctx[c] \in Tenants /\ at[c] \in {"handler", "online", "user"}
    BY ShapeServed DEF RequestOf
  <1>2. at'[c] \in {"idle", "online", "user"} /\ ~(c \in Pending(t))'
    BY ShapeTo DEF Pending
  <1>3. \A e \in Conns : Expiring(e, t)' => Expiring(e, t)
    BY <1>1, <1>2, ExpiringSame DEF Expiring
  <1>4. UNCHANGED <<count, ttl>>
    BY DEF Shape, Begins, Handle, Continues, limiter
  <1>5. CASE c \notin Pending(t)
    <2>1. Pending(t)' = Pending(t)
      BY <1>1, <1>2, <1>5, PendingSame
    <2>2. allowance'[t] = allowance[t]
      BY <1>1, <1>5 DEF Shape, Begins, Handle, Continues, Pending, LimiterType
    <2> QED BY <1>3, <1>4, <2>1, <2>2, WindowSame
  <1>6. CASE c \in Pending(t)
    <2>1. at[c] = "handler" /\ ctx[c] = t /\ counted[c]
      BY <1>1, <1>6 DEF Pending
    <2>2. allowance' = [allowance EXCEPT ![t] = @ - 1]
      BY <2>1 DEF Shape, Begins, Handle, Continues
    <2>3. allowance'[t] = allowance[t] - 1
      BY <2>2 DEF LimiterType
    <2>4. Pending(t)' = Pending(t) \ {c}
      <3>1. \A e \in Conns \ {c} : (e \in Pending(t))' <=> e \in Pending(t)
        BY <1>1, OtherRequests DEF Pending
      <3> QED BY <1>2, <3>1 DEF Pending
    <2>5. Cardinality(Pending(t)') = Cardinality(Pending(t)) - 1
      BY <1>6, <2>4, PendingFinite, FS_RemoveElement
    <2>6. Left(t)' = Left(t) /\ Left(t) \in Nat /\ allowance[t] \in Int
      BY <1>4, CountTypes DEF Left
    <2>7. Cardinality(Pending(t)) \in Nat
      BY PendingFinite
    <2>8. allowance'[t] >= Cardinality(Pending(t)') + Left(t)'
      BY <2>3, <2>5, <2>6, <2>7 DEF WindowInv
    <2> QED BY <1>3, <1>4, <2>8 DEF WindowInv
  <1> QED BY <1>5, <1>6

LEMMA LimitStep ==
  ASSUME RequestType, FoundOwn, LimiterType, CountedInv, LimitInv, Next
  PROVE  LimitInv'
  <1> SUFFICES ASSUME NEW t \in Tenants PROVE WindowInv(t)'
    BY DEF LimitInv
  <1>1. WindowInv(t)
    BY DEF LimitInv
  <1>2. ASSUME NEW c \in Conns, Unauthorized(c) \/ Middleware(c) \/ IncrFails(c)
        PROVE  WindowInv(t)'
    <2>1. /\ at[c] \in {"idle", "incr"} /\ ~counted[c] /\ ~counted'[c]
          /\ at'[c] \in {"idle", "incr", "handler"} /\ UNCHANGED <<count, ttl, allowance>>
      BY <1>2 DEF Unauthorized, Middleware, IncrFails, Answer, Free, Goto, CountedInv,
           RequestType, limiter
    <2>2. Pending(t)' = Pending(t)
      BY <1>2, <2>1, PendingSame DEF Pending, RequestOf
    <2>3. \A e \in Conns : Expiring(e, t)' => Expiring(e, t)
      BY <1>2, <2>1, ExpiringSame DEF Expiring, RequestOf
    <2> QED BY <1>1, <2>1, <2>2, <2>3, WindowSame
  <1>3. ASSUME Sent PROVE WindowInv(t)'
    <2>1. UNCHANGED <<at, ctx, counted, count, ttl, allowance>>
      BY <1>3 DEF Sent, request, limiter
    <2> QED BY <1>1, <2>1, WindowSame DEF Pending, Expiring
  <1> QED BY <1>1, <1>2, <1>3, IncrWindow, IncrLostWindow, ExpireWindow, EndsWindow, HandleWindow, NextCases

LEMMA LimiterStep ==
  ASSUME RequestType, FoundOwn, LimiterType, LimitInv, Next
  PROVE  LimiterType'
  <1> DEFINE Room == -1 .. Limit + Cardinality(Conns)
  <1>1. LimiterType /\ Limit \in Nat \ {0} /\ Cardinality(Conns) \in Nat
    BY APIAssumption, FiniteAssumption, FS_CardinalityType
  <1>2. CASE UNCHANGED <<limiter, allowance>>
    BY <1>2 DEF limiter, LimiterType
  <1>3. ASSUME NEW c \in Conns, Incr(c) PROVE LimiterType'
    <2>1. count' \in [Tenants -> 0 .. Limit + 1]
      BY <1>3, IncrCount DEF LimiterType
    <2> QED BY <1>3, <2>1 DEF Incr, LimiterType
  <1>4. ASSUME NEW c \in Conns, Expire(c) PROVE LimiterType'
    <2>1. ctx[c] \in Tenants /\ UNCHANGED <<count, allowance>>
      BY <1>4, ServedTenant DEF Expire
    <2>2. ttl' \in [Tenants -> BOOLEAN]
      BY <1>4 DEF Expire, LimiterType
    <2>3. unexpiring' \subseteq Tenants
      BY <1>4, <2>1 DEF Expire, LimiterType
    <2> QED BY <2>1, <2>2, <2>3 DEF LimiterType
  <1>5. ASSUME NEW t \in Tenants, WindowEnds(t) PROVE LimiterType'
    <2> DEFINE S == {c \in Conns : ctx[c] = t /\ counted[c] /\ at[c] = "handler"}
    <2>1. Cardinality(S) \in Nat /\ Cardinality(S) <= Cardinality(Conns)
      BY FiniteAssumption, FS_Subset, FS_CardinalityType
    <2>2. /\ count' = [count EXCEPT ![t] = 0] /\ UNCHANGED unexpiring
          /\ allowance' = [allowance EXCEPT ![t] = Limit + Cardinality(S)]
      BY <1>5 DEF WindowEnds
    <2>3. ttl' \in [Tenants -> BOOLEAN]
      BY <1>5 DEF WindowEnds, LimiterType
    <2> HIDE DEF S
    <2>4. Limit + Cardinality(S) \in Room
      BY <1>1, <2>1
    <2> HIDE DEF Room
    <2>5. allowance' \in [Tenants -> Room]
      BY <2>2, <2>4 DEF LimiterType, Room
    <2>6. count' \in [Tenants -> 0 .. Limit + 1]
      BY <1>1, <2>2 DEF LimiterType
    <2> QED BY <2>2, <2>3, <2>5, <2>6 DEF LimiterType, Room
  <1>6. ASSUME NEW c \in Conns, Shape(c) PROVE LimiterType'
    <2>1. UNCHANGED limiter /\ ctx[c] \in Tenants
      BY <1>6, ShapeServed DEF Shape, Begins, Handle, Continues
    <2>2. allowance' = allowance \/ allowance' = [allowance EXCEPT ![ctx[c]] = @ - 1]
      BY <1>6 DEF Shape, Begins, Handle, Continues
    <2>3. allowance[ctx[c]] - 1 \in Room
      <3>1. PICK t \in Tenants : t = ctx[c]
        BY <2>1
      <3>2. /\ allowance[t] \in Int /\ allowance[t] <= Limit + Cardinality(Conns)
            /\ Left(t) \in Nat
        BY <3>1, CountTypes
      <3>3. allowance[t] >= Cardinality(Pending(t)) + Left(t) /\ Cardinality(Pending(t)) \in Nat
        BY <3>1, PendingFinite DEF LimitInv, WindowInv
      <3> QED BY <1>1, <3>1, <3>2, <3>3
    <2> HIDE DEF Room
    <2>4. allowance' \in [Tenants -> Room]
      BY <2>2, <2>3 DEF LimiterType, Room
    <2> QED BY <2>1, <2>4 DEF limiter, LimiterType, Room
  <1>7. ASSUME NEW c \in Conns, Unauthorized(c) \/ Middleware(c) \/ IncrFails(c)
        PROVE  UNCHANGED <<limiter, allowance>>
    BY <1>7 DEF Unauthorized, Middleware, IncrFails
  <1>8. ASSUME Sent PROVE UNCHANGED <<limiter, allowance>>
    BY <1>8 DEF Sent
  <1>9. ASSUME NEW c \in Conns, IncrLost(c) PROVE LimiterType'
    <2>1. count' \in [Tenants -> 0 .. Limit + 1] /\ ctx[c] \in Tenants
      BY <1>9, IncrLostCount DEF LimiterType
    <2>2. unexpiring' \subseteq Tenants
      BY <1>9, <2>1 DEF IncrLost, LimiterType
    <2> QED BY <1>9, <2>1, <2>2 DEF IncrLost, LimiterType
  <1> QED BY <1>2, <1>3, <1>4, <1>5, <1>6, <1>7, <1>8, <1>9, NextCases

-----------------------------------------------------------------------------
(* The invariants together.                                                *)

APIInv ==
  /\ RequestType /\ FoundOwn /\ LimiterType
  /\ TablesInv /\ CountedInv /\ LimitInv

LEMMA APIInit ==
  ASSUME Init
  PROVE  APIInv
  <1>1. RequestType /\ FoundOwn /\ CountedInv
    BY APIAssumption DEF Init, RequestType, FoundOwn, Own, CountedInv
  <1>2. LimiterType
    BY APIAssumption, FiniteAssumption, FS_CardinalityType DEF Init, LimiterType
  <1>3. TablesInv
    BY APIAssumption, FiniteAssumption, UniqueAssumption DEF Init, TablesInv, TablesType
  <1>4. LimitInv
    <2> SUFFICES ASSUME NEW t \in Tenants PROVE WindowInv(t)
      BY DEF LimitInv
    <2>1. Pending(t) = {}
      BY DEF Init, Pending
    <2>2. Cardinality(Pending(t)) = 0
      BY <2>1, FS_EmptySet
    <2>3. count[t] = 0 /\ allowance[t] = Limit /\ ~ttl[t] /\ \A c \in Conns : ~Expiring(c, t)
      BY DEF Init, Expiring
    <2>4. Left(t) = Limit
      BY <2>3, APIAssumption DEF Left
    <2> QED BY <2>2, <2>3, <2>4, APIAssumption DEF WindowInv
  <1> QED BY <1>1, <1>2, <1>3, <1>4 DEF APIInv

LEMMA APIStep ==
  ASSUME APIInv, [Next]_vars
  PROVE  APIInv'
  <1>1. CASE Next
    <2>1. TablesType
      BY DEF APIInv, TablesInv
    <2> QED BY <1>1, <2>1, RequestStep, LimiterStep, TablesStep, CountedStep, LimitStep DEF APIInv
  <1>2. CASE UNCHANGED vars
    <2>1. UNCHANGED <<at, ctx, found, counted, count, ttl, unexpiring, allowance, rows, writes>>
      BY <1>2 DEF vars, request, limiter, tables
    <2>2. RequestType' /\ FoundOwn' /\ CountedInv'
      BY <2>1 DEF APIInv, RequestType, FoundOwn, Own, CountedInv
    <2>3. LimiterType' /\ TablesInv'
      BY <2>1 DEF APIInv, LimiterType, TablesInv, TablesType
    <2>4. LimitInv'
      <3> SUFFICES ASSUME NEW t \in Tenants PROVE WindowInv(t)'
        BY DEF LimitInv
      <3> QED BY <2>1, WindowSame DEF APIInv, LimitInv, Pending, Expiring
    <2> QED BY <2>2, <2>3, <2>4 DEF APIInv
  <1> QED BY <1>1, <1>2

(* The invariants hold in every reachable state.                           *)
THEOREM APIInvariant == Spec => []APIInv
  BY APIInit, APIStep, PTL DEF Spec

(* Type correctness: the allowance of a tenant stays in its range although *)
(* handlers only take from it, and a context has a tenant exactly while    *)
(* its request is being served.                                            *)
THEOREM TypesKept == Spec => []TypeOK
  <1>1. APIInv => TypeOK
    BY DEF APIInv, TypeOK, TablesInv
  <1> QED BY <1>1, APIInvariant, PTL

(* RateLimit lets no more than Limit counted requests of a tenant through  *)
(* in a window, for any limit and however many requests interleave between *)
(* its INCR, its EXPIRE and the handlers.                                  *)
THEOREM LimitKept == Spec => []WithinLimit
  <1>1. ASSUME APIInv PROVE WithinLimit
    <2> SUFFICES ASSUME NEW t \in Tenants PROVE allowance[t] >= 0
      BY DEF WithinLimit
    <2>1. allowance[t] \in Int /\ Left(t) \in Nat /\ Cardinality(Pending(t)) \in Nat
      BY <1>1, CountTypes, PendingFinite DEF APIInv
    <2> QED BY <1>1, <2>1 DEF APIInv, LimitInv, WindowInv
  <1> QED BY <1>1, APIInvariant, PTL

-----------------------------------------------------------------------------
(* Tenants are kept apart.                                                 *)

OwnResponse == resp # NoResponse => \A r \in resp.items : r.tenant = resp.tenant

LEMMA OwnResponseStep ==
  ASSUME FoundOwn, OwnResponse, [Next]_vars
  PROVE  OwnResponse'
  <1>1. CASE resp' = resp
    BY <1>1 DEF OwnResponse
  <1>2. CASE resp' = NoResponse
    BY <1>2 DEF OwnResponse
  <1>3. ASSUME NEW c, NEW status, Answer(c, status, {}) PROVE OwnResponse'
    BY <1>3 DEF Answer, OwnResponse
  <1>4. ASSUME NEW c \in Conns, Shape(c) PROVE OwnResponse'
    <2>1. CASE Looks(c)
      BY <1>1, <2>1 DEF Looks
    <2>2. CASE Replies(c)
      BY <2>2 DEF Replies, Own, OwnResponse
    <2> QED BY <1>4, <2>1, <2>2 DEF Shape
  <1>5. ASSUME NEW c \in Conns, Unauthorized(c) \/ Middleware(c) \/ Incr(c) \/ IncrLost(c) \/ IncrFails(c) \/ Expire(c)
        PROVE  resp' = resp \/ \E status : Answer(c, status, {})
    BY <1>5 DEF Unauthorized, Middleware, Incr, IncrLost, IncrFails, Expire, Goto
  <1>6. ASSUME NEW t \in Tenants, WindowEnds(t) PROVE resp' = resp
    BY <1>6 DEF WindowEnds
  <1>7. ASSUME Sent PROVE resp' = NoResponse
    BY <1>7 DEF Sent
  <1>8. ASSUME UNCHANGED vars PROVE resp' = resp
    BY <1>8 DEF vars
  <1> QED BY <1>1, <1>2, <1>3, <1>4, <1>5, <1>6, <1>7, <1>8, NextCases

(* Whatever requests are served at the same time, a response and the rows  *)
(* a handler keeps for its second statement are of the caller's tenant:    *)
(* every WHERE clause names the tenant of the context, and no step gives a *)
(* context that holds rows to another tenant.                              *)
THEOREM TenantsAreIsolated == Spec => []TenantIsolated
  <1>1. Init => OwnResponse
    BY DEF Init, OwnResponse
  <1>2. APIInv => FoundOwn
    BY DEF APIInv
  <1>3. Spec => []OwnResponse
    BY <1>1, <1>2, OwnResponseStep, APIInvariant, PTL DEF Spec
  <1>4. FoundOwn /\ OwnResponse => TenantIsolated
    BY DEF FoundOwn, Own, OwnResponse, TenantIsolated
  <1> QED BY <1>2, <1>3, <1>4, APIInvariant, PTL

(* Only a handler writes to the tables.                                    *)
LEMMA TablesCases ==
  ASSUME FoundOwn, [Next]_vars
  PROVE  rows' = rows \/ \E c \in Conns : Shape(c) /\ Replies(c) /\ Writes(c)
  <1>1. ASSUME NEW c \in Conns,
               Unauthorized(c) \/ Middleware(c) \/ Incr(c) \/ IncrLost(c) \/ IncrFails(c) \/ Expire(c)
        PROVE  rows' = rows
    BY <1>1 DEF Unauthorized, Middleware, Incr, IncrLost, IncrFails, Expire, tables
  <1>2. ASSUME Sent \/ \E t \in Tenants : WindowEnds(t) PROVE rows' = rows
    BY <1>2 DEF Sent, WindowEnds, tables
  <1>3. ASSUME UNCHANGED vars PROVE rows' = rows
    BY <1>3 DEF vars, tables
  <1>4. ASSUME NEW c \in Conns, Shape(c) PROVE rows' = rows \/ (Replies(c) /\ Writes(c))
    BY <1>4 DEF Shape, Looks, tables
  <1> QED BY <1>1, <1>2, <1>3, <1>4, NextCases

LEMMA OwnWrites ==
  ASSUME RequestType, FoundOwn, TablesInv, [Next]_vars,
         NEW r \in (rows \ rows') \cup (rows' \ rows)
  PROVE  r.tenant = resp'.tenant
  <1>1. PICK c \in Conns : Shape(c) /\ Replies(c) /\ Writes(c)
    BY TablesCases
  <1>2. resp'.tenant = ctx[c] /\ ctx[c] \in Tenants
    BY <1>1, ShapeServed DEF Replies
  <1>3. rows \subseteq RowType
    BY DEF TablesInv, TablesType
  <1>4. ASSUME Inserts(c) PROVE r.tenant = ctx[c]
    <2>1. PICK table \in Tables, key \in Keys : Changed({}, {NewRow(table, key, ctx[c])})
      BY <1>4 DEF Inserts
    <2>2. r = NewRow(table, key, ctx[c])
      BY <2>1 DEF Changed
    <2> QED BY <1>2, <2>2, NewRowType
  <1>5. ASSUME Updates(c) PROVE r.tenant = ctx[c]
    <2>1. PICK hit \in SUBSET rows :
            Own(c, hit) /\ Changed(hit, {[s EXCEPT !.version = 1] : s \in hit})
      BY <1>5, Zenon DEF Updates
    <2>2. \A s \in hit : [s EXCEPT !.version = 1].tenant = s.tenant
      BY <1>3 DEF RowType
    <2>3. r \in hit \cup {[s EXCEPT !.version = 1] : s \in hit}
      BY <2>1 DEF Changed
    <2> QED BY <2>1, <2>2, <2>3 DEF Own
  <1>6. ASSUME Deletes(c) PROVE r.tenant = ctx[c]
    <2>1. PICK hit \in SUBSET rows :
            Own(c, hit) /\ Changed(hit, {[s EXCEPT !.live = FALSE] : s \in hit})
      BY <1>6, Zenon DEF Deletes
    <2>2. \A s \in hit : [s EXCEPT !.live = FALSE].tenant = s.tenant
      BY <1>3 DEF RowType
    <2>3. r \in hit \cup {[s EXCEPT !.live = FALSE] : s \in hit}
      BY <2>1 DEF Changed
    <2> QED BY <2>1, <2>2, <2>3 DEF Own
  <1>7. rows' # rows
    OBVIOUS
  <1> QED BY <1>1, <1>2, <1>4, <1>5, <1>6, <1>7 DEF Writes, tables

(* No step inserts, updates or deletes a row of a tenant other than the    *)
(* one that the request's token names.                                     *)
THEOREM WritesStayInTenant == Spec => OnlyOwnRowsChange
  <1>1. ASSUME APIInv, [Next]_vars
        PROVE  \A r \in (rows \ rows') \cup (rows' \ rows) : r.tenant = resp'.tenant
    BY <1>1, OwnWrites DEF APIInv
  <1>2. APIInv /\ [Next]_vars =>
          [\A r \in (rows \ rows') \cup (rows' \ rows) : r.tenant = resp'.tenant]_vars
    BY <1>1
  <1> QED BY <1>2, APIInvariant, PTL DEF Spec, OnlyOwnRowsChange

LEMMA DeletedStays ==
  ASSUME RequestType, FoundOwn, TablesInv, [Next]_vars,
         NEW r \in rows, ~r.live, r.table \in Keyed, NEW s \in rows', SameKey(r, s)
  PROVE  ~s.live
  <1>1. ASSUME NEW q \in rows, SameKey(r, q) PROVE q = r
    BY <1>1 DEF TablesInv
  <1>2. CASE s \in rows
    BY <1>1, <1>2
  <1>3. CASE s \notin rows
    <2>1. PICK c \in Conns : Shape(c) /\ Writes(c)
      BY <1>3, TablesCases
    <2>2. ctx[c] \in Tenants /\ rows \subseteq RowType
      BY <2>1, ShapeServed DEF TablesInv, TablesType
    <2>3. ASSUME Inserts(c) PROVE FALSE
      <3>1. PICK table \in Tables, key \in Keys :
              ~Conflicts(table, key, ctx[c]) /\ Changed({}, {NewRow(table, key, ctx[c])})
        BY <2>3 DEF Inserts
      <3>2. s = NewRow(table, key, ctx[c])
        BY <1>3, <3>1 DEF Changed
      <3>3. s.table = table /\ s.key = key /\ s.tenant = ctx[c]
        BY <2>2, <3>2, NewRowType
      <3> QED BY <3>1, <3>3 DEF Conflicts, RowsWith, SameKey
    <2>4. ASSUME Updates(c) PROVE FALSE
      <3>1. PICK hit \in SUBSET rows :
              /\ \A q \in hit : q.table \in Keyed => q.live
              /\ Changed(hit, {[q EXCEPT !.version = 1] : q \in hit})
        BY <2>4, Zenon DEF Updates
      <3>2. PICK q \in hit : s = [q EXCEPT !.version = 1]
        BY <1>3, <3>1 DEF Changed
      <3>3. SameKey(r, q)
        BY <2>2, <3>2 DEF SameKey, RowType
      <3> QED BY <1>1, <3>1, <3>2, <3>3
    <2>5. ASSUME Deletes(c) PROVE ~s.live
      <3>1. PICK hit \in SUBSET rows : Changed(hit, {[q EXCEPT !.live = FALSE] : q \in hit})
        BY <2>5, Zenon DEF Deletes
      <3>2. PICK q \in hit : s = [q EXCEPT !.live = FALSE]
        BY <1>3, <3>1 DEF Changed
      <3> QED BY <2>2, <3>2 DEF RowType
    <2> QED BY <1>3, <2>1, <2>3, <2>4, <2>5 DEF Writes, tables
  <1> QED BY <1>2, <1>3

(* A soft-deleted device or vehicle is never brought back: the unique key  *)
(* counts deleted rows, so no INSERT takes the place of one, and the only  *)
(* UPDATE of a keyed table skips them.                                     *)
THEOREM DeletedForGood == Spec => DeletionIsFinal
  <1> DEFINE Final == \A r \in rows : ~r.live =>
                        \A s \in RowsWith(r.table, r.key, r.tenant)' :
                          r.table \in Keyed => ~s.live
  <1>1. ASSUME APIInv, [Next]_vars PROVE Final
    <2> SUFFICES ASSUME NEW r \in rows, ~r.live, NEW s \in RowsWith(r.table, r.key, r.tenant)',
                        r.table \in Keyed
                 PROVE  ~s.live
      OBVIOUS
    <2>1. s \in rows' /\ SameKey(r, s)
      BY DEF RowsWith, SameKey
    <2> QED BY <1>1, <2>1, DeletedStays DEF APIInv
  <1>2. APIInv /\ [Next]_vars => [Final]_vars
    BY <1>1
  <1> QED BY <1>2, APIInvariant, PTL DEF Spec, DeletionIsFinal

-----------------------------------------------------------------------------
(* The expiry of a counter.                                                *)

(* What is lost has not been replaced, and no EXPIRE is on its way.        *)
Lost(t) == count[t] > 0 /\ ~ttl[t] /\ \A c \in Conns : ~Expiring(c, t)

Expires(t) ==
  /\ count[t] > 0 /\ ~ttl[t] => t \in unexpiring \/ \E c \in Conns : Expiring(c, t)
  /\ t \in unexpiring => Lost(t)

LEMMA ExpiresStep ==
  ASSUME RequestType, FoundOwn, LimiterType, Next, NEW t \in Tenants, WindowInv(t), Expires(t)
  PROVE  Expires(t)'
  <1>1. CASE UNCHANGED <<at, ctx, count, ttl, unexpiring>>
    BY <1>1 DEF Expires, Lost, Expiring
  <1>2. ASSUME NEW c \in Conns, RequestOf(c), at[c] # "expire", at'[c] # "expire",
               UNCHANGED <<count, ttl, unexpiring>>
        PROVE  Expires(t)'
    <2>1. \A e \in Conns : Expiring(e, t)' <=> Expiring(e, t)
      BY <1>2, ExpiringSame DEF Expiring
    <2> QED BY <1>2, <2>1 DEF Expires, Lost
  <1>3. ASSUME NEW c \in Conns, Incr(c) PROVE Expires(t)'
    <2>1. /\ at[c] = "incr" /\ ctx[c] \in Tenants /\ UNCHANGED <<ttl, unexpiring>>
          /\ count' = [count EXCEPT ![ctx[c]] = count'[ctx[c]]]
      BY <1>3, IncrCount
    <2>2. ~Expiring(c, t)
      BY <2>1 DEF Expiring
    <2>3. \A e \in Conns \ {c} : Expiring(e, t)' <=> Expiring(e, t)
      BY <1>3, ExpiringSame DEF RequestOf
    <2>4. CASE t # ctx[c]
      <3>1. count'[t] = count[t]
        BY <2>1, <2>4 DEF LimiterType
      <3>2. ctx'[c] # t
        <4>1. Free(c) => ctx'[c] = NoTenant
          BY DEF Free, RequestType
        <4>2. NoTenant # t
          BY APIAssumption
        <4> QED BY <1>3, <2>4, <4>1, <4>2 DEF Incr, Answer
      <3>3. ~Expiring(c, t)'
        BY <3>2 DEF Expiring
      <3> QED BY <2>1, <2>2, <2>3, <3>1, <3>3 DEF Expires, Lost
    <2>5. CASE t = ctx[c] /\ count[t] > 0
      <3>1. /\ count[t] \in Nat /\ Limit \in Nat \ {0} /\ count'[t] > 0
            /\ count'[t] = IF count[t] <= Limit THEN count[t] + 1 ELSE Limit + 1
        BY <1>3, <2>5, CountTypes, IncrCount
      <3>2. count'[t] # 1 /\ count'[t] \in Nat
        BY <2>5, <3>1
      <3>3. at'[c] # "expire"
        <4>1. CASE count'[t] > Limit
          BY <1>3, <2>5, <4>1, IncrCount DEF Free, RequestType
        <4>2. CASE count'[t] <= Limit
          BY <1>3, <2>5, <3>2, <4>2, IncrCount DEF RequestType
        <4> QED BY <3>1, <3>2, <4>1, <4>2
      <3>4. ~Expiring(c, t)'
        BY <3>3 DEF Expiring
      <3> QED BY <2>1, <2>2, <2>3, <2>5, <3>1, <3>4 DEF Expires, Lost
    <2>6. CASE t = ctx[c] /\ ~(count[t] > 0)
      <3>1. count[t] = 0 /\ Limit \in Nat \ {0}
        BY <2>6, CountTypes
      <3>2. count'[ctx[c]] = 1
        BY <1>3, <2>6, <3>1, IncrCount
      <3>3. 1 <= Limit
        BY <3>1
      <3>4. ctx' = ctx /\ at' = [at EXCEPT ![c] = "expire"]
        BY <1>3, <3>2, <3>3, IncrCount
      <3>5. Expiring(c, t)'
        BY <2>6, <3>4 DEF Expiring, RequestType
      <3>6. t \notin unexpiring'
        BY <2>1, <2>6 DEF Expires, Lost
      <3> QED BY <3>5, <3>6 DEF Expires
    <2> QED BY <2>4, <2>5, <2>6
  <1>4. ASSUME NEW c \in Conns, Expire(c) PROVE Expires(t)'
    <2>1. /\ at[c] = "expire" /\ at'[c] = "handler"
          /\ ctx[c] \in Tenants /\ count' = count /\ ctx' = ctx
          /\ \/ ttl' = [ttl EXCEPT ![ctx[c]] = TRUE] /\ unexpiring' = unexpiring
             \/ unexpiring' = unexpiring \cup {ctx[c]} /\ ttl' = ttl
      BY <1>4, ServedTenant DEF Expire, Goto, RequestType
    <2>2. ~Expiring(c, t)' /\ \A e \in Conns \ {c} : Expiring(e, t)' <=> Expiring(e, t)
      BY <1>4, <2>1, ExpiringSame DEF RequestOf, Expiring
    <2>3. CASE t = ctx[c]
      <3>1. Expiring(c, t)
        BY <2>1, <2>3 DEF Expiring
      <3>2. count[t] > 0 /\ ~ttl[t] /\ \A e \in Conns : ~Expiring(e, t)'
        BY <2>2, <3>1 DEF WindowInv
      <3>3. t \notin unexpiring
        BY <3>1 DEF Expires, Lost
      <3>4. (t \in unexpiring' /\ ttl' = ttl) \/ (t \notin unexpiring' /\ ttl'[t])
        BY <2>1, <2>3, <3>3 DEF LimiterType
      <3> QED BY <2>1, <3>2, <3>4 DEF Expires, Lost
    <2>4. CASE t # ctx[c]
      <3>1. ttl'[t] = ttl[t] /\ (t \in unexpiring <=> t \in unexpiring')
        BY <2>1, <2>4 DEF LimiterType
      <3>2. ~Expiring(c, t)
        BY <2>4 DEF Expiring
      <3> QED BY <2>1, <2>2, <3>1, <3>2 DEF Expires, Lost
    <2> QED BY <2>3, <2>4
  <1>5. ASSUME NEW u \in Tenants, WindowEnds(u) PROVE Expires(t)'
    <2>1. /\ ttl[u] /\ count' = [count EXCEPT ![u] = 0] /\ ttl' = [ttl EXCEPT ![u] = FALSE]
          /\ UNCHANGED <<at, ctx, unexpiring>>
      BY <1>5 DEF WindowEnds, request
    <2>2. CASE t = u
      <3>1. t \notin unexpiring'
        BY <2>1, <2>2 DEF Expires, Lost
      <3>2. count'[t] = 0
        BY <2>1, <2>2 DEF LimiterType
      <3> QED BY <3>1, <3>2 DEF Expires
    <2>3. CASE t # u
      <3>1. count'[t] = count[t] /\ ttl'[t] = ttl[t]
        BY <2>1, <2>3 DEF LimiterType
      <3> QED BY <2>1, <3>1 DEF Expires, Lost, Expiring
    <2> QED BY <2>2, <2>3
  <1>6. ASSUME NEW c \in Conns, Unauthorized(c) \/ Middleware(c) \/ IncrFails(c)
        PROVE  Expires(t)'
    <2>1. /\ RequestOf(c) /\ at[c] # "expire" /\ UNCHANGED <<count, ttl, unexpiring>>
          /\ at'[c] # "expire"
      BY <1>6 DEF Unauthorized, Middleware, IncrFails, RequestOf, limiter, Answer, Free, Goto,
                  RequestType
    <2> QED BY <1>2, <2>1
  <1>7. ASSUME NEW c \in Conns, Shape(c) PROVE Expires(t)'
    <2>1. RequestOf(c) /\ at[c] # "expire" /\ UNCHANGED <<count, ttl, unexpiring>>
      BY <1>7, ShapeServed DEF Shape, Begins, Handle, Continues, RequestOf, limiter
    <2>2. at'[c] # "expire"
      BY <1>7, ShapeTo
    <2> QED BY <1>2, <2>1, <2>2
  <1>8. ASSUME Sent PROVE UNCHANGED <<at, ctx, count, ttl, unexpiring>>
    BY <1>8 DEF Sent, request, limiter
  <1>9. ASSUME NEW c \in Conns, IncrLost(c) PROVE Expires(t)'
    <2>1. /\ ctx[c] \in Tenants /\ count'[ctx[c]] > 0
          /\ count' = [count EXCEPT ![ctx[c]] = count'[ctx[c]]]
          /\ UNCHANGED <<at, ctx, ttl>>
      BY <1>9, IncrLostCount
    <2>2. unexpiring' = IF count[ctx[c]] = 0 THEN unexpiring \cup {ctx[c]} ELSE unexpiring
      BY <1>9 DEF IncrLost
    <2>3. \A e \in Conns : Expiring(e, t)' <=> Expiring(e, t)
      BY <2>1 DEF Expiring
    <2>4. CASE t # ctx[c]
      <3>1. count'[t] = count[t] /\ (t \in unexpiring' <=> t \in unexpiring)
        BY <2>1, <2>2, <2>4 DEF LimiterType
      <3> QED BY <2>1, <2>3, <3>1 DEF Expires, Lost
    <2>5. CASE t = ctx[c] /\ count[t] = 0
      <3>1. ~ttl[t] /\ \A e \in Conns : ~Expiring(e, t)
        BY <2>5 DEF WindowInv
      <3>2. t \in unexpiring'
        BY <2>2, <2>5
      <3> QED BY <2>1, <2>3, <2>5, <3>1, <3>2 DEF Expires, Lost
    <2>6. CASE t = ctx[c] /\ count[t] # 0
      <3>1. count[t] > 0 /\ unexpiring' = unexpiring
        BY <2>2, <2>6, CountTypes
      <3> QED BY <2>1, <2>3, <2>6, <3>1 DEF Expires, Lost
    <2> QED BY <2>4, <2>5, <2>6
  <1> QED BY <1>1, <1>3, <1>4, <1>5, <1>6, <1>7, <1>8, <1>9, NextCases

AllExpire == \A t \in Tenants : Expires(t)

(* A counter has no expiry, and locks its tenant out for good, exactly     *)
(* when an EXPIRE, or the answer to the INCR that created the key, was     *)
(* lost, or while the request that counted to one is still about to set    *)
(* it.  For any limit and any number of requests, no interleaving of INCR, *)
(* EXPIRE and the window's end is another cause, and none is a cure.       *)
THEOREM CountersExpire == Spec => []CounterExpires
  <1>1. ASSUME Init PROVE AllExpire
    BY <1>1 DEF Init, AllExpire, Expires
  <1>2. ASSUME APIInv, AllExpire, [Next]_vars PROVE AllExpire'
    <2> SUFFICES ASSUME NEW t \in Tenants PROVE Expires(t)'
      BY DEF AllExpire
    <2>1. Expires(t)
      BY <1>2 DEF AllExpire
    <2>2. CASE Next
      BY <1>2, <2>1, <2>2, ExpiresStep DEF APIInv, LimitInv
    <2>3. CASE UNCHANGED vars
      BY <2>1, <2>3 DEF vars, request, limiter, Expires, Lost, Expiring
    <2> QED BY <1>2, <2>2, <2>3
  <1>3. ASSUME APIInv, AllExpire PROVE CounterExpires
    <2> SUFFICES ASSUME NEW t \in Tenants
                 PROVE  (count[t] > 0 /\ ~ttl[t])
                          <=> (t \in unexpiring \/ \E c \in Conns : Expiring(c, t))
      BY DEF CounterExpires, Expiring
    <2>1. Expires(t) /\ WindowInv(t)
      BY <1>3 DEF AllExpire, APIInv, LimitInv
    <2> QED BY <2>1 DEF Expires, Lost, WindowInv
  <1>4. Spec => []AllExpire
    BY <1>1, <1>2, APIInvariant, PTL DEF Spec
  <1> QED BY <1>3, <1>4, APIInvariant, PTL

-----------------------------------------------------------------------------
(* What a 201 promises.                                                    *)

(* A device was inserted and its id is in the response.                    *)
Registers(c) ==
  \E key \in Keys :
    LET row == NewRow("devices", key, T(c))
    IN  Changed({}, {row}) /\ Created(c, "devices", row.id)

Responds(c) ==
  \/ resp' = resp
  \/ \E status, items : Answer(c, status, items)
  \/ \E table, id : table # "devices" /\ Created(c, table, id)
  \/ Registers(c)

LEMMA HandlerResponds ==
  ASSUME NEW c \in Conns, Handler(c)
  PROVE  Responds(c)
  <1>1. ASSUME NEW status, NEW items, Read(c, status, items) PROVE Responds(c)
    BY <1>1 DEF Read, Responds
  <1>2. ASSUME NEW old, NEW new, NEW good, NEW bad, Write(c, old, new, good, bad)
        PROVE  Responds(c)
    BY <1>2 DEF Write, Responds
  <1>3. ASSUME NEW place, Goto(c, place) PROVE Responds(c)
    BY <1>3 DEF Goto, Responds
  <1>4. CASE ListDevices(c) \/ GetDevice(c) \/ Overview(c)
    BY <1>1, <1>3, <1>4 DEF ListDevices, GetDevice, Overview
  <1>5. CASE Online(c) \/ OverviewUser(c) \/ Live(c) \/ History(c) \/ DeviceTrips(c)
    BY <1>1, <1>5 DEF Online, OverviewUser, Live, History, DeviceTrips
  <1>6. CASE Telemetry(c) \/ Score(c)
    BY <1>1, <1>6, Zenon DEF Telemetry, Score
  <1>7. CASE ListVehicles(c) \/ ListGeofences(c) \/ ListDrivers(c) \/ ListAlerts(c)
              \/ ReportTrips(c) \/ GetVehicle(c) \/ Users(c) \/ BindFails(c) \/ Stub(c)
    BY <1>1, <1>7 DEF ListVehicles, ListGeofences, ListDrivers, ListAlerts, ReportTrips,
         ListIgnoring, GetVehicle, Users, BindFails, Stub
  <1>8. CASE UpdateDevice(c) \/ Acknowledge(c) \/ UpdatePreferences(c)
    BY <1>1, <1>2, <1>8, Zenon DEF UpdateDevice, Acknowledge, UpdatePreferences
  <1>9. CASE DeleteDevice(c) \/ DeleteVehicle(c)
    BY <1>1, <1>2, <1>9, Zenon DEF DeleteDevice, DeleteVehicle, SoftDelete
  <1>10. CASE CreateDevice(c)
    <2>1. PICK key \in Keys : Inserted(c, "devices", key)
      BY <1>10 DEF CreateDevice
    <2> DEFINE row == NewRow("devices", key, T(c))
    <2>2. (Changed({}, {row}) /\ Created(c, "devices", row.id)) \/ Answer(c, 500, {})
      BY <2>1, Zenon DEF Inserted
    <2> QED BY <2>2 DEF Responds, Registers
  <1>11. CASE CreateVehicle(c) \/ CreateGeofence(c)
    <2>1. PICK table \in {"vehicles", "geofences"}, key \in Keys : InsertedOrNot(c, table, key)
      BY <1>11 DEF CreateVehicle, CreateGeofence
    <2>2. table # "devices" /\ \E id : Created(c, table, id)
      BY <2>1 DEF InsertedOrNot
    <2> QED BY <2>2, Zenon DEF Responds
  <1> QED BY <1>4, <1>5, <1>6, <1>7, <1>8, <1>9, <1>10, <1>11 DEF Handler

LEMMA CreatedStep ==
  ASSUME APIInv, CreatedIsStored, [Next]_vars
  PROVE  CreatedIsStored'
  <1>1. CASE resp' = NoResponse
    BY <1>1 DEF CreatedIsStored, NoResponse
  <1>2. ASSUME NEW c, NEW status, NEW items, Answer(c, status, items) PROVE CreatedIsStored'
    <2>1. DOMAIN resp' = {"tenant", "status", "items"}
      BY <1>2 DEF Answer
    <2> QED BY <2>1 DEF CreatedIsStored
  <1>3. ASSUME NEW c, NEW table, NEW id, table # "devices", Created(c, table, id)
        PROVE  CreatedIsStored'
    BY <1>3 DEF Created, CreatedIsStored
  <1>4. ASSUME NEW c \in Conns, Handler(c), Registers(c) PROVE CreatedIsStored'
    <2>1. ctx[c] \in Tenants
      BY <1>4, HandlerShape, ShapeServed DEF APIInv, FoundOwn
    <2>2. PICK key \in Keys : LET row == NewRow("devices", key, T(c))
                              IN  Changed({}, {row}) /\ Created(c, "devices", row.id)
      BY <1>4, Zenon DEF Registers
    <2> DEFINE row == NewRow("devices", key, T(c))
    <2>3. row.table = "devices" /\ row.tenant = ctx[c] /\ row.live
      BY <2>1, NewRowType DEF APIInv, Tables, T
    <2>4. row \in rows' /\ resp'.tenant = ctx[c] /\ resp'.id = row.id
      BY <2>2 DEF Changed, Created
    <2> HIDE DEF row
    <2>5. row \in Select("devices", resp.tenant)'
      BY <2>3, <2>4 DEF Select
    <2> QED BY <2>4, <2>5 DEF CreatedIsStored
  <1>5. ASSUME NEW c \in Conns, resp = NoResponse,
               Unauthorized(c) \/ Middleware(c) \/ Incr(c) \/ IncrLost(c) \/ IncrFails(c) \/ Expire(c)
        PROVE  resp' = NoResponse \/ \E status : Answer(c, status, {})
    BY <1>5 DEF Unauthorized, Middleware, Incr, IncrLost, IncrFails, Expire, Goto
  <1>6. ASSUME NEW c \in Conns, resp = NoResponse, Handler(c) PROVE CreatedIsStored'
    BY <1>1, <1>2, <1>3, <1>4, <1>6, HandlerResponds DEF Responds
  <1>7. ASSUME NEW t \in Tenants, resp = NoResponse, WindowEnds(t) PROVE resp' = NoResponse
    BY <1>7 DEF WindowEnds
  <1>8. CASE Next
    BY <1>1, <1>2, <1>5, <1>6, <1>7, <1>8 DEF Next, Step, Sent
  <1>9. CASE UNCHANGED vars
    BY <1>9 DEF vars, tables, CreatedIsStored, Select
  <1> QED BY <1>8, <1>9

(* A 201 for a device is only sent once its row is in the table with the   *)
(* id that the response names, whatever became of the INSERT.              *)
THEOREM CreatedDevicesExist == Spec => []CreatedIsStored
  <1>1. Init => CreatedIsStored
    BY DEF Init, CreatedIsStored, NoResponse
  <1> QED BY <1>1, CreatedStep, APIInvariant, PTL DEF Spec
=============================================================================
