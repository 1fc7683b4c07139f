----------------------------- MODULE MCFleetAPI -----------------------------
(***************************************************************************)
(* Two tenants with one live row each in every table but geofences.        *)
(***************************************************************************)
EXTENDS FleetAPI, TLC

Row(table, id, tenant) ==
  [table |-> table, id |-> id, tenant |-> tenant, key |-> "k1", live |-> TRUE, version |-> 0]

(* A device and a vehicle of the first tenant were deleted before.         *)
TwoFleets ==
  {Row(table, 1, "t1") : table \in Tables \ {"geofences"}}
    \cup {Row(table, 2, "t2") : table \in Tables \ {"geofences"}}
    \cup {[Row(table, 3, "t1") EXCEPT !.key = "k2", !.live = FALSE] :
            table \in {"devices", "vehicles"}}

(* The newest record is outside the range of a request for yesterday.      *)
TwoTracks == [id \in {1, 2} |-> 3 + id .. 5]

(* Connections are interchangeable; sound for the properties checked.      *)
Symmetry == Permutations(Conns)
=============================================================================
