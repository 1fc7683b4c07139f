------------------------------- MODULE MCHub -------------------------------
(***************************************************************************)
(* Small instances of Hub for TLC.                                         *)
(***************************************************************************)
EXTENDS Hub

CONSTANTS c1, c2

OneClient  == {c1}
TwoClients == {c1, c2}

(* Every client belongs to t1; the others' messages are foreign.           *)
AllOfT1  == [c \in Clients |-> "t1"]
AllLive  == [c \in Clients |-> "live"]

(* c1 uses the live endpoint, c2 the alerts endpoint.                      *)
LiveAndAlerts == [c \in Clients |-> IF c = c1 THEN "live" ELSE "alerts"]
=============================================================================
