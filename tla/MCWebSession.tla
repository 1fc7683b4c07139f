---------------------------- MODULE MCWebSession ----------------------------
(* Two users: the fleet of a fits into one subscription, that of b, one    *)
(* device larger, does not.                                                *)
EXTENDS WebSession

MCFleet == [u \in {"a", "b"} |-> IF u = "a" THEN {"a1"} ELSE {"b1", "b2"}]
=============================================================================
