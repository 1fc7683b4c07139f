---------------------------- MODULE MCIngestion ----------------------------
(***************************************************************************)
(* Small instances of Ingestion for TLC.                                   *)
(***************************************************************************)
EXTENDS Ingestion

CONSTANTS n1, n2, n3

TwoConns   == {n1, n2}
ThreeConns == {n1, n2, n3}

(* Every connection comes from one device: a device that reconnects.       *)
OneDevice == [n \in Conns |-> "d1"]
=============================================================================
