------------------------- MODULE MCStreamProcessor -------------------------
(***************************************************************************)
(* Small instances of StreamProcessor for TLC.                             *)
(***************************************************************************)
EXTENDS StreamProcessor, TLC

CONSTANTS w1, w2

R(t, v, e) == [device |-> "d1", ts |-> t, speed |-> v, sos |-> e, ok |-> TRUE]

(* A device that speeds, presses SOS and stops.                            *)
Emergency == <<R(1, 130, TRUE), R(2, 0, FALSE)>>

(* A device that creeps along and never starts a trip; garbage in between. *)
Creep == <<R(1, 3, FALSE), [R(2, 3, FALSE) EXCEPT !.ok = FALSE], R(3, 3, FALSE)>>

(* A device that drives off and stops.                                     *)
DriveAndStop == <<R(1, 60, FALSE), R(2, 0, FALSE)>>

(* Replicas are interchangeable; sound for invariants.                     *)
Symmetry == Permutations(Workers)
=============================================================================
