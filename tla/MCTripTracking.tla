--------------------------- MODULE MCTripTracking ---------------------------
(***************************************************************************)
(* Instances of TripTracking for TLC.  OneDriver is one driver whose       *)
(* requests race for one bus; TwoDrivers gives a driver two buses, so that *)
(* "per driver" and "per bus" differ, and adds a second driver.            *)
(***************************************************************************)
EXTENDS TripTracking, TLC

CONSTANTS b1, b2, b3, d1, d2

OneDriver  == [b \in Buses |-> d1]
TwoDrivers == [b \in Buses |-> IF b = b3 THEN d2 ELSE d1]

(* Handlers and trip ids are interchangeable.  Used for safety properties  *)
(* only.                                                                   *)
Symmetry == Permutations(Handlers) \cup Permutations(TripIds)
=============================================================================
