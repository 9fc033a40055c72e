------------------------------ MODULE BusPlates ------------------------------
(***************************************************************************)
(* Number plates: a bus number with its RTO number, as typed by a driver.  *)
(* Canonical is strip().upper() of both (register_bus).                    *)
(***************************************************************************)
CONSTANTS Plates, Canonical

ASSUME BusPlatesAssumption ==
  Canonical \in [Plates -> Plates] /\ \A p \in Plates : Canonical[Canonical[p]] = Canonical[p]
=============================================================================
