------------------------------ MODULE TripData ------------------------------
(***************************************************************************)
(* The payloads trip tracking stores and broadcasts, reduced to what the   *)
(* properties tell apart: which trip a payload is about, which fix of that *)
(* trip, and whether it is the closing "trip ended" message.               *)
(***************************************************************************)

(* No "bus:{id}:pos" key in the store.                                     *)
NoPosition == [kind |-> "none"]

(* The n-th fix stored for trip t: the payload of _publish_live.           *)
Fix(t, n)  == [kind |-> "fix", trip |-> t, point |-> n]

(* The payload that end_trip broadcasts.                                   *)
Ended(t)   == [kind |-> "ended", trip |-> t]

(* No row of table trips has this id.                                      *)
NoTrip     == [status |-> "none"]
=============================================================================
