----------------------------- MODULE TripLedger -----------------------------
(***************************************************************************)
(* What trip tracking promises, whatever the interleaving of its request   *)
(* handlers and wherever one of them fails: a trip opens once, closes for  *)
(* good and never changes bus; fixes are only ever added; and neither the  *)
(* live position nor the broadcast feed of a bus says anything about it    *)
(* that the database does not already hold.                                *)
(*                                                                         *)
(* TripTracking implements this module: see TripTracking!Ledger.           *)
(***************************************************************************)
EXTENDS Naturals, Sequences, TripData

CONSTANTS Buses, TripIds

VARIABLES
  row,        \* row[t]: NoTrip, or the status and the bus of trip t
  recorded,   \* recorded[t]: number of fixes stored for trip t
  live,       \* live[b]: the position shown for bus b, or NoPosition
  feed        \* feed[b]: the messages broadcast for bus b, in order

ledgerVars == <<row, recorded, live, feed>>

(* The trips that bus b has driven or is driving.                          *)
TripsOf(b) == {t \in TripIds : row[t] # NoTrip /\ row[t].bus = b}

Init ==
  /\ row = [t \in TripIds |-> NoTrip]
  /\ recorded = [t \in TripIds |-> 0]
  /\ live = [b \in Buses |-> NoPosition]
  /\ feed = [b \in Buses |-> <<>>]

Open(t, b) ==
  /\ row[t] = NoTrip
  /\ row' = [row EXCEPT ![t] = [status |-> "active", bus |-> b]]
  /\ UNCHANGED <<recorded, live, feed>>

(* A fix may still be stored for a trip that has just been closed.         *)
Record(t) ==
  /\ row[t] # NoTrip
  /\ recorded' = [recorded EXCEPT ![t] = @ + 1]
  /\ UNCHANGED <<row, live, feed>>

Close(t) ==
  /\ row[t] # NoTrip
  /\ row' = [row EXCEPT ![t].status = "ended"]
  /\ UNCHANGED <<recorded, live, feed>>

(* Position and feed of bus b change together or apart.                    *)
ShowSomethingTrue(b) ==
  \/ live' = live
  \/ live' = [live EXCEPT ![b] = NoPosition]
  \/ \E t \in TripsOf(b) : \E n \in 1..recorded[t] :
       live' = [live EXCEPT ![b] = Fix(t, n)]

BroadcastSomethingTrue(b) ==
  \/ feed' = feed
  \/ \E t \in TripsOf(b) : \E n \in 1..recorded[t] :
       feed' = [feed EXCEPT ![b] = Append(@, Fix(t, n))]
  \/ \E t \in TripsOf(b) :
       /\ row[t].status = "ended"
       /\ feed' = [feed EXCEPT ![b] = Append(@, Ended(t))]

Tell(b) ==
  /\ ShowSomethingTrue(b)
  /\ BroadcastSomethingTrue(b)
  /\ UNCHANGED <<row, recorded>>

(* A restart of a server that keeps positions in its own memory.           *)
Forget ==
  /\ live' = [b \in Buses |-> NoPosition]
  /\ UNCHANGED <<row, recorded, feed>>

Next ==
  \/ \E t \in TripIds, b \in Buses : Open(t, b)
  \/ \E t \in TripIds : Record(t)
  \/ \E t \in TripIds : Close(t)
  \/ \E b \in Buses : Tell(b)
  \/ Forget

Spec == Init /\ [][Next]_ledgerVars
=============================================================================
