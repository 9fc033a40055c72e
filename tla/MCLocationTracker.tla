-------------------------- MODULE MCLocationTracker --------------------------
(* Instances of LocationTracker for TLC.  Two trips make the buffer hold   *)
(* fixes of another trip.  When calls overlap, one fix is enough to ask    *)
(* whether the tracker goes on; otherwise three overflow the buffer.       *)
EXTENDS LocationTracker, TLC

OneWhenBusy   == TRUE :> 2 @@ FALSE :> 1
FewerWhenBusy == TRUE :> 3 @@ FALSE :> 1
OneBusyTrip   == FALSE :> 1
TwoWhenBusy   == FALSE :> 2
=============================================================================
