------------------------------- MODULE DemoBus -------------------------------
(***************************************************************************)
(* scripts/run_demo_bus.py: a task of the server that drives one bus along *)
(* its route with a clock of its own, and the checks TrackingService makes *)
(* of its fixes.  The time of the server passes by one from ping to ping;  *)
(* the clock of the simulation runs ahead of it.                           *)
(***************************************************************************)
EXTENDS RouteGeometry, FiniteSets

CONSTANTS
  Roads,      \* bound: polylines the route may have
  StepLength, \* step_m: metres a ping
  TimeStep,   \* TIME_STEP_S: how far a ping advances the clock
  MaxSpeed,   \* settings.anomaly_max_speed_kmh, in metres by that clock
  MaxTrips, MaxTime, \* bounds: trips ever started, pings that pass
  Nothing     \* no trip any more, no position

(* At the speed of the demo bus a fix passes the check of the one before.  *)
ASSUME DemoAssumption ==
  /\ Roads \subseteq Seq(Int)
  /\ {StepLength, TimeStep, MaxSpeed, MaxTime} \subseteq Nat
  /\ StepLength <= MaxSpeed * TimeStep
  /\ Nothing \notin Nat

VARIABLES
  line,
  now,     \* the time of the server
  trip,    \* the trip the task drives; 0: it starts, Nothing: it is over
  status,  \* table trips, those of this bus
  meters, clock,
  position \* bus:<id>:pos: [at, ts, anomalous], or Nothing

demoVars == <<line, now, trip, status, meters, clock, position>>

Running == trip \notin {0, Nothing}

Active == {t \in 1..Len(status) : status[t] = "active"}
-----------------------------------------------------------------------------
(* Faulty variants, each a plausible slip; nothing in the model uses them. *)
NoneStale     == {}
Wrapped(m)    == m - Length(line)                  \* goes on behind the lap
-----------------------------------------------------------------------------
DemoInit ==
  /\ line \in Roads
  /\ now = 0 /\ trip = 0 /\ status = <<>> /\ meters = 0 /\ clock = 0 /\ position = Nothing

(* A trip that an earlier task left active is ended in the database only.  *)
Stale == IF Active = {} THEN {} ELSE {CHOOSE t \in Active : TRUE}

Start ==
  /\ trip = 0 /\ Len(status) < MaxTrips
  /\ status' = Append([t \in 1..Len(status) |-> IF t \in Stale THEN "ended" ELSE status[t]],
                      "active")
  /\ trip' = Len(status) + 1
  /\ meters' = 0 /\ clock' = now
  /\ UNCHANGED <<line, now, position>>

(* The loop's own walk along the polyline; it runs off the end of          *)
(* `cumulative' when a ping falls on the last metre, and the task is over. *)
Segment(m) ==
  CHOOSE i \in Segments(line) :
    /\ Cumulative(line)[i + 1] > m
    /\ \A j \in 1..(i - 1) : Cumulative(line)[j + 1] <= m

(* A faulty variant that nothing uses: the sign of the segment is lost.    *)
Forward(m) == line[Segment(m)] + m - Cumulative(line)[Segment(m)]

Position(m) ==
  LET i == Segment(m)
      t == m - Cumulative(line)[i]
  IN IF line[i] <= line[i + 1] THEN line[i] + t ELSE line[i] - t

(* ingest: the speed between the last two fixes, if the clock went on.     *)
Anomalous(x, ts) ==
  position # Nothing /\ ts > position.ts /\ Dist(position.at, x) > MaxSpeed * (ts - position.ts)

Driven(m) == IF m > Length(line) THEN 0 ELSE m

Ping ==
  /\ Running /\ now < MaxTime
  /\ meters < Length(line)
  /\ LET x == Position(meters)
         ts == clock + TimeStep
     IN position' = [at |-> x, ts |-> ts, anomalous |-> Anomalous(x, ts)]
  /\ clock' = clock + TimeStep /\ now' = now + 1
  /\ meters' = Driven(meters + StepLength)
  /\ UNCHANGED <<line, trip, status>>

RunsOffTheEnd ==
  /\ Running /\ meters = Length(line)
  /\ trip' = Nothing
  /\ UNCHANGED <<line, now, status, meters, clock, position>>

(* The server restarts, after a while; Redis keeps the position.           *)
Restart(k) ==
  /\ now + k <= MaxTime
  /\ trip' = 0 /\ now' = now + k
  /\ position' \in {position, Nothing}
  /\ UNCHANGED <<line, status, meters, clock>>

DemoNext == Start \/ Ping \/ RunsOffTheEnd \/ \E k \in 0..MaxTime : Restart(k)

DemoSpec == DemoInit /\ [][DemoNext]_demoVars
-----------------------------------------------------------------------------
(* Restarted as it may be, the demo bus has one active trip, its own.      *)
DemoHasOneTrip == Cardinality(Active) <= 1 /\ (Running => Active = {trip})

(* The next fix of the loop is where point_at_fraction of geo.py finds the *)
(* bus after as many metres, also where the road turns back.               *)
WalkMeetsGeometry ==
  meters < Length(line) => Position(meters) = PointAt(line, meters)

(* "The implied speed stays realistic so nothing is flagged anomalous" is  *)
(* true within a lap, whatever position and clock an earlier task left     *)
(* behind; the jump from the end of a lap to the start is flagged.         *)
OnlyFirstOfLapIsFlagged ==
  position # Nothing /\ position.anomalous => position.at = line[1]

(* What passengers see of the demo bus: one trip, driven along the road of *)
(* its route at a speed that passes for real.                              *)
DemoIsSound == DemoHasOneTrip /\ WalkMeetsGeometry /\ OnlyFirstOfLapIsFlagged
=============================================================================
