---------------------------- MODULE RouteGeometry ----------------------------
(***************************************************************************)
(* app/services/geo.py, on a straight road: a point is [at, off], its      *)
(* position along the road and its distance beside it, and a polyline is   *)
(* the sequence of road positions it visits; it may turn back.  Progress   *)
(* is kept as the distance along the polyline: progress * its length.      *)
(***************************************************************************)
EXTENDS Integers, Sequences, SequencesExt

Dist(a, b) == IF a < b THEN b - a ELSE a - b

Clamp(x, a, b) == IF x < Min({a, b}) THEN Min({a, b})
                  ELSE IF x > Max({a, b}) THEN Max({a, b}) ELSE x

Segments(line) == 1..(Len(line) - 1)

(* point_segment_distance, as far as it lies along the road.               *)
Foot(x, line, i) == Clamp(x, line[i], line[i + 1])
Gap(x, line, i)  == Dist(x, Foot(x, line, i))

(* cumulative[i], the length of the polyline up to its ith vertex.         *)
Cumulative(line) ==
  LET upTo[i \in 1..Len(line)] ==
        IF i = 1 THEN 0 ELSE upTo[i - 1] + Dist(line[i - 1], line[i])
  IN upTo

Length(line) == IF Len(line) < 2 THEN 0 ELSE Cumulative(line)[Len(line)]

(* A faulty variant that nothing uses: dist <= best_dist.                  *)
LastBetter(x, line, i, j) ==
  Gap(x, line, i) < Gap(x, line, j) \/ (Gap(x, line, i) = Gap(x, line, j) /\ i >= j)

(* if dist < best_dist: of the nearest segments, the first.                *)
Better(x, line, i, j) ==
  Gap(x, line, i) < Gap(x, line, j) \/ (Gap(x, line, i) = Gap(x, line, j) /\ i <= j)

Best(x, line) == CHOOSE i \in Segments(line) : \A j \in Segments(line) : Better(x, line, i, j)

(* point_to_polyline_distance(point, line) <= limit.                       *)
Within(p, line, limit) ==
  \E i \in Segments(line) :
    Gap(p.at, line, i) * Gap(p.at, line, i) + p.off * p.off <= limit * limit

(* project_point_on_polyline                                               *)
Along(x, line) ==
  IF Len(line) < 2 \/ Length(line) = 0 THEN 0
  ELSE LET i == Best(x, line) IN Cumulative(line)[i] + Dist(line[i], Foot(x, line, i))

(* point_at_fraction: d of Length(line) is the fraction.                   *)
Reached(line, d) == CHOOSE i \in Segments(line) :
  Cumulative(line)[i + 1] >= d /\ \A j \in 1..(i - 1) : Cumulative(line)[j + 1] < d

PointAt(line, d) ==
  IF d <= 0 \/ Length(line) = 0 THEN line[1]
  ELSE IF d >= Length(line) THEN line[Len(line)]
  ELSE LET i == Reached(line, d)
           t == d - Cumulative(line)[i]
       IN IF line[i] <= line[i + 1] THEN line[i] + t ELSE line[i] - t
-----------------------------------------------------------------------------
(* The distances along line at which it is nearest to x.                   *)
Passings(x, line) ==
  LET away == [d \in 0..Length(line) |-> Dist(x, PointAt(line, d))]
      nearest == Min(Range(away))
  IN {d \in DOMAIN away : away[d] = nearest}

(* The two walks agree: a point projects to where the polyline first comes *)
(* nearest to it.                                                          *)
ProjectsToFirstPassing(x, line) == Along(x, line) = Min(Passings(x, line))
=============================================================================
