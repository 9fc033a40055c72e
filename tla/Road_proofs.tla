--------------------------- MODULE Road_proofs -----------------------------
(***************************************************************************)
(* Proofs about RouteGeometry, for any polyline; about DemoBus, for any    *)
(* road, pace and number of trips and restarts; and about RouteRegistry,   *)
(* for any villages, requests, detours and number of requests at a time.   *)
(***************************************************************************)
EXTENDS DemoBus, RouteRegistry, FiniteSetTheorems, WellFoundedInduction, TLAPS

(* A set of numbers has a smallest one: what stands in for induction.      *)
LEMMA SmallestExists ==
  ASSUME NEW S \in SUBSET Nat, S # {}
  PROVE  \E n \in S : \A m \in S : n <= m
<1>. DEFINE R == {p \in Nat \X Nat : p[1] < p[2]}
<1>1. IsWellFoundedOn(R, Nat)
  BY NatLessThanWellFounded DEF OpToRel
<1>2. PICK n \in S : \A m \in S : ~(<<m, n>> \in R)
  <2>. HIDE DEF R
  <2> QED
    BY <1>1, WFMin
<1>3. ASSUME NEW m \in S PROVE n <= m
  <2>1. n \in Nat /\ m \in Nat
    OBVIOUS
  <2>2. m < n => <<m, n>> \in R
    BY <2>1
  <2> QED
    BY <1>2, <2>1, <2>2
<1> QED
  BY <1>3

LEMMA DistIsMetric ==
  ASSUME NEW a \in Int, NEW b \in Int, NEW c \in Int
  PROVE  /\ Dist(a, b) \in Nat
         /\ Dist(a, b) = Dist(b, a)
         /\ Dist(a, b) = 0 <=> a = b
         /\ Dist(a, c) <= Dist(a, b) + Dist(b, c)
  BY DEF Dist

(* The recursive definition of cumulative has a solution: as far as the    *)
(* first vertex it has one, and one more vertex extends it.                *)
LEMMA CumulativeExists ==
  ASSUME NEW road \in Seq(Int), Len(road) >= 1
  PROVE  \E f : f = [i \in 1..Len(road) |->
                       IF i = 1 THEN 0 ELSE f[i - 1] + Dist(road[i - 1], road[i])]
<1> DEFINE Solves(f, n) ==
             f = [i \in 1..n |-> IF i = 1 THEN 0 ELSE f[i - 1] + Dist(road[i - 1], road[i])]
           Bad == {n \in 1..Len(road) : ~\E f : Solves(f, n)}
<1>1. ASSUME Bad # {} PROVE FALSE
  <2>1. PICK n \in Bad : \A m \in Bad : n <= m
    <3>1. Bad \subseteq Nat
      OBVIOUS
    <3> QED
      BY <1>1, <3>1, SmallestExists
  <2>2. n \in 1..Len(road) /\ ~\E f : Solves(f, n)
    BY <2>1
  <2>3. n # 1
    <3>1. Solves([i \in 1..1 |-> 0], 1)
      OBVIOUS
    <3> QED
      BY <2>2, <3>1
  <2> HIDE DEF Bad
  <2>4. n - 1 \in 1..Len(road) /\ n - 1 \notin Bad
    BY <2>1, <2>2, <2>3
  <2>5. PICK f : Solves(f, n - 1)
    BY <2>4 DEF Bad
  <2> DEFINE g == [i \in 1..n |-> IF i = n THEN f[n - 1] + Dist(road[n - 1], road[n]) ELSE f[i]]
  <2>6. Solves(g, n)
    <3>1. ASSUME NEW i \in 1..n
          PROVE  g[i] = IF i = 1 THEN 0 ELSE g[i - 1] + Dist(road[i - 1], road[i])
      <4>1. CASE i = n
        BY <2>2, <2>3, <4>1
      <4>2. CASE i # n
        <5>1. i \in 1..(n - 1)
          BY <2>2, <4>2
        <5>2. g[i] = f[i] /\ (i # 1 => g[i - 1] = f[i - 1])
          BY <2>2, <5>1
        <5>3. f[i] = IF i = 1 THEN 0 ELSE f[i - 1] + Dist(road[i - 1], road[i])
          BY <2>5, <5>1
        <5> QED
          BY <5>2, <5>3
      <4> QED
        BY <4>1, <4>2
    <3> QED
      BY <3>1
  <2> QED
    BY <2>2, <2>6
<1>2. Len(road) \notin Bad
  BY <1>1
<1> QED
  BY <1>2

LEMMA CumulativeSums ==
  ASSUME NEW road \in Seq(Int), Len(road) >= 1
  PROVE  /\ Cumulative(road)[1] = 0
         /\ \A i \in 2..Len(road) :
              Cumulative(road)[i] = Cumulative(road)[i - 1] + Dist(road[i - 1], road[i])
<1> DEFINE Solves(f) ==
      f = [i \in 1..Len(road) |-> IF i = 1 THEN 0 ELSE f[i - 1] + Dist(road[i - 1], road[i])]
<1>1. Cumulative(road) = CHOOSE f : Solves(f)
  BY DEF Cumulative
<1>2. \E f : Solves(f)
  BY CumulativeExists
<1>3. Solves(Cumulative(road))
  BY <1>1, <1>2
<1> HIDE DEF Solves
<1>4. \A i \in 1..Len(road) : Cumulative(road)[i] =
        IF i = 1 THEN 0 ELSE Cumulative(road)[i - 1] + Dist(road[i - 1], road[i])
  BY <1>3 DEF Solves
<1> QED
  BY <1>4

(* The polyline from vertex j to vertex k is at least as long as the way   *)
(* between them.                                                           *)
LEMMA NoShortCuts ==
  ASSUME NEW road \in Seq(Int), NEW j \in 1..Len(road), NEW k \in 1..Len(road), j <= k,
         Cumulative(road)[j] \in Nat
  PROVE  /\ Cumulative(road)[k] \in Nat
         /\ Dist(road[j], road[k]) <= Cumulative(road)[k] - Cumulative(road)[j]
<1> DEFINE C == Cumulative(road)
           Bad == {m \in j..Len(road) : ~(C[m] \in Nat /\ Dist(road[j], road[m]) <= C[m] - C[j])}
<1>1. ASSUME Bad # {} PROVE FALSE
  <2>1. PICK m \in Bad : \A i \in Bad : m <= i
    <3>1. Bad \subseteq Nat
      OBVIOUS
    <3> QED
      BY <1>1, <3>1, SmallestExists
  <2>2. m \in j..Len(road) /\ ~(C[m] \in Nat /\ Dist(road[j], road[m]) <= C[m] - C[j])
    BY <2>1
  <2>3. m # j
    BY <2>2 DEF Dist
  <2>4. m - 1 \in j..Len(road) /\ m - 1 \notin Bad
    BY <2>1, <2>2, <2>3
  <2>5. C[m - 1] \in Nat /\ Dist(road[j], road[m - 1]) <= C[m - 1] - C[j]
    BY <2>4
  <2>6. C[m] = C[m - 1] + Dist(road[m - 1], road[m])
    BY <2>2, <2>3, CumulativeSums
  <2>7. road[j] \in Int /\ road[m - 1] \in Int /\ road[m] \in Int
    BY <2>2, <2>4, SMTT(30)
  <2> HIDE DEF C, Bad
  <2>8. /\ Dist(road[m - 1], road[m]) \in Nat
        /\ Dist(road[j], road[m]) <= Dist(road[j], road[m - 1]) + Dist(road[m - 1], road[m])
    BY <2>7, DistIsMetric
  <2>9. Dist(road[j], road[m]) \in Nat /\ Dist(road[j], road[m - 1]) \in Nat
    BY <2>7, DistIsMetric
  <2>10. C[j] \in Nat
    BY DEF C
  <2>11. C[m] \in Nat
    BY <2>5, <2>6, <2>8
  <2>12. Dist(road[j], road[m]) <= C[m] - C[j]
    BY <2>5, <2>6, <2>8, <2>9, <2>10, SMTT(30)
  <2> QED
    BY <2>2, <2>11, <2>12
<1> QED
  BY <1>1

(* THE LENGTHS GROW along the polyline, vertex by vertex.                  *)
LEMMA CumulativeGrows ==
  ASSUME NEW road \in Seq(Int)
  PROVE  /\ \A k \in 1..Len(road) : Cumulative(road)[k] \in Nat
         /\ \A j, k \in 1..Len(road) : j <= k =>
              /\ Cumulative(road)[j] <= Cumulative(road)[k]
              /\ Dist(road[j], road[k]) <= Cumulative(road)[k] - Cumulative(road)[j]
<1>1. \A k \in 1..Len(road) : Cumulative(road)[k] \in Nat
  <2> SUFFICES ASSUME NEW k \in 1..Len(road) PROVE Cumulative(road)[k] \in Nat
    OBVIOUS
  <2>1. 1 \in 1..Len(road) /\ Cumulative(road)[1] = 0 /\ 1 <= k
    BY CumulativeSums
  <2> QED
    BY <2>1, NoShortCuts
<1>2. ASSUME NEW j \in 1..Len(road), NEW k \in 1..Len(road), j <= k
      PROVE  /\ Cumulative(road)[j] <= Cumulative(road)[k]
             /\ Dist(road[j], road[k]) <= Cumulative(road)[k] - Cumulative(road)[j]
  <2>1. Dist(road[j], road[k]) <= Cumulative(road)[k] - Cumulative(road)[j]
    BY <1>1, <1>2, NoShortCuts
  <2>2. Dist(road[j], road[k]) \in Nat
    <3>1. road[j] \in Int /\ road[k] \in Int
      OBVIOUS
    <3> QED
      BY <3>1, DistIsMetric
  <2> QED
    BY <1>1, <2>1, <2>2
<1> QED
  BY <1>1, <1>2

(* The point of segment i of the road that is m metres along it.           *)
On(road, i, m) ==
  IF road[i] <= road[i + 1] THEN road[i] + (m - Cumulative(road)[i])
                            ELSE road[i] - (m - Cumulative(road)[i])

Covers(road, i, m) ==
  i \in Segments(road) /\ Cumulative(road)[i] <= m /\ m <= Cumulative(road)[i + 1]

LEMMA SameWay ==
  ASSUME NEW a \in Int, NEW d \in Int, NEW m \in Nat, NEW k \in Nat, m <= k,
         d = a + (k - m) \/ d = a - (k - m)
  PROVE  Dist(a, d) <= k - m
  BY DEF Dist

LEMMA StepOfARoad ==
  ASSUME NEW a \in Int, NEW b \in Int, NEW m \in Nat, NEW p \in Nat
  PROVE  (IF a <= b THEN a + (m - p) ELSE a - (m - p)) \in Int
<1>1. a + (m - p) \in Int /\ a - (m - p) \in Int
  OBVIOUS
<1> QED
  BY <1>1

LEMMA OnSegment ==
  ASSUME NEW road \in Seq(Int), NEW i, NEW m \in Nat, Covers(road, i, m)
  PROVE  /\ On(road, i, m) \in Int /\ i \in 1..Len(road) /\ i + 1 \in 1..Len(road)
         /\ road[i] \in Int /\ road[i + 1] \in Int
         /\ Cumulative(road)[i] \in Nat /\ Cumulative(road)[i + 1] \in Nat
         /\ Dist(road[i], On(road, i, m)) = m - Cumulative(road)[i]
         /\ Dist(On(road, i, m), road[i + 1]) = Cumulative(road)[i + 1] - m
<1>1. i \in 1..Len(road) /\ i + 1 \in 2..Len(road) /\ i + 1 \in 1..Len(road) /\ (i + 1) - 1 = i
  BY DEF Covers, Segments
<1>2. Cumulative(road)[i] \in Nat /\ Cumulative(road)[i + 1] \in Nat
  BY <1>1, CumulativeGrows
<1>3. Cumulative(road)[i + 1] = Cumulative(road)[i] + Dist(road[i], road[i + 1])
  BY <1>1, CumulativeSums
<1>4. road[i] \in Int /\ road[i + 1] \in Int
  BY <1>1
<1>5. Cumulative(road)[i] <= m /\ m <= Cumulative(road)[i + 1]
  BY DEF Covers
<1>6. PICK a \in Int, b \in Int, p \in Nat, q \in Nat :
        /\ a = road[i] /\ b = road[i + 1]
        /\ p = Cumulative(road)[i] /\ q = Cumulative(road)[i + 1]
  BY <1>2, <1>4
<1>7. PICK y \in Int : y = On(road, i, m) /\ y = IF a <= b THEN a + (m - p) ELSE a - (m - p)
  <2>1. On(road, i, m) = IF a <= b THEN a + (m - p) ELSE a - (m - p)
    BY <1>6 DEF On
  <2>2. (IF a <= b THEN a + (m - p) ELSE a - (m - p)) \in Int
    BY StepOfARoad
  <2>3. On(road, i, m) \in Int
    BY <2>1, <2>2
  <2> QED
    BY <2>1, <2>3
<1>8. q = p + Dist(a, b) /\ p <= m /\ m <= q
  BY <1>3, <1>5, <1>6
<1>9. Dist(a, y) = m - p /\ Dist(y, b) = q - m
  BY <1>7, <1>8 DEF Dist
<1> QED
  BY <1>1, <1>2, <1>4, <1>6, <1>7, <1>9

(* TWO POINTS ON THE ROAD are no further from one another than the metres  *)
(* between them, whichever of the segments that meet in a vertex is meant. *)
LEMMA RoadIsContinuous ==
  ASSUME NEW road \in Seq(Int), NEW i, NEW j, NEW m \in Nat, NEW k \in Nat,
         Covers(road, i, m), Covers(road, j, k), i <= j, m <= k
  PROVE  /\ On(road, i, m) \in Int /\ On(road, j, k) \in Int
         /\ Dist(On(road, i, m), On(road, j, k)) <= k - m
<1>1. /\ On(road, i, m) \in Int /\ i \in 1..Len(road) /\ i + 1 \in 1..Len(road)
      /\ road[i] \in Int /\ road[i + 1] \in Int
      /\ Cumulative(road)[i] \in Nat /\ Cumulative(road)[i + 1] \in Nat
      /\ Dist(On(road, i, m), road[i + 1]) = Cumulative(road)[i + 1] - m
  BY OnSegment
<1>2. /\ On(road, j, k) \in Int /\ j \in 1..Len(road) /\ road[j] \in Int
      /\ Cumulative(road)[j] \in Nat
      /\ Dist(road[j], On(road, j, k)) = k - Cumulative(road)[j]
  BY OnSegment
<1>3. CASE i = j
  <2>1. On(road, j, k) = On(road, i, m) + (k - m) \/ On(road, j, k) = On(road, i, m) - (k - m)
    <3>1. PICK a \in Int, b \in Int, p \in Nat :
            a = road[i] /\ b = road[i + 1] /\ p = Cumulative(road)[i]
      BY <1>1
    <3>2. /\ On(road, i, m) = IF a <= b THEN a + (m - p) ELSE a - (m - p)
          /\ On(road, j, k) = IF a <= b THEN a + (k - p) ELSE a - (k - p)
      BY <1>3, <3>1 DEF On
    <3>3. CASE a <= b
      BY <3>2, <3>3
    <3>4. CASE ~(a <= b)
      BY <3>2, <3>4
    <3> QED
      BY <3>3, <3>4
  <2> QED
    BY <1>1, <1>2, <2>1, SameWay
<1>4. CASE i # j
  <2>1. i + 1 <= j
    BY <1>1, <1>2, <1>4
  <2>2. Dist(road[i + 1], road[j]) <= Cumulative(road)[j] - Cumulative(road)[i + 1]
    BY <1>1, <1>2, <2>1, CumulativeGrows
  <2>3. PICK p \in Nat, q \in Nat : p = Cumulative(road)[i + 1] /\ q = Cumulative(road)[j]
    BY <1>1, <1>2
  <2>4. PICK a \in Int, b \in Int, c \in Int, d \in Int :
          a = On(road, i, m) /\ b = road[i + 1] /\ c = road[j] /\ d = On(road, j, k)
    BY <1>1, <1>2
  <2>5. Dist(a, b) = p - m /\ Dist(b, c) <= q - p /\ Dist(c, d) = k - q
    BY <1>1, <1>2, <2>2, <2>3, <2>4
  <2>6. Dist(a, d) <= k - m
    BY <2>5 DEF Dist
  <2> QED
    BY <1>1, <1>2, <2>4, <2>6
<1> QED
  BY <1>3, <1>4

(* What point_at_fraction looks for is there.                              *)
LEMMA ReachedIsFound ==
  ASSUME NEW road \in Seq(Int), NEW m \in Nat, 0 < m, m <= Length(road)
  PROVE  Covers(road, Reached(road, m), m)
<1> DEFINE C == Cumulative(road)
           Past == {i \in Segments(road) : C[i + 1] >= m}
           r == Reached(road, m)
<1>1. Len(road) \in Nat /\ Len(road) >= 2 /\ Length(road) = C[Len(road)]
  BY DEF Length
<1>2. \A i \in Segments(road) : i \in 1..Len(road) /\ i + 1 \in 1..Len(road)
  BY <1>1 DEF Segments
<1>3. \A i \in 1..Len(road) : C[i] \in Nat
  BY CumulativeGrows
<1>4. C[1] = 0
  BY <1>1, CumulativeSums
<1> HIDE DEF C
<1>5. Len(road) - 1 \in Past
  BY <1>1 DEF Segments
<1>6. PICK i \in Past : \A j \in Past : i <= j
  <2>1. Past \subseteq Nat
    BY DEF Segments
  <2> QED
    BY <1>5, <2>1, SmallestExists
<1>7. i \in Segments(road) /\ C[i + 1] >= m /\ \A j \in 1..(i - 1) : C[j + 1] < m
  <2>1. ASSUME NEW j \in 1..(i - 1) PROVE C[j + 1] < m
    <3>1. j \in Segments(road) /\ j < i
      BY <1>1 DEF Segments
    <3>2. j \notin Past
      BY <1>6, <3>1 DEF Segments
    <3> QED
      BY <1>2, <1>3, <3>1, <3>2
  <2> QED
    BY <2>1
<1>8. r \in Segments(road) /\ C[r + 1] >= m /\ \A j \in 1..(r - 1) : C[j + 1] < m
  BY <1>7 DEF Reached, C
<1> HIDE DEF r
<1>9. C[r] <= m
  <2>1. CASE r = 1
    BY <1>4, <2>1
  <2>2. CASE r # 1
    <3>1. r - 1 \in 1..(r - 1) /\ (r - 1) + 1 = r /\ C[r] \in Nat
      BY <1>2, <1>3, <1>8, <2>2 DEF Segments
    <3> QED
      BY <1>8, <3>1
  <2> QED
    BY <2>1, <2>2
<1> QED
  BY <1>8, <1>9, <1>2, <1>3 DEF Covers, C, r

(* WHERE SEGMENTS MEET they agree: whichever covers m, point_at_fraction   *)
(* finds its point.                                                        *)
LEMMA PointIsOn ==
  ASSUME NEW road \in Seq(Int), NEW m \in Nat, NEW i, Covers(road, i, m)
  PROVE  /\ PointAt(road, m) = On(road, i, m)
         /\ Length(road) \in Nat /\ m <= Length(road)
<1>1. ASSUME NEW r, Covers(road, r, m) PROVE On(road, r, m) = On(road, i, m)
  <2>1. r \in Int /\ i \in Int
    BY <1>1 DEF Covers, Segments
  <2>2. ASSUME NEW p, NEW q, Covers(road, p, m), Covers(road, q, m), p <= q
        PROVE  On(road, p, m) = On(road, q, m)
    <3>1. /\ On(road, p, m) \in Int /\ On(road, q, m) \in Int
          /\ Dist(On(road, p, m), On(road, q, m)) <= m - m
      BY <2>2, RoadIsContinuous
    <3>2. Dist(On(road, p, m), On(road, q, m)) \in Nat
      BY <3>1, DistIsMetric
    <3>3. Dist(On(road, p, m), On(road, q, m)) = 0
      BY <3>1, <3>2
    <3> QED
      BY <3>1, <3>3, DistIsMetric
  <2>3. r <= i \/ i <= r
    BY <2>1
  <2> QED
    BY <1>1, <2>2, <2>3
<1>2. Len(road) \in Nat /\ Len(road) >= 2 /\ Length(road) = Cumulative(road)[Len(road)]
  BY DEF Covers, Segments, Length
<1>3. /\ 1 \in Segments(road) /\ Len(road) - 1 \in Segments(road)
      /\ 1 \in 1..Len(road) /\ 1 + 1 \in 1..Len(road)
      /\ Len(road) \in 1..Len(road) /\ Len(road) - 1 \in 1..Len(road)
  BY <1>2 DEF Segments
<1>4. /\ Cumulative(road)[1] = 0 /\ Cumulative(road)[1 + 1] \in Nat
      /\ Length(road) \in Nat /\ Cumulative(road)[Len(road) - 1] \in Nat
      /\ Cumulative(road)[Len(road) - 1] <= Length(road)
  <2>1. Cumulative(road)[Len(road) - 1] <= Cumulative(road)[Len(road)]
    BY <1>2, <1>3, CumulativeGrows, SMTT(30)
  <2> QED
    BY <1>2, <1>3, <2>1, CumulativeSums, CumulativeGrows
<1>5. m <= Length(road)
  <2>1. i + 1 \in 1..Len(road) /\ Cumulative(road)[i + 1] \in Nat
    BY OnSegment
  <2>2. Cumulative(road)[i + 1] <= Cumulative(road)[Len(road)]
    BY <1>2, <1>3, <2>1, CumulativeGrows
  <2> QED
    BY <1>2, <1>4, <2>1, <2>2 DEF Covers
<1>6. CASE m = 0
  <2>1. PointAt(road, m) = road[1]
    BY <1>6 DEF PointAt
  <2>2. Covers(road, 1, m)
    BY <1>3, <1>4, <1>6 DEF Covers
  <2>3. On(road, 1, m) = road[1]
    <3>1. road[1] \in Int
      BY <1>3
    <3> QED
      BY <1>4, <1>6, <3>1 DEF On
  <2> QED
    BY <1>1, <1>4, <1>5, <2>1, <2>2, <2>3
<1>7. CASE m # 0 /\ m < Length(road)
  <2>1. PointAt(road, m) = On(road, Reached(road, m), m)
    BY <1>4, <1>7 DEF PointAt, On
  <2>2. Covers(road, Reached(road, m), m)
    BY <1>4, <1>7, ReachedIsFound
  <2> QED
    BY <1>1, <1>4, <1>5, <2>1, <2>2
<1>8. CASE m # 0 /\ m = Length(road)
  <2> DEFINE z == Len(road) - 1
  <2>1. PointAt(road, m) = road[z + 1]
    BY <1>2, <1>4, <1>8 DEF PointAt
  <2>2. z + 1 = Len(road)
    BY <1>2
  <2>3. Covers(road, z, m)
    BY <1>2, <1>3, <1>4, <1>8, <2>2 DEF Covers
  <2> HIDE DEF z
  <2>4. /\ On(road, z, m) \in Int /\ road[z + 1] \in Int
        /\ Dist(On(road, z, m), road[z + 1]) = Cumulative(road)[z + 1] - m
    BY <2>3, OnSegment
  <2>5. Cumulative(road)[z + 1] = m
    BY <1>2, <1>8, <2>2
  <2>6. Dist(On(road, z, m), road[z + 1]) = 0
    BY <2>4, <2>5
  <2>7. On(road, z, m) = road[z + 1]
    BY <2>4, <2>6, DistIsMetric
  <2> QED
    BY <1>1, <1>4, <1>5, <2>1, <2>3, <2>7
<1> QED
  BY <1>4, <1>5, <1>6, <1>7, <1>8

-----------------------------------------------------------------------------
Between(y, p, q) == (p <= y /\ y <= q) \/ (q <= y /\ y <= p)

LEMMA ClampIsNearest ==
  ASSUME NEW x \in Int, NEW p \in Int, NEW q \in Int
  PROVE  /\ Clamp(x, p, q) \in Int /\ Between(Clamp(x, p, q), p, q)
         /\ \A y \in Int : Between(y, p, q) =>
              /\ Dist(x, Clamp(x, p, q)) <= Dist(x, y)
              /\ Dist(x, y) = Dist(x, Clamp(x, p, q)) => y = Clamp(x, p, q)
<1>1. CASE p <= q
  <2>1. Min({p, q}) = p /\ Max({p, q}) = q
    BY <1>1 DEF Min, Max
  <2> QED
    BY <1>1, <2>1 DEF Clamp, Between, Dist
<1>2. CASE ~(p <= q)
  <2>1. Min({p, q}) = q /\ Max({p, q}) = p
    BY <1>2 DEF Min, Max
  <2> QED
    BY <1>2, <2>1 DEF Clamp, Between, Dist
<1> QED
  BY <1>1, <1>2

(* A segment holds just the points between its ends, each at one distance. *)
LEMMA OnIsBetween ==
  ASSUME NEW road \in Seq(Int), NEW i, NEW m \in Nat, Covers(road, i, m)
  PROVE  /\ On(road, i, m) \in Int /\ Between(On(road, i, m), road[i], road[i + 1])
         /\ m = Cumulative(road)[i] + Dist(road[i], On(road, i, m))
<1>1. /\ On(road, i, m) \in Int /\ i \in 1..Len(road) /\ i + 1 \in 2..Len(road)
      /\ road[i] \in Int /\ road[i + 1] \in Int
      /\ Cumulative(road)[i] \in Nat /\ Cumulative(road)[i + 1] \in Nat
      /\ Dist(road[i], On(road, i, m)) = m - Cumulative(road)[i]
      /\ Dist(On(road, i, m), road[i + 1]) = Cumulative(road)[i + 1] - m
  <2>1. i \in 1..Len(road) /\ i + 1 \in 2..Len(road)
    BY DEF Covers, Segments
  <2> QED
    BY <2>1, OnSegment
<1>2. Cumulative(road)[i + 1] = Cumulative(road)[i] + Dist(road[i], road[i + 1])
  <2>1. i \in 1..Len(road) /\ i + 1 \in 2..Len(road) /\ (i + 1) - 1 = i
    BY DEF Covers, Segments
  <2> QED
    BY <2>1, CumulativeSums
<1>3. PICK a \in Int, b \in Int, y \in Int, p \in Nat, q \in Nat :
        /\ a = road[i] /\ b = road[i + 1] /\ y = On(road, i, m)
        /\ p = Cumulative(road)[i] /\ q = Cumulative(road)[i + 1]
  BY <1>1
<1>4. Dist(a, y) = m - p /\ Dist(y, b) = q - m /\ q = p + Dist(a, b)
  BY <1>1, <1>2, <1>3
<1>5. Between(y, a, b) /\ m = p + Dist(a, y)
  BY <1>4 DEF Between, Dist
<1> QED
  BY <1>1, <1>3, <1>5

LEMMA BetweenIsOn ==
  ASSUME NEW road \in Seq(Int), NEW i \in Segments(road), NEW y \in Int,
         Between(y, road[i], road[i + 1])
  PROVE  LET m == Cumulative(road)[i] + Dist(road[i], y)
         IN  m \in Nat /\ Covers(road, i, m) /\ On(road, i, m) = y
<1>1. /\ i \in 1..Len(road) /\ i + 1 \in 2..Len(road) /\ i + 1 \in 1..Len(road) /\ (i + 1) - 1 = i
      /\ road[i] \in Int /\ road[i + 1] \in Int
  BY DEF Segments
<1>2. Cumulative(road)[i] \in Nat /\ Cumulative(road)[i + 1] \in Nat
  BY <1>1, CumulativeGrows
<1>3. Cumulative(road)[i + 1] = Cumulative(road)[i] + Dist(road[i], road[i + 1])
  BY <1>1, CumulativeSums
<1>4. PICK a \in Int, b \in Int, p \in Nat, q \in Nat :
        /\ a = road[i] /\ b = road[i + 1]
        /\ p = Cumulative(road)[i] /\ q = Cumulative(road)[i + 1]
  BY <1>1, <1>2
<1>5. q = p + Dist(a, b) /\ Between(y, a, b)
  BY <1>3, <1>4
<1>6. PICK m \in Int : m = p + Dist(a, y)
  <2>1. Dist(a, y) \in Nat
    BY DistIsMetric
  <2> QED
    BY <2>1
<1>7. m \in Nat /\ p <= m /\ m <= q
  BY <1>5, <1>6 DEF Between, Dist
<1>8. (IF a <= b THEN a + (m - p) ELSE a - (m - p)) = y
  BY <1>5, <1>6 DEF Between, Dist
<1>9. Covers(road, i, m) /\ On(road, i, m) = y
  BY <1>4, <1>7, <1>8 DEF Covers, On
<1> QED
  BY <1>4, <1>6, <1>7, <1>9

(* Of the nearest segments there is a first.                               *)
LEMMA BestIsFound ==
  ASSUME NEW road \in Seq(Int), Len(road) >= 2, NEW x \in Int
  PROVE  /\ Best(x, road) \in Segments(road)
         /\ \A j \in Segments(road) : Better(x, road, Best(x, road), j)
<1> DEFINE G == {Gap(x, road, i) : i \in Segments(road)}
<1>1. \A i \in Segments(road) : i \in Nat /\ Gap(x, road, i) \in Nat
  <2> SUFFICES ASSUME NEW i \in Segments(road) PROVE i \in Nat /\ Gap(x, road, i) \in Nat
    OBVIOUS
  <2>1. i \in Nat /\ road[i] \in Int /\ road[i + 1] \in Int
    BY DEF Segments
  <2>2. Foot(x, road, i) \in Int
    BY <2>1, ClampIsNearest DEF Foot
  <2> QED
    BY <2>1, <2>2, DistIsMetric DEF Gap
<1>2. PICK g \in G : \A h \in G : g <= h
  <2>1. 1 \in Segments(road)
    BY DEF Segments
  <2>2. G \subseteq Nat /\ G # {}
    BY <1>1, <2>1
  <2> HIDE DEF G
  <2> QED
    BY <2>2, SmallestExists
<1> DEFINE N == {i \in Segments(road) : Gap(x, road, i) = g}
<1>3. PICK i \in N : \A j \in N : i <= j
  <2>1. N \subseteq Nat /\ N # {}
    BY <1>1, <1>2
  <2> HIDE DEF N
  <2> QED
    BY <2>1, SmallestExists
<1>4. ASSUME NEW j \in Segments(road) PROVE Better(x, road, i, j)
  <2>1. g <= Gap(x, road, j) /\ g \in Nat /\ Gap(x, road, j) \in Nat /\ Gap(x, road, i) = g
    BY <1>1, <1>2, <1>3
  <2>2. Gap(x, road, j) = g => i <= j
    BY <1>3
  <2> QED
    BY <2>1, <2>2 DEF Better
<1> QED
  BY <1>3, <1>4 DEF Best

LEMMA PointIsSomewhere ==
  ASSUME NEW road \in Seq(Int), Len(road) >= 2, NEW d \in 0..Length(road)
  PROVE  \E i \in Segments(road) :
           /\ Covers(road, i, d) /\ PointAt(road, d) = On(road, i, d)
           /\ PointAt(road, d) \in Int
<1>1. d \in Nat /\ d <= Length(road)
  <2>1. Length(road) \in Nat
    BY CumulativeGrows DEF Length
  <2> QED
    BY <2>1
<1>2. PICK i : Covers(road, i, d)
  <2>1. CASE d = 0
    <3>1. 1 \in Segments(road) /\ 1 + 1 \in 1..Len(road)
      BY DEF Segments
    <3>2. Cumulative(road)[1] = 0 /\ Cumulative(road)[1 + 1] \in Nat
      BY <3>1, CumulativeSums, CumulativeGrows
    <3>3. Covers(road, 1, d)
      BY <2>1, <3>1, <3>2 DEF Covers
    <3> QED
      BY <3>3
  <2>2. CASE d # 0
    BY <1>1, <2>2, ReachedIsFound
  <2> QED
    BY <2>1, <2>2
<1>3. i \in Segments(road)
  BY <1>2 DEF Covers
<1> QED
  BY <1>1, <1>2, <1>3, PointIsOn, OnIsBetween

(* THE PROJECTION of project_point_on_polyline is the first of the         *)
(* distances at which point_at_fraction comes nearest.                     *)
LEMMA AlongIsFirst ==
  ASSUME NEW road \in Seq(Int), Len(road) >= 2, NEW x \in Int
  PROVE  /\ Length(road) \in Nat /\ Along(x, road) \in 0..Length(road)
         /\ \A d \in 0..Length(road) :
              /\ PointAt(road, d) \in Int
              /\ Dist(x, PointAt(road, Along(x, road))) <= Dist(x, PointAt(road, d))
              /\ Dist(x, PointAt(road, d)) = Dist(x, PointAt(road, Along(x, road)))
                   => Along(x, road) <= d
<1>1. Length(road) \in Nat
  BY CumulativeGrows DEF Length
<1>2. \A d \in 0..Length(road) : PointAt(road, d) \in Int
  BY PointIsSomewhere
<1>3. CASE Length(road) = 0
  <2>1. Along(x, road) = 0
    BY <1>3 DEF Along
  <2>2. Along(x, road) \in 0..Length(road) /\ \A d \in 0..Length(road) : d = Along(x, road)
    BY <1>3, <2>1
  <2>3. Dist(x, PointAt(road, 0)) \in Nat
    <3>1. PointAt(road, 0) \in Int
      BY <1>2, <2>1, <2>2
    <3> QED
      BY <3>1, DistIsMetric
  <2> QED
    BY <1>1, <1>2, <2>1, <2>2, <2>3
<1>4. CASE Length(road) # 0
  <2> DEFINE b == Best(x, road)
             f == Foot(x, road, b)
             s == Cumulative(road)[b] + Dist(road[b], f)
  <2>1. Along(x, road) = s
    BY <1>4 DEF Along
  <2>2. b \in Segments(road) /\ \A j \in Segments(road) : Better(x, road, b, j)
    BY BestIsFound
  <2> HIDE DEF b
  <2>3. \A i \in Segments(road) : i \in Nat /\ i \in 1..Len(road) /\ i + 1 \in 1..Len(road)
                                  /\ road[i] \in Int /\ road[i + 1] \in Int
    BY DEF Segments
  <2>4. f \in Int /\ Between(f, road[b], road[b + 1])
    BY <2>2, <2>3, ClampIsNearest DEF Foot
  <2>5. s \in Nat /\ Covers(road, b, s) /\ On(road, b, s) = f
    BY <2>2, <2>4, BetweenIsOn
  <2> HIDE DEF f, s
  <2>6. PointAt(road, s) = f /\ s <= Length(road)
    BY <2>5, PointIsOn
  <2>7. Dist(x, f) = Gap(x, road, b)
    BY DEF Gap, f
  <2>8. ASSUME NEW d \in 0..Length(road)
        PROVE  /\ Dist(x, f) <= Dist(x, PointAt(road, d))
               /\ Dist(x, PointAt(road, d)) = Dist(x, f) => s <= d
    <3>1. PICK i \in Segments(road) :
            /\ Covers(road, i, d) /\ PointAt(road, d) = On(road, i, d)
      BY PointIsSomewhere
    <3>2. d \in Nat
      BY <1>1
    <3>3. PICK y \in Int : y = PointAt(road, d) /\ Between(y, road[i], road[i + 1])
                           /\ d = Cumulative(road)[i] + Dist(road[i], y)
      BY <3>1, <3>2, OnIsBetween
    <3>4. /\ Foot(x, road, i) \in Int /\ Gap(x, road, i) <= Dist(x, y)
          /\ Dist(x, y) = Gap(x, road, i) => y = Foot(x, road, i)
      BY <2>3, <3>3, ClampIsNearest DEF Foot, Gap
    <3>5. /\ Gap(x, road, i) \in Nat /\ Gap(x, road, b) \in Nat /\ Dist(x, y) \in Nat
      BY <2>4, <2>7, <3>4, DistIsMetric DEF Gap
    <3>6. Gap(x, road, b) < Gap(x, road, i) \/ (Gap(x, road, b) = Gap(x, road, i) /\ b <= i)
      BY <2>2 DEF Better
    <3>7. Dist(x, f) <= Dist(x, y)
      BY <2>7, <3>4, <3>5, <3>6
    <3>8. ASSUME Dist(x, y) = Dist(x, f) PROVE s <= d
      <4>1. Gap(x, road, i) = Gap(x, road, b) /\ b <= i /\ y = Foot(x, road, i)
        BY <2>7, <3>4, <3>5, <3>6, <3>8
      <4>2. CASE i = b
        BY <2>5, <3>2, <3>3, <4>1, <4>2 DEF s, f
      <4>3. CASE i # b
        <5>1. b \in Nat /\ i \in Nat /\ b + 1 <= i /\ b + 1 \in 1..Len(road) /\ i \in 1..Len(road)
          BY <2>2, <2>3, <4>1, <4>3
        <5>2. /\ Cumulative(road)[b + 1] <= Cumulative(road)[i]
              /\ Cumulative(road)[b + 1] \in Nat /\ Cumulative(road)[i] \in Nat
          BY <5>1, CumulativeGrows
        <5>3. s <= Cumulative(road)[b + 1] /\ Cumulative(road)[i] <= d
          BY <2>5, <3>1 DEF Covers
        <5> QED
          BY <2>5, <3>2, <5>2, <5>3
      <4> QED
        BY <4>2, <4>3
    <3> QED
      BY <3>3, <3>7, <3>8
  <2> QED
    BY <1>1, <1>2, <2>1, <2>5, <2>6, <2>8
<1> QED
  BY <1>3, <1>4

LEMMA PassingsAre ==
  ASSUME NEW road \in Seq(Int), Len(road) >= 2, NEW x \in Int
  PROVE  /\ Passings(x, road) =
              {d \in 0..Length(road) : Dist(x, PointAt(road, d)) = Dist(x, PointAt(road, Along(x, road)))}
         /\ Along(x, road) \in Passings(x, road)
         /\ \A d \in Passings(x, road) : Along(x, road) <= d
<1> DEFINE A == Along(x, road)
           away == [d \in 0..Length(road) |-> Dist(x, PointAt(road, d))]
           n == Dist(x, PointAt(road, A))
<1>1. /\ Length(road) \in Nat /\ A \in 0..Length(road)
      /\ \A d \in 0..Length(road) :
           /\ PointAt(road, d) \in Int
           /\ n <= Dist(x, PointAt(road, d))
           /\ Dist(x, PointAt(road, d)) = n => A <= d
  BY AlongIsFirst
<1>2. \A d \in 0..Length(road) : Dist(x, PointAt(road, d)) \in Nat
  BY <1>1, DistIsMetric
<1> HIDE DEF A
<1>3. n \in Range(away) /\ \A h \in Range(away) : h \in Nat /\ n <= h
  BY <1>1, <1>2 DEF Range
<1>4. Min(Range(away)) = n
  <2> HIDE DEF n, away
  <2> QED
    BY <1>3 DEF Min
<1>5. Passings(x, road) = {d \in 0..Length(road) : Dist(x, PointAt(road, d)) = n}
  <2>1. Passings(x, road) = {d \in DOMAIN away : away[d] = Min(Range(away))}
    BY DEF Passings
  <2> QED
    BY <1>4, <2>1
<1> QED
  BY <1>1, <1>5 DEF A

(* For every polyline and every point beside it.                           *)
LEMMA ProjectionIsFirstPassing ==
  ASSUME NEW road \in Seq(Int), Len(road) >= 2, NEW x \in Int
  PROVE  ProjectsToFirstPassing(x, road)
<1>1. /\ Along(x, road) \in Passings(x, road)
      /\ \A d \in Passings(x, road) : d \in Int /\ Along(x, road) <= d
  BY PassingsAre, SMTT(30)
<1>2. Min(Passings(x, road)) = Along(x, road)
  BY <1>1 DEF Min
<1> QED
  BY <1>2 DEF ProjectsToFirstPassing

LEMMA RoadIsSteady ==
  ASSUME NEW road \in Seq(Int), Len(road) >= 2, NEW d \in Nat, d + 1 <= Length(road)
  PROVE  /\ PointAt(road, d) \in Int /\ PointAt(road, d + 1) \in Int
         /\ Dist(PointAt(road, d), PointAt(road, d + 1)) <= 1
<1>1. Length(road) \in Nat
  BY CumulativeGrows DEF Length
<1>2. d \in 0..Length(road) /\ d + 1 \in 0..Length(road) /\ d + 1 \in Nat
  BY <1>1
<1>3. PICK i \in Segments(road) : Covers(road, i, d) /\ PointAt(road, d) = On(road, i, d)
  BY <1>2, PointIsSomewhere
<1>4. PICK j \in Segments(road) : Covers(road, j, d + 1) /\ PointAt(road, d + 1) = On(road, j, d + 1)
  BY <1>2, PointIsSomewhere
<1>5. i \in Nat /\ j \in Nat /\ i \in 1..Len(road) /\ j + 1 \in 1..Len(road)
  BY DEF Segments
<1>6. ASSUME j < i PROVE FALSE
  <2>1. j + 1 <= i
    BY <1>5, <1>6
  <2>2. /\ Cumulative(road)[j + 1] \in Nat /\ Cumulative(road)[i] \in Nat
        /\ Cumulative(road)[j + 1] <= Cumulative(road)[i]
    BY <1>5, <2>1, CumulativeGrows
  <2> QED
    BY <1>3, <1>4, <2>2 DEF Covers
<1>7. i <= j /\ d <= d + 1 /\ (d + 1) - d = 1
  BY <1>5, <1>6
<1>8. /\ On(road, i, d) \in Int /\ On(road, j, d + 1) \in Int
      /\ Dist(On(road, i, d), On(road, j, d + 1)) <= (d + 1) - d
  BY <1>2, <1>3, <1>4, <1>7, RoadIsContinuous
<1> QED
  BY <1>3, <1>4, <1>7, <1>8

(* A road that is on either side of x has passed it on the way.            *)
LEMMA RoadPasses ==
  ASSUME NEW road \in Seq(Int), Len(road) >= 2, NEW x \in Int,
         NEW a \in 0..Length(road), NEW b \in 0..Length(road), a <= b,
         Between(x, PointAt(road, a), PointAt(road, b))
  PROVE  \E d \in 0..Length(road) : PointAt(road, d) = x
<1>1. /\ Length(road) \in Nat /\ a \in Nat /\ b \in Nat /\ b <= Length(road)
      /\ \A d \in a..b : d \in 0..Length(road) /\ d \in Nat
      /\ \A d \in 0..Length(road) : PointAt(road, d) \in Int
  <2>1. Length(road) \in Nat
    BY CumulativeGrows DEF Length
  <2> QED
    BY <2>1, PointIsSomewhere
<1>2. CASE PointAt(road, a) <= x /\ x <= PointAt(road, b)
  <2> DEFINE S == {d \in a..b : PointAt(road, d) >= x}
  <2>1. PICK m \in S : \A d \in S : m <= d
    <3>1. S \subseteq Nat /\ b \in S
      BY <1>1, <1>2
    <3> HIDE DEF S
    <3> QED
      BY <3>1, SmallestExists
  <2>2. CASE m = a
    BY <1>1, <1>2, <2>1, <2>2
  <2>3. CASE m # a
    <3>1. m - 1 \in a..b /\ m - 1 \notin S
      BY <1>1, <2>1, <2>3
    <3>2. m - 1 \in Nat /\ (m - 1) + 1 = m /\ m <= Length(road)
      BY <1>1, <2>1, <3>1
    <3>3. /\ PointAt(road, m - 1) \in Int /\ PointAt(road, m) \in Int
          /\ Dist(PointAt(road, m - 1), PointAt(road, m)) <= 1
      BY <3>2, RoadIsSteady
    <3>4. PointAt(road, m - 1) < x /\ x <= PointAt(road, m)
      BY <2>1, <3>1, <3>3
    <3>5. PointAt(road, m) = x
      BY <3>3, <3>4 DEF Dist
    <3> QED
      BY <1>1, <2>1, <3>5
  <2> QED
    BY <2>2, <2>3
<1>3. CASE PointAt(road, b) <= x /\ x <= PointAt(road, a)
  <2> DEFINE S == {d \in a..b : PointAt(road, d) <= x}
  <2>1. PICK m \in S : \A d \in S : m <= d
    <3>1. S \subseteq Nat /\ b \in S
      BY <1>1, <1>3
    <3> HIDE DEF S
    <3> QED
      BY <3>1, SmallestExists
  <2>2. CASE m = a
    BY <1>1, <1>3, <2>1, <2>2
  <2>3. CASE m # a
    <3>1. m - 1 \in a..b /\ m - 1 \notin S
      BY <1>1, <2>1, <2>3
    <3>2. m - 1 \in Nat /\ (m - 1) + 1 = m /\ m <= Length(road)
      BY <1>1, <2>1, <3>1
    <3>3. /\ PointAt(road, m - 1) \in Int /\ PointAt(road, m) \in Int
          /\ Dist(PointAt(road, m - 1), PointAt(road, m)) <= 1
      BY <3>2, RoadIsSteady
    <3>4. PointAt(road, m - 1) > x /\ x >= PointAt(road, m)
      BY <2>1, <3>1, <3>3
    <3>5. PointAt(road, m) = x
      BY <3>3, <3>4 DEF Dist
    <3> QED
      BY <1>1, <2>1, <3>5
  <2> QED
    BY <2>2, <2>3
<1> QED
  BY <1>2, <1>3 DEF Between

(* However often a road comes nearest to x, it does so in one point.       *)
LEMMA NearestIsOnePoint ==
  ASSUME NEW road \in Seq(Int), Len(road) >= 2, NEW x \in Int,
         NEW a \in Passings(x, road), NEW b \in Passings(x, road)
  PROVE  PointAt(road, a) = PointAt(road, b)
<1> DEFINE n == Dist(x, PointAt(road, Along(x, road)))
<1>1. /\ a \in 0..Length(road) /\ b \in 0..Length(road)
      /\ Dist(x, PointAt(road, a)) = n /\ Dist(x, PointAt(road, b)) = n
  BY PassingsAre
<1>2. /\ Length(road) \in Nat
      /\ \A d \in 0..Length(road) : PointAt(road, d) \in Int /\ n <= Dist(x, PointAt(road, d))
  BY AlongIsFirst
<1>3. PICK y \in Int, z \in Int : y = PointAt(road, a) /\ z = PointAt(road, b)
  BY <1>1, <1>2
<1>4. Dist(x, y) = n /\ Dist(x, z) = n
  BY <1>1, <1>3
<1> HIDE DEF n
<1>5. ASSUME y # z PROVE FALSE
  <2>1. n \in Nat /\ n > 0 /\ Between(x, y, z) /\ Between(x, z, y)
    BY <1>4, <1>5 DEF Dist, Between
  <2>2. a <= b \/ b <= a
    BY <1>1, <1>2
  <2>3. PICK d \in 0..Length(road) : PointAt(road, d) = x
    BY <1>1, <1>3, <2>1, <2>2, RoadPasses
  <2>4. n <= Dist(x, x) /\ Dist(x, x) = 0
    BY <1>2, <2>3, DistIsMetric
  <2> QED
    BY <2>1, <2>4
<1> QED
  BY <1>3, <1>5

(* FIRST PASSINGS DECIDE: of two places, the one that the road passes      *)
(* first is the one it passes before the other, if it never passes them    *)
(* the other way round.                                                    *)
LEMMA FirstPassingsDecide ==
  ASSUME NEW road \in Seq(Int), Len(road) >= 2, NEW x \in Int, NEW y \in Int,
         NEW d \in Passings(x, road), NEW e \in Passings(y, road), d < e,
         \A g \in Passings(y, road), f \in Passings(x, road) : ~(g < f)
  PROVE  Along(x, road) < Along(y, road)
<1> DEFINE p == Along(x, road)
           q == Along(y, road)
<1>1. /\ p \in Passings(x, road) /\ q \in Passings(y, road)
      /\ Passings(x, road) \subseteq 0..Length(road) /\ Passings(y, road) \subseteq 0..Length(road)
      /\ p <= d /\ Length(road) \in Nat
  BY PassingsAre, AlongIsFirst
<1>2. p \in Nat /\ q \in Nat /\ d \in Nat /\ e \in Nat /\ e \in 0..Length(road)
  BY <1>1
<1>3. p <= q
  BY <1>1, <1>2
<1>4. ASSUME p = q PROVE FALSE
  <2>1. PointAt(road, e) = PointAt(road, q)
    BY <1>1, NearestIsOnePoint
  <2>2. PointAt(road, e) = PointAt(road, p)
    BY <1>4, <2>1
  <2>3. e \in Passings(x, road)
    BY <1>2, <2>2, PassingsAre
  <2>4. q < e
    BY <1>1, <1>2, <1>4
  <2> QED
    BY <1>1, <2>3, <2>4
<1> QED
  BY <1>2, <1>3, <1>4

(* THE FALLBACK ROAD is straight: a metre along it is a metre further.     *)
LEMMA StraightRoad ==
  ASSUME NEW a \in Int, NEW m \in Int, NEW c \in Int, Between(m, a, c)
  PROVE  /\ <<a, m, c>> \in Seq(Int) /\ Len(<<a, m, c>>) = 3
         /\ Length(<<a, m, c>>) = Dist(a, c)
         /\ \A d \in 0..Dist(a, c) :
              PointAt(<<a, m, c>>, d) = IF a <= c THEN a + d ELSE a - d
<1> DEFINE road == <<a, m, c>>
<1>1. /\ road \in Seq(Int) /\ Len(road) = 3 /\ Len(road) >= 1 /\ Len(road) >= 2
      /\ road[1] = a /\ road[2] = m /\ road[3] = c
  OBVIOUS
<1>2. Segments(road) = {1, 2}
  BY <1>1 DEF Segments
<1> HIDE DEF road
<1>3. /\ Cumulative(road)[1] = 0 /\ Cumulative(road)[2] = Dist(a, m)
      /\ Cumulative(road)[3] = Dist(a, m) + Dist(m, c)
  <2>1. \A i \in 2..3 :
          Cumulative(road)[i] = Cumulative(road)[i - 1] + Dist(road[i - 1], road[i])
    BY <1>1, CumulativeSums
  <2>2. Cumulative(road)[2] = Cumulative(road)[1] + Dist(road[1], road[2])
    BY <2>1
  <2>3. Cumulative(road)[3] = Cumulative(road)[2] + Dist(road[2], road[3])
    BY <2>1
  <2>4. Cumulative(road)[1] = 0
    BY <1>1, CumulativeSums
  <2>5. Dist(a, m) \in Nat
    BY DistIsMetric
  <2> QED
    BY <1>1, <2>2, <2>3, <2>4, <2>5
<1>4. Length(road) = Dist(a, c)
  <2>1. Dist(a, m) + Dist(m, c) = Dist(a, c)
    BY DEF Between, Dist
  <2> QED
    BY <1>1, <1>3, <2>1 DEF Length
<1>5. ASSUME NEW d \in 0..Dist(a, c)
      PROVE  PointAt(road, d) = IF a <= c THEN a + d ELSE a - d
  <2>1. PICK i \in Segments(road) : Covers(road, i, d) /\ PointAt(road, d) = On(road, i, d)
    BY <1>1, <1>4, PointIsSomewhere
  <2>2. d \in Nat
    BY DistIsMetric
  <2>3. CASE i = 1
    <3>1. 0 <= d /\ d <= Dist(a, m) /\ PointAt(road, d) = IF a <= m THEN a + d ELSE a - d
      BY <1>1, <1>3, <2>1, <2>2, <2>3 DEF Covers, On
    <3> QED
      BY <2>2, <3>1 DEF Between, Dist
  <2>4. CASE i = 2
    <3>1. /\ Dist(a, m) <= d /\ d <= Dist(a, m) + Dist(m, c)
          /\ PointAt(road, d) = IF m <= c THEN m + (d - Dist(a, m)) ELSE m - (d - Dist(a, m))
      BY <1>1, <1>3, <2>1, <2>2, <2>4 DEF Covers, On
    <3> QED
      BY <2>2, <3>1 DEF Between, Dist
  <2> QED
    BY <1>2, <2>1, <2>3, <2>4
<1> QED
  BY <1>1, <1>4, <1>5 DEF road

LEMMA MiddleIsBetween ==
  ASSUME NEW a \in Int, NEW c \in Int
  PROVE  (a + c) \div 2 \in Int /\ Between((a + c) \div 2, a, c)
<1>1. PICK m \in Int : m = (a + c) \div 2
  OBVIOUS
<1>2. 2 * m <= a + c /\ a + c <= 2 * m + 1
  BY <1>1
<1>3. Between(m, a, c)
  BY <1>2 DEF Between
<1> QED
  BY <1>1, <1>3

(* Every point of a straight road projects to itself.                      *)
LEMMA StraightProjection ==
  ASSUME NEW a \in Int, NEW m \in Int, NEW c \in Int, Between(m, a, c),
         NEW d \in 0..Length(<<a, m, c>>)
  PROVE  Along(PointAt(<<a, m, c>>, d), <<a, m, c>>) = d
<1>1. PICK road \in Seq(Int) : road = <<a, m, c>>
  BY StraightRoad
<1>2. /\ Len(road) >= 2 /\ Length(road) = Dist(a, c)
      /\ \A k \in 0..Length(road) : PointAt(road, k) = IF a <= c THEN a + k ELSE a - k
  BY <1>1, StraightRoad
<1>3. d \in 0..Length(road) /\ Length(road) \in Nat
  BY <1>1, <1>2, DistIsMetric
<1>4. PICK y \in Int : y = PointAt(road, d) /\ y = IF a <= c THEN a + d ELSE a - d
  BY <1>2, <1>3
<1>5. PICK k \in 0..Length(road) :
        k = Along(y, road) /\ Dist(y, PointAt(road, k)) <= Dist(y, PointAt(road, d))
  BY <1>2, <1>3, AlongIsFirst
<1>6. PICK z \in Int : z = PointAt(road, k) /\ z = IF a <= c THEN a + k ELSE a - k
  BY <1>2, <1>3
<1>7. Dist(y, z) <= Dist(y, y)
  BY <1>4, <1>5, <1>6
<1>8. y = z
  BY <1>7 DEF Dist
<1>9. k = d
  BY <1>3, <1>4, <1>6, <1>8
<1> QED
  BY <1>1, <1>4, <1>5, <1>9

-----------------------------------------------------------------------------
(* What the walk of the loop looks for is there.                           *)
LEMMA SegmentIsFound ==
  ASSUME line \in Seq(Int), NEW m \in Nat, m < Length(line)
  PROVE  /\ Covers(line, Segment(m), m)
         /\ Cumulative(line)[Segment(m) + 1] > m
<1> DEFINE C == Cumulative(line)
           Past == {i \in Segments(line) : C[i + 1] > m}
<1>1. Len(line) \in Nat /\ Len(line) >= 2 /\ Length(line) = C[Len(line)]
  BY DEF Length
<1>2. /\ \A i \in Segments(line) : i \in 1..Len(line) /\ i + 1 \in 1..Len(line)
      /\ \A i \in Segments(line) : i # 1 => i - 1 \in Segments(line)
  BY <1>1 DEF Segments
<1>3. \A i \in 1..Len(line) : C[i] \in Nat
  BY CumulativeGrows
<1>4. C[1] = 0
  BY <1>1, CumulativeSums
<1> HIDE DEF C
<1>5. Len(line) - 1 \in Past
  BY <1>1 DEF Segments
<1>6. PICK i \in Past : \A j \in Past : i <= j
  <2>1. Past \subseteq Nat
    BY DEF Segments
  <2> QED
    BY <1>5, <2>1, SmallestExists
<1>7. i \in Segments(line) /\ C[i + 1] > m /\ \A j \in 1..(i - 1) : C[j + 1] <= m
  <2>1. ASSUME NEW j \in 1..(i - 1) PROVE C[j + 1] <= m
    <3>1. j \in Segments(line) /\ j < i
      BY <1>1 DEF Segments
    <3>2. j \notin Past
      BY <1>6, <3>1 DEF Segments
    <3> QED
      BY <1>2, <1>3, <3>1, <3>2, SMTT(30)
  <2> QED
    BY <2>1
<1>8. /\ Segment(m) \in Segments(line)
      /\ C[Segment(m) + 1] > m /\ \A j \in 1..(Segment(m) - 1) : C[j + 1] <= m
  BY <1>7 DEF Segment, C
<1>9. C[Segment(m)] <= m
  <2>1. CASE Segment(m) = 1
    BY <1>4, <2>1
  <2>2. CASE Segment(m) # 1
    <3>1. Segment(m) - 1 \in 1..(Segment(m) - 1) /\ (Segment(m) - 1) + 1 = Segment(m)
      BY <1>8, <2>2, SMTT(30) DEF Segments
    <3> QED
      BY <1>8, <3>1
  <2> QED
    BY <2>1, <2>2
<1> QED
  BY <1>2, <1>3, <1>8, <1>9 DEF Covers, C

(* THE WALK: two fixes within a lap are no further from one another than   *)
(* the metres between them.                                                *)
LEMMA WalkIsSteady ==
  ASSUME line \in Seq(Int), NEW m \in Nat, NEW k \in Nat, m <= k, k < Length(line),
         Length(line) \in Nat
  PROVE  /\ Position(m) \in Int /\ Position(k) \in Int
         /\ Dist(Position(m), Position(k)) <= k - m
<1> DEFINE i == Segment(m)
           j == Segment(k)
<1>1. /\ Position(m) = On(line, i, m) /\ Position(k) = On(line, j, k)
  BY DEF Position, On
<1>2. m < Length(line)
  OBVIOUS
<1>3. Covers(line, i, m) /\ Covers(line, j, k) /\ Cumulative(line)[j + 1] > k
  BY <1>2, SegmentIsFound
<1> HIDE DEF i, j
<1>4. /\ i \in 1..Len(line) /\ j + 1 \in 1..Len(line) /\ i \in Nat /\ j \in Nat
      /\ Cumulative(line)[i] \in Nat /\ Cumulative(line)[i] <= m
      /\ Cumulative(line)[j + 1] \in Nat
  <2>1. i \in 1..Len(line) /\ Cumulative(line)[i] \in Nat
    BY <1>3, OnSegment
  <2>2. j \in 1..Len(line) /\ j + 1 \in 1..Len(line) /\ Cumulative(line)[j + 1] \in Nat
    BY <1>3, OnSegment
  <2> QED
    BY <1>3, <2>1, <2>2 DEF Covers
<1>5. ASSUME j < i PROVE FALSE
  <2>1. j + 1 <= i
    BY <1>4, <1>5
  <2>2. Cumulative(line)[j + 1] <= Cumulative(line)[i]
    BY <1>4, <2>1, CumulativeGrows
  <2> QED
    BY <1>3, <1>4, <2>2
<1>6. i <= j
  BY <1>4, <1>5
<1> QED
  BY <1>1, <1>3, <1>6, RoadIsContinuous

(* The loop and point_at_fraction may mean different segments where two    *)
(* meet, but never different points.                                       *)
LEMMA WalkIsPointAt ==
  ASSUME line \in Seq(Int), NEW m \in Nat, m < Length(line), Length(line) \in Nat
  PROVE  Position(m) = PointAt(line, m)
<1>1. Position(m) = On(line, Segment(m), m)
  BY DEF Position, On
<1>2. Covers(line, Segment(m), m)
  BY SegmentIsFound
<1> QED
  BY <1>1, <1>2, PointIsOn

LEMMA LengthIsNatural ==
  ASSUME line \in Seq(Int)
  PROVE  Length(line) \in Nat
<1>1. Len(line) < 2 => Length(line) = 0
  BY DEF Length
<1>2. Len(line) >= 2 => Length(line) = Cumulative(line)[Len(line)] /\ Len(line) \in 1..Len(line)
  BY DEF Length
<1> QED
  BY <1>1, <1>2, CumulativeGrows
-----------------------------------------------------------------------------
(* THE INDUCTIVE INVARIANT of the demo bus.                                *)
DemoTypes ==
  /\ line \in Roads /\ now \in Nat /\ meters \in Nat /\ clock \in Nat
  /\ status \in Seq({"active", "ended"})
  /\ trip \in 0..Len(status) \cup {Nothing}
  /\ position \in {Nothing} \cup [at : Int, ts : Nat, anomalous : BOOLEAN]

(* The trip of the task is active, and no other one is.                    *)
OneTrip ==
  /\ \A s, t \in Active : s = t
  /\ Running => Active = {trip}

(* Within a lap the last fix is one ping behind, in metres and in time; an *)
(* earlier task may have left any fix and any clock.                       *)
FixIsBehind ==
  Running =>
    /\ meters <= Length(line)
    /\ meters > 0 => /\ position.ts = clock
                     /\ \E m \in Nat : m + StepLength = meters /\ position.at = Position(m)

DemoInv == DemoTypes /\ OneTrip /\ FixIsBehind /\ OnlyFirstOfLapIsFlagged

LEMMA Numbers ==
  ASSUME DemoTypes
  PROVE  /\ line \in Seq(Int) /\ Length(line) \in Nat
         /\ {StepLength, TimeStep, MaxSpeed, MaxTime} \subseteq Nat
         /\ MaxSpeed * TimeStep \in Nat
         /\ Nothing \notin Nat
<1>1. line \in Seq(Int) /\ {StepLength, TimeStep, MaxSpeed, MaxTime} \subseteq Nat /\ Nothing \notin Nat
  BY DemoAssumption DEF DemoTypes
<1> QED
  BY <1>1, LengthIsNatural

LEMMA DemoStarts == DemoInit => DemoInv
<1> SUFFICES ASSUME DemoInit PROVE DemoInv
  OBVIOUS
<1>1. DemoTypes
  BY DEF DemoInit, DemoTypes
<1>2. Active = {} /\ ~Running
  BY DEF DemoInit, Active, Running
<1>3. OnlyFirstOfLapIsFlagged
  BY DEF DemoInit, OnlyFirstOfLapIsFlagged
<1> QED
  BY <1>1, <1>2, <1>3 DEF DemoInv, OneTrip, FixIsBehind

(* A task that starts ends the trip it finds active.                       *)
LEMMA StartIsSafe == ASSUME DemoInv, Start PROVE DemoInv'
<1> DEFINE new == Len(status) + 1
<1>1. /\ trip = 0 /\ trip' = new /\ meters' = 0 /\ clock' = now
      /\ UNCHANGED <<line, now, position>>
      /\ status' = Append([t \in 1..Len(status) |-> IF t \in Stale THEN "ended" ELSE status[t]],
                          "active")
  BY DEF Start
<1>2. /\ status \in Seq({"active", "ended"}) /\ Len(status) \in Nat
  BY DEF DemoInv, DemoTypes
<1>3. /\ status' \in Seq({"active", "ended"}) /\ Len(status') = new
      /\ status'[new] = "active"
      /\ \A t \in 1..Len(status) : status'[t] = IF t \in Stale THEN "ended" ELSE status[t]
  <2> DEFINE q == [t \in 1..Len(status) |-> IF t \in Stale THEN "ended" ELSE status[t]]
  <2>1. q \in [1..Len(status) -> {"active", "ended"}]
    BY <1>2
  <2>2. q \in Seq({"active", "ended"}) /\ Len(q) = Len(status)
    BY <1>2, <2>1
  <2>3. \A t \in 1..Len(status) : q[t] = IF t \in Stale THEN "ended" ELSE status[t]
    OBVIOUS
  <2> HIDE DEF q
  <2>4. status' = Append(q, "active")
    BY <1>1 DEF q
  <2> QED
    BY <2>2, <2>3, <2>4
<1>4. \A t \in Active : t \in Stale
  BY DEF DemoInv, OneTrip, Stale
<1>5. Active' = {new}
  <2>1. new \in Active'
    BY <1>2, <1>3 DEF Active
  <2>2. ASSUME NEW t \in Active', t # new PROVE FALSE
    <3>1. t \in 1..Len(status) /\ status'[t] = "active"
      BY <1>2, <1>3, <2>2 DEF Active
    <3>2. t \in Active
      BY <1>3, <3>1 DEF Active
    <3> QED
      BY <1>3, <1>4, <3>1, <3>2
  <2> QED
    BY <2>1, <2>2
<1>6. DemoTypes'
  BY <1>1, <1>2, <1>3 DEF DemoInv, DemoTypes
<1>7. OneTrip'
  BY <1>1, <1>5 DEF OneTrip
<1>8. FixIsBehind'
  <2>1. Length(line) \in Nat
    BY Numbers DEF DemoInv
  <2> QED
    BY <1>1, <2>1 DEF FixIsBehind
<1>9. OnlyFirstOfLapIsFlagged'
  BY <1>1 DEF DemoInv, OnlyFirstOfLapIsFlagged
<1> QED
  BY <1>6, <1>7, <1>8, <1>9 DEF DemoInv

(* A ping: the first of a lap is at the start of the road, any other one   *)
(* as far from the last as the pace of the bus allows.                     *)
LEMMA PingIsSafe == ASSUME DemoInv, Ping PROVE DemoInv'
<1> DEFINE x == Position(meters)
           ts == clock + TimeStep
<1>1. /\ Running /\ meters < Length(line)
      /\ position' = [at |-> x, ts |-> ts, anomalous |-> Anomalous(x, ts)]
      /\ clock' = ts /\ now' = now + 1 /\ meters' = Driven(meters + StepLength)
      /\ UNCHANGED <<line, trip, status>>
  BY DEF Ping
<1>2. /\ line \in Seq(Int) /\ Length(line) \in Nat /\ StepLength \in Nat /\ TimeStep \in Nat
      /\ MaxSpeed \in Nat /\ MaxSpeed * TimeStep \in Nat
      /\ meters \in Nat /\ clock \in Nat /\ now \in Nat
  BY Numbers DEF DemoInv, DemoTypes
<1>3. x \in Int
  BY <1>1, <1>2, WalkIsSteady
<1>4. Anomalous(x, ts) => x = line[1]
  <2>1. CASE meters = 0
    <3>1. x = PointAt(line, meters)
      BY <1>1, <1>2, WalkIsPointAt
    <3> QED
      BY <2>1, <3>1 DEF PointAt
  <2>2. CASE meters # 0
    <3>1. position.ts = clock
      BY <1>1, <1>2, <2>2 DEF DemoInv, FixIsBehind
    <3>2. Dist(position.at, x) \in Nat /\ Dist(position.at, x) <= StepLength
      <4>1. PICK m \in Nat : m + StepLength = meters /\ position.at = Position(m)
        BY <1>1, <1>2, <2>2 DEF DemoInv, FixIsBehind
      <4>2. m <= meters /\ meters - m = StepLength
        BY <1>2, <4>1
      <4>3. Position(m) \in Int /\ Dist(Position(m), x) <= meters - m
        BY <1>1, <1>2, <4>2, WalkIsSteady
      <4> QED
        BY <1>3, <4>1, <4>2, <4>3, DistIsMetric
    <3>3. ts - position.ts = TimeStep
      BY <1>2, <3>1
    <3>4. Dist(position.at, x) <= MaxSpeed * (ts - position.ts)
      <4>1. StepLength <= MaxSpeed * TimeStep
        BY DemoAssumption
      <4> HIDE DEF ts, x
      <4>2. Dist(position.at, x) <= MaxSpeed * TimeStep
        BY <1>2, <3>2, <4>1
      <4> QED
        BY <3>3, <4>2
    <3>5. MaxSpeed * (ts - position.ts) \in Nat
      BY <1>2, <3>3
    <3> HIDE DEF ts, x
    <3> QED
      BY <3>2, <3>4, <3>5 DEF Anomalous
  <2> QED
    BY <2>1, <2>2
<1> HIDE DEF x
<1>5. /\ position'.at = x /\ position'.ts = ts
      /\ position'.anomalous = Anomalous(x, ts) /\ Anomalous(x, ts) \in BOOLEAN
      /\ position' \in [at : Int, ts : Nat, anomalous : BOOLEAN]
  BY <1>1, <1>2, <1>3 DEF Anomalous
<1>6. meters' \in Nat /\ meters' <= Length(line)
      /\ (meters' > 0 => meters' = meters + StepLength)
  BY <1>1, <1>2 DEF Driven
<1>7. DemoTypes'
  BY <1>1, <1>2, <1>5, <1>6 DEF DemoInv, DemoTypes
<1>8. OneTrip'
  BY <1>1 DEF DemoInv, OneTrip, Active, Running
<1>9. FixIsBehind'
  <2>1. Length(line)' = Length(line) /\ \A m : Position(m)' = Position(m)
    BY <1>1 DEF Position, Segment
  <2>2. ASSUME meters' > 0
        PROVE  \E m \in Nat : m + StepLength = meters' /\ position'.at = Position(m)'
    BY <1>2, <1>5, <1>6, <2>1, <2>2 DEF x
  <2> QED
    BY <1>1, <1>5, <1>6, <2>1, <2>2 DEF FixIsBehind
<1>10. OnlyFirstOfLapIsFlagged'
  BY <1>1, <1>4, <1>5 DEF OnlyFirstOfLapIsFlagged
<1> QED
  BY <1>7, <1>8, <1>9, <1>10 DEF DemoInv

LEMMA RunsOffTheEndIsSafe == ASSUME DemoInv, RunsOffTheEnd PROVE DemoInv'
<1>1. trip' = Nothing /\ UNCHANGED <<line, now, status, meters, clock, position>>
  BY DEF RunsOffTheEnd
<1>2. DemoTypes' /\ ~Running'
  BY <1>1 DEF DemoInv, DemoTypes, Running
<1>3. OneTrip' /\ FixIsBehind'
  BY <1>1, <1>2 DEF DemoInv, OneTrip, Active, FixIsBehind
<1> QED
  BY <1>1, <1>2, <1>3 DEF DemoInv, OnlyFirstOfLapIsFlagged

(* Whatever position Redis keeps, the next task begins a lap.              *)
LEMMA RestartIsSafe == ASSUME DemoInv, NEW k \in 0..MaxTime, Restart(k) PROVE DemoInv'
<1>1. /\ trip' = 0 /\ now' = now + k /\ position' \in {position, Nothing}
      /\ UNCHANGED <<line, status, meters, clock>>
  BY DEF Restart
<1>2. k \in Nat
  BY Numbers DEF DemoInv
<1>3. DemoTypes' /\ ~Running'
  BY <1>1, <1>2 DEF DemoInv, DemoTypes, Running
<1>4. OneTrip' /\ FixIsBehind'
  BY <1>1, <1>3 DEF DemoInv, OneTrip, Active, FixIsBehind
<1>5. OnlyFirstOfLapIsFlagged'
  BY <1>1 DEF DemoInv, OnlyFirstOfLapIsFlagged
<1> QED
  BY <1>3, <1>4, <1>5 DEF DemoInv

LEMMA DemoKeepsInv == DemoInv /\ [DemoNext]_demoVars => DemoInv'
<1> SUFFICES ASSUME DemoInv, [DemoNext]_demoVars PROVE DemoInv'
  OBVIOUS
<1>1. CASE UNCHANGED demoVars
  <2>1. UNCHANGED <<line, now, trip, status, meters, clock, position>>
    BY <1>1 DEF demoVars
  <2>2. Length(line)' = Length(line) /\ \A m : Position(m)' = Position(m)
    BY <2>1 DEF Position, Segment
  <2>3. DemoTypes' /\ OneTrip' /\ OnlyFirstOfLapIsFlagged'
    BY <2>1 DEF DemoInv, DemoTypes, OneTrip, Active, Running, OnlyFirstOfLapIsFlagged
  <2>4. FixIsBehind'
    BY <2>1, <2>2 DEF DemoInv, FixIsBehind, Running
  <2> QED
    BY <2>3, <2>4 DEF DemoInv
<1> QED
  BY <1>1, StartIsSafe, PingIsSafe, RunsOffTheEndIsSafe, RestartIsSafe DEF DemoNext

(* Restarted as it may be, the demo bus has one active trip, its own; its  *)
(* walk along the road and point_at_fraction of geo.py agree on every      *)
(* road, at every distance; and no fix is flagged as implausibly fast but  *)
(* the first of a lap.                                                     *)
THEOREM DemoStaysSound == DemoSpec => []DemoIsSound
<1>1. DemoInv => DemoIsSound
  <2> SUFFICES ASSUME DemoInv PROVE DemoIsSound
    OBVIOUS
  <2>1. Cardinality(Active) <= 1
    <3>1. CASE Active = {}
      BY <3>1, FS_EmptySet
    <3>2. CASE Active # {}
      <4>1. PICK t : Active = {t}
        BY <3>2 DEF DemoInv, OneTrip
      <4> QED
        BY <4>1, FS_Singleton
    <3> QED
      BY <3>1, <3>2
  <2>2. DemoHasOneTrip
    BY <2>1 DEF DemoInv, OneTrip, DemoHasOneTrip
  <2>3. WalkMeetsGeometry
    BY Numbers, WalkIsPointAt DEF DemoInv, DemoTypes, WalkMeetsGeometry
  <2> QED
    BY <2>2, <2>3 DEF DemoInv, DemoIsSound
<1> QED
  BY <1>1, DemoStarts, DemoKeepsInv, PTL DEF DemoSpec

-----------------------------------------------------------------------------
(* What RouteRegistry keeps: every row has the line its build fetched, and *)
(* stops that insert made of it.                                           *)
IsRoad(from, to, road) ==
  IF osrm THEN \E d \in Int : road = <<At(to), d, At(from)>>
  ELSE road = <<At(from), (At(from) + At(to)) \div 2, At(to)>>

IsStops(from, to, road, s) ==
  /\ s \in Seq([village : Villages, progress : Int]) /\ Len(s) >= 2
  /\ s[1] = Stop(from, 0) /\ s[Len(s)] = Stop(to, Length(road))
  /\ \A i \in 2..(Len(s) - 1) :
       s[i].village \notin {from, to} /\ s[i].progress = Along(At(s[i].village), road)
  /\ \A i, j \in 2..(Len(s) - 1) :
       i < j => s[i].village # s[j].village /\ s[i].progress <= s[j].progress

RowRecords == [from : Villages, to : Villages, line : Seq(Int), status : {"unverified", "active"},
               stops : Seq([village : Villages, progress : Int])]

RowsAreBuilt ==
  \A r \in RouteRows : LET row == routes[r] IN
    /\ {row.from, row.to} \subseteq located /\ row.from # row.to
    /\ IsRoad(row.from, row.to, row.line)
    /\ IsStops(row.from, row.to, row.line, row.stops)

RouteTypes ==
  /\ osrm \in BOOLEAN /\ buildsWait \in BOOLEAN /\ located \subseteq Villages
  /\ routes \in Seq(RowRecords)
  /\ build \in [Builders -> {NoBuild}
       \cup [pc : {"fetch"}, from : Villages, to : Villages, server : Nat]
       \cup [pc : {"insert"}, from : Villages, to : Villages, line : Seq(Int)]]

BuildsAreSound ==
  \A w \in Builders :
    /\ build[w].pc # "idle" =>
         {build[w].from, build[w].to} \subseteq located /\ build[w].from # build[w].to
    /\ build[w].pc = "insert" => IsRoad(build[w].from, build[w].to, build[w].line)

(* Rows there are of a pair, and rows on their way, are never more than    *)
(* the requests that may overlap.                                          *)
Pending(from, to) ==
  {w \in Builders : build[w].pc # "idle" /\ build[w].from = from /\ build[w].to = to}

MaxOfPair == IF buildsWait THEN 1 ELSE Cardinality(Builders)

FewOfEachPair ==
  \A u, v \in Villages : Cardinality(Existing(u, v)) + Cardinality(Pending(u, v)) <= MaxOfPair

RouteInv == RouteTypes /\ RowsAreBuilt /\ BuildsAreSound /\ FewOfEachPair

LEMMA PlacesAreThere == ASSUME NEW v \in Villages PROVE At(v) \in Int
  BY RouteAssumption DEF At

(* Either kind of road has three vertices; the fallback's is straight.     *)
LEMMA RoadsAreRoads ==
  ASSUME NEW from \in Villages, NEW to \in Villages, NEW road, IsRoad(from, to, road)
  PROVE  /\ road \in Seq(Int) /\ Len(road) = 3 /\ Len(road) >= 2
         /\ ~osrm => \E m \in Int : /\ road = <<At(from), m, At(to)>>
                                    /\ Between(m, At(from), At(to))
<1>1. At(from) \in Int /\ At(to) \in Int
  BY PlacesAreThere
<1>2. CASE osrm
  <2>1. PICK d \in Int : road = <<At(to), d, At(from)>>
    BY <1>2 DEF IsRoad
  <2> QED
    BY <1>1, <1>2, <2>1
<1>3. CASE ~osrm
  <2>1. PICK m \in Int : m = (At(from) + At(to)) \div 2 /\ Between(m, At(from), At(to))
    BY <1>1, MiddleIsBetween
  <2>2. road = <<At(from), m, At(to)>>
    BY <1>3, <2>1 DEF IsRoad
  <2> QED
    BY <1>1, <2>1, <2>2
<1> QED
  BY <1>2, <1>3

(* THE SORT of the stops: any finite set of villages has an order in which *)
(* the progress never goes back.                                           *)
IsOrder(s, S, road) ==
  /\ s \in [1..Cardinality(S) -> S]
  /\ \A i, j \in 1..Cardinality(S) :
       i < j => s[i] # s[j] /\ Along(At(s[i]), road) <= Along(At(s[j]), road)

LEMMA OrderExists ==
  ASSUME NEW road \in Seq(Int), Len(road) >= 2, NEW S \in SUBSET Villages
  PROVE  \E s : IsOrder(s, S, road)
<1> DEFINE Key(v) == Along(At(v), road)
           Bad == {n \in Nat : \E T \in SUBSET S : Cardinality(T) = n /\ ~\E s : IsOrder(s, T, road)}
<1>1. \A v \in Villages : Key(v) \in Nat
  <2> SUFFICES ASSUME NEW v \in Villages PROVE Key(v) \in Nat
    OBVIOUS
  <2>1. At(v) \in Int
    BY PlacesAreThere
  <2>2. Length(road) \in Nat /\ Key(v) \in 0..Length(road)
    BY <2>1, AlongIsFirst
  <2> QED
    BY <2>2
<1>2. \A T \in SUBSET S : IsFiniteSet(T) /\ Cardinality(T) \in Nat
  BY RouteAssumption, FS_Subset, FS_CardinalityType
<1>3. ASSUME Bad # {} PROVE FALSE
  <2>1. PICK n \in Bad : \A k \in Bad : n <= k
    <3>1. Bad \subseteq Nat
      OBVIOUS
    <3> HIDE DEF Bad
    <3> QED
      BY <1>3, <3>1, SmallestExists
  <2>2. PICK T \in SUBSET S : Cardinality(T) = n /\ ~\E s : IsOrder(s, T, road)
    BY <2>1
  <2>3. n \in Nat /\ n # 0
    <3>1. ASSUME n = 0 PROVE FALSE
      <4>1. Cardinality(T) = 0 /\ T = {}
        BY <1>2, <2>2, <3>1, FS_EmptySet
      <4>2. IsOrder([i \in 1..0 |-> i], T, road)
        BY <4>1 DEF IsOrder
      <4> QED
        BY <2>2, <4>2
    <3> QED
      BY <2>1, <3>1
  <2>4. PICK v \in T : \A u \in T : Key(v) <= Key(u)
    <3> DEFINE K == {Key(u) : u \in T}
    <3>1. K \subseteq Nat /\ K # {}
      <4>1. T # {}
        BY <2>2, <2>3, FS_EmptySet
      <4> QED
        BY <1>1, <4>1
    <3>2. PICK k \in K : \A h \in K : k <= h
      <4> HIDE DEF K
      <4> QED
        BY <3>1, SmallestExists
    <3> QED
      BY <3>2
  <2> DEFINE U == T \ {v}
  <2>5. U \in SUBSET S /\ Cardinality(U) = n - 1
    BY <1>2, <2>2, <2>4, FS_RemoveElement
  <2>6. PICK t : IsOrder(t, U, road)
    <3>1. n - 1 \notin Bad /\ n - 1 \in Nat
      <4> HIDE DEF Bad
      <4> QED
        BY <2>1, <2>3
    <3> QED
      BY <2>5, <3>1
  <2> DEFINE s == [i \in 1..n |-> IF i = 1 THEN v ELSE t[i - 1]]
  <2>7. t \in [1..(n - 1) -> U] /\ \A i, j \in 1..(n - 1) :
          i < j => t[i] # t[j] /\ Key(t[i]) <= Key(t[j])
    BY <2>5, <2>6 DEF IsOrder
  <2>8. \A i \in 1..n : i # 1 => i - 1 \in 1..(n - 1) /\ s[i] = t[i - 1] /\ s[i] \in U
    BY <2>3, <2>7
  <2>9. s \in [1..n -> T]
    BY <2>4, <2>8
  <2>10. ASSUME NEW i \in 1..n, NEW j \in 1..n, i < j
         PROVE  s[i] # s[j] /\ Key(s[i]) <= Key(s[j])
    <3>1. j # 1 /\ s[j] = t[j - 1] /\ s[j] \in U /\ j - 1 \in 1..(n - 1)
      BY <2>3, <2>8, <2>10
    <3>2. CASE i = 1
      BY <2>4, <3>1, <3>2
    <3>3. CASE i # 1
      <4>1. s[i] = t[i - 1] /\ i - 1 \in 1..(n - 1) /\ i - 1 < j - 1
        BY <2>3, <2>8, <2>10, <3>3
      <4> QED
        BY <2>7, <3>1, <4>1
    <3> QED
      BY <3>2, <3>3
  <2> HIDE DEF s
  <2>11. IsOrder(s, T, road)
    BY <2>2, <2>9, <2>10 DEF IsOrder
  <2> QED
    BY <2>2, <2>11
<1>4. Cardinality(S) \notin Bad
  BY <1>3
<1> QED
  BY <1>2, <1>4

LEMMA ByProgressIsOrder ==
  ASSUME NEW road \in Seq(Int), Len(road) >= 2, NEW S \in SUBSET Villages
  PROVE  IsOrder(ByProgress(S, road), S, road)
<1>1. PICK s : IsOrder(s, S, road)
  BY OrderExists
<1>2. \E t \in [1..Cardinality(S) -> S] : \A i, j \in DOMAIN t :
        i < j => t[i] # t[j] /\ Along(At(t[i]), road) <= Along(At(t[j]), road)
  BY <1>1 DEF IsOrder
<1> QED
  BY <1>2 DEF ByProgress, IsOrder

(* What insert makes of a road.                                            *)
LEMMA StopsAreStops ==
  ASSUME NEW from \in Villages, NEW to \in Villages, located \subseteq Villages,
         NEW road \in Seq(Int), Len(road) >= 2
  PROVE  IsStops(from, to, road, Stops(from, to, road))
<1> DEFINE S == Snapped(from, to, road)
           n == Cardinality(S)
           near == ByProgress(S, road)
           mid == [i \in 1..Len(near) |-> Stop(near[i], Along(At(near[i]), road))]
           s == Stops(from, to, road)
<1>1. S \in SUBSET Villages /\ from \notin S /\ to \notin S
  BY DEF Snapped
<1>2. n \in Nat
  BY <1>1, RouteAssumption, FS_Subset, FS_CardinalityType
<1>3. /\ near \in [1..n -> S]
      /\ \A i, j \in 1..n :
           i < j => near[i] # near[j] /\ Along(At(near[i]), road) <= Along(At(near[j]), road)
  BY <1>1, ByProgressIsOrder DEF IsOrder
<1>4. Length(road) \in Nat /\ \A v \in Villages : Along(At(v), road) \in Int
  <2>1. Length(road) \in Nat
    BY CumulativeGrows DEF Length
  <2>2. ASSUME NEW v \in Villages PROVE Along(At(v), road) \in Int
    <3>1. At(v) \in Int
      BY PlacesAreThere
    <3>2. Along(At(v), road) \in 0..Length(road)
      BY <3>1, AlongIsFirst
    <3> QED
      BY <2>1, <3>2
  <2> QED
    BY <2>1, <2>2
<1> HIDE DEF S, n, near
<1>5. near \in Seq(S) /\ Len(near) = n
  BY <1>2, <1>3
<1>6. /\ mid \in Seq([village : Villages, progress : Int]) /\ Len(mid) = n
      /\ \A i \in 1..n : mid[i] = Stop(near[i], Along(At(near[i]), road))
  BY <1>1, <1>2, <1>3, <1>4, <1>5 DEF Stop
<1>7. s = <<Stop(from, 0)>> \o mid \o <<Stop(to, Length(road))>>
  BY DEF Stops, near, S
<1> HIDE DEF mid, s
<1>8. Stop(from, 0) \in [village : Villages, progress : Int]
      /\ Stop(to, Length(road)) \in [village : Villages, progress : Int]
  BY <1>4 DEF Stop
<1>9. /\ s \in Seq([village : Villages, progress : Int]) /\ Len(s) = n + 2
      /\ s[1] = Stop(from, 0) /\ s[n + 2] = Stop(to, Length(road))
      /\ \A i \in 2..(n + 1) : s[i] = mid[i - 1]
  BY <1>2, <1>6, <1>7, <1>8, SMTT(30)
<1>10. \A i \in 2..(n + 1) : /\ i - 1 \in 1..n /\ near[i - 1] \in S
                             /\ s[i].village = near[i - 1]
                             /\ s[i].progress = Along(At(near[i - 1]), road)
  BY <1>2, <1>3, <1>6, <1>9, SMTT(30) DEF Stop
<1>11. \A i, j \in 2..(n + 1) :
         i < j => s[i].village # s[j].village /\ s[i].progress <= s[j].progress
  <2> SUFFICES ASSUME NEW i \in 2..(n + 1), NEW j \in 2..(n + 1), i < j
               PROVE  s[i].village # s[j].village /\ s[i].progress <= s[j].progress
    OBVIOUS
  <2>1. i - 1 \in 1..n /\ j - 1 \in 1..n /\ i - 1 < j - 1
    BY <1>2
  <2> QED
    BY <1>3, <1>10, <2>1
<1>12. Len(s) - 1 = n + 1 /\ Len(s) >= 2 /\ s[Len(s)] = Stop(to, Length(road))
  BY <1>2, <1>9
<1>13. \A i \in 2..(Len(s) - 1) :
         s[i].village \notin {from, to} /\ s[i].progress = Along(At(s[i].village), road)
  BY <1>1, <1>10, <1>12
<1>14. \A i, j \in 2..(Len(s) - 1) :
         i < j => s[i].village # s[j].village /\ s[i].progress <= s[j].progress
  BY <1>11, <1>12
<1>15. IsStops(from, to, road, s)
  BY <1>9, <1>12, <1>13, <1>14 DEF IsStops
<1> QED
  BY <1>15 DEF s

(* All of it is finite.                                                    *)
LEMMA PairsAreCounted ==
  ASSUME RouteTypes, NEW u, NEW v
  PROVE  /\ IsFiniteSet(Existing(u, v)) /\ Cardinality(Existing(u, v)) \in Nat
         /\ IsFiniteSet(Pending(u, v)) /\ Cardinality(Pending(u, v)) \in Nat
         /\ Cardinality(Pending(u, v)) <= Cardinality(Builders) /\ Cardinality(Builders) \in Nat
<1>1. Existing(u, v) \in SUBSET (1..Len(routes)) /\ Len(routes) \in Nat
  BY DEF Existing, RouteRows, RouteTypes
<1>2. IsFiniteSet(1..Len(routes))
  BY <1>1, FS_Interval
<1>3. Pending(u, v) \in SUBSET Builders
  BY DEF Pending
<1> QED
  BY <1>1, <1>2, <1>3, RouteAssumption, FS_Subset, FS_CardinalityType

(* A step that adds no row and no request leaves few of each pair.         *)
LEMMA FewStayFew ==
  ASSUME RouteInv, UNCHANGED <<buildsWait, routes>>,
         \A u, v \in Villages : Pending(u, v)' \in SUBSET Pending(u, v)
  PROVE  FewOfEachPair'
<1> SUFFICES ASSUME NEW u \in Villages, NEW v \in Villages
             PROVE  Cardinality(Existing(u, v)') + Cardinality(Pending(u, v)') <= MaxOfPair'
  BY DEF FewOfEachPair
<1>1. Existing(u, v)' = Existing(u, v) /\ MaxOfPair' = MaxOfPair
  BY DEF Existing, RouteRows, MaxOfPair
<1>2. Pending(u, v)' \in SUBSET Pending(u, v)
  OBVIOUS
<1>3. /\ Cardinality(Existing(u, v)) \in Nat /\ IsFiniteSet(Pending(u, v))
      /\ Cardinality(Pending(u, v)) \in Nat /\ Cardinality(Builders) \in Nat
  BY PairsAreCounted DEF RouteInv
<1>4. Cardinality(Pending(u, v)') <= Cardinality(Pending(u, v)) /\ Cardinality(Pending(u, v)') \in Nat
  BY <1>2, <1>3, FS_Subset, FS_CardinalityType
<1>5. Cardinality(Existing(u, v)) + Cardinality(Pending(u, v)) <= MaxOfPair
  BY DEF RouteInv, FewOfEachPair
<1>6. MaxOfPair \in Nat
  BY <1>3 DEF MaxOfPair
<1> QED
  BY <1>1, <1>3, <1>4, <1>5, <1>6

LEMMA RoutesStart == RouteInit => RouteInv
<1> SUFFICES ASSUME RouteInit PROVE RouteInv
  OBVIOUS
<1>1. RouteTypes
  BY DEF RouteInit, RouteTypes
<1>2. RowsAreBuilt
  BY DEF RouteInit, RowsAreBuilt, RouteRows
<1>3. BuildsAreSound
  BY DEF RouteInit, BuildsAreSound, NoBuild
<1>4. FewOfEachPair
  <2> SUFFICES ASSUME NEW u \in Villages, NEW v \in Villages
               PROVE  Cardinality(Existing(u, v)) + Cardinality(Pending(u, v)) <= MaxOfPair
    BY DEF FewOfEachPair
  <2>1. Existing(u, v) = {} /\ Pending(u, v) = {}
    BY DEF RouteInit, Existing, RouteRows, Pending, NoBuild
  <2>2. Cardinality(Builders) \in Nat
    BY <1>1, PairsAreCounted
  <2> QED
    BY <2>1, <2>2, FS_EmptySet DEF MaxOfPair
<1> QED
  BY <1>1, <1>2, <1>3, <1>4 DEF RouteInv

LEMMA LocateIsSafe == ASSUME RouteInv, NEW v \in Villages, LocateVillage(v) PROVE RouteInv'
<1>1. located' = located \cup {v} /\ UNCHANGED <<osrm, buildsWait, routes, build>>
  BY DEF LocateVillage
<1>2. RouteTypes'
  BY <1>1 DEF RouteInv, RouteTypes
<1>3. RowsAreBuilt'
  BY <1>1 DEF RouteInv, RowsAreBuilt, RouteRows, IsRoad
<1>4. BuildsAreSound'
  BY <1>1 DEF RouteInv, BuildsAreSound, IsRoad
<1>5. FewOfEachPair'
  BY <1>1, FewStayFew DEF Pending
<1> QED
  BY <1>2, <1>3, <1>4, <1>5 DEF RouteInv

(* A request is taken while the pair has no row: whatever else is on its   *)
(* way for this pair, it is one of the requests there may be.              *)
LEMMA BuildIsSafe ==
  ASSUME RouteInv, NEW w \in Builders, NEW from \in Villages, NEW to \in Villages, Build(w, from, to)
  PROVE  RouteInv'
<1> DEFINE new == [pc |-> "fetch", from |-> from, to |-> to, server |-> 1]
<1>1. /\ build[w] = NoBuild /\ {from, to} \subseteq located /\ from # to /\ Existing(from, to) = {}
      /\ buildsWait => \A v \in Builders : build[v] = NoBuild
      /\ build' = [build EXCEPT ![w] = new]
      /\ UNCHANGED <<osrm, buildsWait, located, routes>>
  BY DEF Build, Buildable
<1>2. /\ build \in [Builders -> {NoBuild}
           \cup [pc : {"fetch"}, from : Villages, to : Villages, server : Nat]
           \cup [pc : {"insert"}, from : Villages, to : Villages, line : Seq(Int)]]
      /\ RouteTypes
  BY DEF RouteInv, RouteTypes
<1>3. build'[w] = new /\ \A v \in Builders : v # w => build'[v] = build[v]
  BY <1>1, <1>2
<1>4. RouteTypes'
  <2>1. new \in [pc : {"fetch"}, from : Villages, to : Villages, server : Nat]
    OBVIOUS
  <2> HIDE DEF new
  <2> QED
    BY <1>1, <1>2, <2>1 DEF RouteTypes
<1>5. RowsAreBuilt'
  BY <1>1 DEF RouteInv, RowsAreBuilt, RouteRows, IsRoad
<1>6. BuildsAreSound'
  <2> SUFFICES ASSUME NEW v \in Builders
               PROVE /\ build'[v].pc # "idle" =>
                          {build'[v].from, build'[v].to} \subseteq located /\ build'[v].from # build'[v].to
                     /\ build'[v].pc = "insert" => IsRoad(build'[v].from, build'[v].to, build'[v].line)
    BY <1>1 DEF BuildsAreSound, IsRoad
  <2>1. CASE v = w
    BY <1>1, <1>3, <2>1
  <2>2. CASE v # w
    BY <1>3, <2>2 DEF RouteInv, BuildsAreSound
  <2> QED
    BY <2>1, <2>2
<1>7. FewOfEachPair'
  <2> SUFFICES ASSUME NEW u \in Villages, NEW v \in Villages
               PROVE  Cardinality(Existing(u, v)') + Cardinality(Pending(u, v)') <= MaxOfPair'
    BY DEF FewOfEachPair
  <2>1. Existing(u, v)' = Existing(u, v) /\ MaxOfPair' = MaxOfPair
    BY <1>1 DEF Existing, RouteRows, MaxOfPair
  <2>2. CASE u = from /\ v = to
    <3>1. Existing(u, v)' = {} /\ Cardinality(Existing(u, v)') = 0
      BY <1>1, <2>1, <2>2, FS_EmptySet
    <3>2. Pending(u, v)' \in SUBSET Builders
      BY DEF Pending
    <3>3. Cardinality(Pending(u, v)') <= Cardinality(Builders) /\ Cardinality(Pending(u, v)') \in Nat
      BY <3>2, RouteAssumption, FS_Subset, FS_CardinalityType
    <3>4. ASSUME buildsWait PROVE Cardinality(Pending(u, v)') = 1
      <4>1. Pending(u, v)' = {w}
        BY <1>1, <1>3, <2>2, <3>4 DEF Pending, NoBuild
      <4> QED
        BY <4>1, FS_Singleton
    <3>5. Cardinality(Builders) \in Nat
      BY RouteAssumption, FS_CardinalityType
    <3> QED
      BY <2>1, <3>1, <3>3, <3>4, <3>5 DEF MaxOfPair
  <2>3. CASE ~(u = from /\ v = to)
    <3>1. Pending(u, v)' = Pending(u, v)
      BY <1>1, <1>3, <2>3 DEF Pending, NoBuild
    <3> QED
      BY <2>1, <3>1 DEF RouteInv, FewOfEachPair
  <2> QED
    BY <2>2, <2>3
<1> QED
  BY <1>4, <1>5, <1>6, <1>7 DEF RouteInv

LEMMA FetchIsSafe ==
  ASSUME RouteInv, NEW w \in Builders, NEW d \in Int, Fetch(w, d)
  PROVE  RouteInv'
<1> DEFINE t == build[w]
           road == Polyline(t.from, t.to, d)
           new == [pc |-> "insert", from |-> t.from, to |-> t.to, line |-> road]
<1>1. /\ t.pc = "fetch" /\ build' = [build EXCEPT ![w] = new]
      /\ UNCHANGED <<osrm, buildsWait, located, routes>>
  BY DEF Fetch
<1>2. /\ build \in [Builders -> {NoBuild}
           \cup [pc : {"fetch"}, from : Villages, to : Villages, server : Nat]
           \cup [pc : {"insert"}, from : Villages, to : Villages, line : Seq(Int)]]
      /\ RouteTypes
  BY DEF RouteInv, RouteTypes
<1>3. t.from \in Villages /\ t.to \in Villages /\ {t.from, t.to} \subseteq located /\ t.from # t.to
  <2>1. t.pc # "idle" /\ t.pc # "insert"
    BY <1>1
  <2>2. t # NoBuild
    BY <2>1 DEF NoBuild
  <2>3. t \in [pc : {"fetch"}, from : Villages, to : Villages, server : Nat]
    BY <1>2, <2>1, <2>2
  <2> QED
    BY <2>1, <2>3 DEF RouteInv, BuildsAreSound
<1>4. IsRoad(t.from, t.to, road) /\ road \in Seq(Int)
  <2>1. IsRoad(t.from, t.to, road)
    BY DEF Polyline, IsRoad
  <2> HIDE DEF t, road
  <2> QED
    BY <1>3, <2>1, RoadsAreRoads
<1>5. build'[w] = new /\ \A v \in Builders : v # w => build'[v] = build[v]
  BY <1>1, <1>2
<1> HIDE DEF road
<1>6. RouteTypes'
  <2>1. new \in [pc : {"insert"}, from : Villages, to : Villages, line : Seq(Int)]
    BY <1>3, <1>4
  <2> HIDE DEF new, t
  <2> QED
    BY <1>1, <1>2, <2>1 DEF RouteTypes
<1>7. RowsAreBuilt'
  BY <1>1 DEF RouteInv, RowsAreBuilt, RouteRows, IsRoad
<1>8. BuildsAreSound'
  <2> SUFFICES ASSUME NEW v \in Builders
               PROVE /\ build'[v].pc # "idle" =>
                          {build'[v].from, build'[v].to} \subseteq located /\ build'[v].from # build'[v].to
                     /\ build'[v].pc = "insert" => IsRoad(build'[v].from, build'[v].to, build'[v].line)
    BY <1>1 DEF BuildsAreSound, IsRoad
  <2>1. CASE v = w
    <3> HIDE DEF t
    <3>1. build'[v].from = t.from /\ build'[v].to = t.to /\ build'[v].line = road
      BY <1>5, <2>1
    <3> QED
      BY <1>3, <1>4, <3>1
  <2>2. CASE v # w
    BY <1>5, <2>2 DEF RouteInv, BuildsAreSound
  <2> QED
    BY <2>1, <2>2
<1>9. FewOfEachPair'
  <2>1. \A u, v \in Villages : Pending(u, v)' \in SUBSET Pending(u, v)
    BY <1>1, <1>5 DEF Pending
  <2> QED
    BY <1>1, <2>1, FewStayFew
<1> QED
  BY <1>6, <1>7, <1>8, <1>9 DEF RouteInv

LEMMA FetchFailsIsSafe == ASSUME RouteInv, NEW w \in Builders, FetchFails(w) PROVE RouteInv'
<1> DEFINE t == build[w]
           new == IF t.server < Servers THEN [t EXCEPT !.server = t.server + 1] ELSE NoBuild
<1>1. /\ t.pc = "fetch" /\ build' = [build EXCEPT ![w] = new]
      /\ UNCHANGED <<osrm, buildsWait, located, routes>>
  <2>1. /\ t.pc = "fetch" /\ UNCHANGED <<osrm, buildsWait, located, routes>>
        /\ build' = IF t.server < Servers THEN [build EXCEPT ![w].server = t.server + 1]
                    ELSE [build EXCEPT ![w] = NoBuild]
    BY DEF FetchFails
  <2>2. [build EXCEPT ![w].server = t.server + 1] = [build EXCEPT ![w] = [t EXCEPT !.server = t.server + 1]]
    OBVIOUS
  <2> QED
    BY <2>1, <2>2
<1>2. /\ build \in [Builders -> {NoBuild}
           \cup [pc : {"fetch"}, from : Villages, to : Villages, server : Nat]
           \cup [pc : {"insert"}, from : Villages, to : Villages, line : Seq(Int)]]
      /\ RouteTypes
  BY DEF RouteInv, RouteTypes
<1>3. t \in [pc : {"fetch"}, from : Villages, to : Villages, server : Nat]
  <2>1. t.pc # "idle" /\ t.pc # "insert"
    BY <1>1
  <2>2. t # NoBuild
    BY <2>1 DEF NoBuild
  <2> QED
    BY <1>2, <2>1, <2>2
<1>4. {t.from, t.to} \subseteq located /\ t.from # t.to
  BY <1>1 DEF RouteInv, BuildsAreSound
<1>5. build'[w] = new /\ \A v \in Builders : v # w => build'[v] = build[v]
  BY <1>1, <1>2
<1> HIDE DEF t
<1>6. \/ new = NoBuild
      \/ /\ new \in [pc : {"fetch"}, from : Villages, to : Villages, server : Nat]
         /\ new.from = t.from /\ new.to = t.to
  BY <1>3
<1> HIDE DEF new
<1>7. RouteTypes'
  BY <1>1, <1>2, <1>6 DEF RouteTypes
<1>8. RowsAreBuilt'
  BY <1>1 DEF RouteInv, RowsAreBuilt, RouteRows, IsRoad
<1>9. BuildsAreSound'
  <2> SUFFICES ASSUME NEW v \in Builders
               PROVE /\ build'[v].pc # "idle" =>
                          {build'[v].from, build'[v].to} \subseteq located /\ build'[v].from # build'[v].to
                     /\ build'[v].pc = "insert" => IsRoad(build'[v].from, build'[v].to, build'[v].line)
    BY <1>1 DEF BuildsAreSound, IsRoad
  <2>1. CASE v = w
    <3>1. new.pc # "insert"
      BY <1>6 DEF NoBuild
    <3>2. new.pc # "idle" => new.from = t.from /\ new.to = t.to
      BY <1>6 DEF NoBuild
    <3> QED
      BY <1>4, <1>5, <2>1, <3>1, <3>2
  <2>2. CASE v # w
    BY <1>5, <2>2 DEF RouteInv, BuildsAreSound
  <2> QED
    BY <2>1, <2>2
<1>10. FewOfEachPair'
  <2>1. new.pc # "idle" => new.from = t.from /\ new.to = t.to
    BY <1>6 DEF NoBuild
  <2>2. t.pc # "idle"
    BY <1>1
  <2>3. \A u, v \in Villages : Pending(u, v)' \in SUBSET Pending(u, v)
    BY <1>5, <2>1, <2>2 DEF Pending, t
  <2> QED
    BY <1>1, <2>3, FewStayFew
<1> QED
  BY <1>7, <1>8, <1>9, <1>10 DEF RouteInv

(* A request becomes a row: one less on its way, one more there.           *)
LEMMA InsertIsSafe == ASSUME RouteInv, NEW w \in Builders, Insert(w) PROVE RouteInv'
<1> DEFINE t == build[w]
           n == Len(routes)
           row == [from |-> t.from, to |-> t.to, line |-> t.line, status |-> "unverified",
                   stops |-> Stops(t.from, t.to, t.line)]
<1>1. /\ t.pc = "insert" /\ routes' = Append(routes, row)
      /\ build' = [build EXCEPT ![w] = NoBuild]
      /\ UNCHANGED <<osrm, buildsWait, located>>
  BY DEF Insert
<1>2. /\ build \in [Builders -> {NoBuild}
           \cup [pc : {"fetch"}, from : Villages, to : Villages, server : Nat]
           \cup [pc : {"insert"}, from : Villages, to : Villages, line : Seq(Int)]]
      /\ RouteTypes /\ n \in Nat /\ routes \in Seq(RowRecords) /\ located \subseteq Villages
  BY DEF RouteInv, RouteTypes
<1>3. t \in [pc : {"insert"}, from : Villages, to : Villages, line : Seq(Int)]
  <2>1. t.pc # "idle" /\ t.pc # "fetch"
    BY <1>1
  <2>2. t # NoBuild
    BY <2>1 DEF NoBuild
  <2> QED
    BY <1>2, <2>1, <2>2
<1>4. /\ {t.from, t.to} \subseteq located /\ t.from # t.to
      /\ IsRoad(t.from, t.to, t.line)
  BY <1>1 DEF RouteInv, BuildsAreSound
<1>5. build'[w] = NoBuild /\ \A v \in Builders : v # w => build'[v] = build[v]
  BY <1>1, <1>2
<1>6. IsStops(t.from, t.to, t.line, Stops(t.from, t.to, t.line))
  <2> HIDE DEF t
  <2>1. t.line \in Seq(Int) /\ Len(t.line) >= 2
    BY <1>3, <1>4, RoadsAreRoads
  <2> QED
    BY <1>2, <1>3, <2>1, StopsAreStops
<1>7. row \in RowRecords
  <2> HIDE DEF t
  <2>1. Stops(t.from, t.to, t.line) \in Seq([village : Villages, progress : Int])
    BY <1>6 DEF IsStops
  <2> QED
    BY <1>3, <2>1 DEF RowRecords
<1>8. /\ row.from = t.from /\ row.to = t.to /\ row.line = t.line
      /\ row.stops = Stops(t.from, t.to, t.line)
  OBVIOUS
<1> HIDE DEF row
<1>9. /\ Len(routes') = n + 1 /\ routes'[n + 1] = row
      /\ \A r \in 1..n : routes'[r] = routes[r]
      /\ routes' \in Seq(RowRecords)
  BY <1>1, <1>2, <1>7
<1>10. RouteTypes'
  BY <1>1, <1>2, <1>9 DEF RouteTypes
<1>11. RowsAreBuilt'
  <2> SUFFICES ASSUME NEW r \in 1..(n + 1)
               PROVE  LET row_ == routes'[r] IN
                        /\ {row_.from, row_.to} \subseteq located /\ row_.from # row_.to
                        /\ IsRoad(row_.from, row_.to, row_.line)
                        /\ IsStops(row_.from, row_.to, row_.line, row_.stops)
    BY <1>1, <1>9 DEF RowsAreBuilt, RouteRows, IsRoad
  <2>1. CASE r = n + 1
    <3> HIDE DEF t
    <3> QED
      BY <1>4, <1>6, <1>8, <1>9, <2>1
  <2>2. CASE r # n + 1
    <3>1. r \in RouteRows /\ routes'[r] = routes[r]
      BY <1>2, <1>9, <2>2 DEF RouteRows
    <3> QED
      BY <3>1 DEF RouteInv, RowsAreBuilt
  <2> QED
    BY <2>1, <2>2
<1>12. BuildsAreSound'
  <2> SUFFICES ASSUME NEW v \in Builders
               PROVE /\ build'[v].pc # "idle" =>
                          {build'[v].from, build'[v].to} \subseteq located /\ build'[v].from # build'[v].to
                     /\ build'[v].pc = "insert" => IsRoad(build'[v].from, build'[v].to, build'[v].line)
    BY <1>1 DEF BuildsAreSound, IsRoad
  <2>1. CASE v = w
    BY <1>5, <2>1 DEF NoBuild
  <2>2. CASE v # w
    BY <1>5, <2>2 DEF RouteInv, BuildsAreSound
  <2> QED
    BY <2>1, <2>2
<1>13. FewOfEachPair'
  <2> SUFFICES ASSUME NEW u \in Villages, NEW v \in Villages
               PROVE  Cardinality(Existing(u, v)') + Cardinality(Pending(u, v)') <= MaxOfPair'
    BY DEF FewOfEachPair
  <2>1. MaxOfPair' = MaxOfPair /\ MaxOfPair \in Nat
    BY <1>1, <1>2, PairsAreCounted DEF MaxOfPair
  <2>2. /\ IsFiniteSet(Existing(u, v)) /\ Cardinality(Existing(u, v)) \in Nat
        /\ IsFiniteSet(Pending(u, v)) /\ Cardinality(Pending(u, v)) \in Nat
    BY <1>2, PairsAreCounted
  <2>3. Cardinality(Existing(u, v)) + Cardinality(Pending(u, v)) <= MaxOfPair
    BY DEF RouteInv, FewOfEachPair
  <2>4. \A r \in 1..n : r \in Existing(u, v)' <=> r \in Existing(u, v)
    BY <1>2, <1>9 DEF Existing, RouteRows
  <2>5. Existing(u, v) \subseteq 1..n /\ Existing(u, v)' \subseteq 1..(n + 1) /\ n + 1 \notin 1..n
    BY <1>2, <1>9 DEF Existing, RouteRows
  <2>6. n + 1 \in Existing(u, v)' <=> (t.from = u /\ t.to = v)
    BY <1>2, <1>8, <1>9 DEF Existing, RouteRows
  <2>7. CASE t.from = u /\ t.to = v
    <3>1. Existing(u, v)' = Existing(u, v) \cup {n + 1}
      BY <1>2, <2>4, <2>5, <2>6, <2>7
    <3>2. w \in Pending(u, v) /\ Pending(u, v)' = Pending(u, v) \ {w}
      BY <1>1, <1>5, <2>7 DEF Pending, NoBuild
    <3>3. Cardinality(Existing(u, v)') = Cardinality(Existing(u, v)) + 1
      BY <2>2, <2>5, <3>1, FS_AddElement
    <3>4. Cardinality(Pending(u, v)') = Cardinality(Pending(u, v)) - 1
      <4>1. PICK P : P = Pending(u, v)
        OBVIOUS
      <4>2. Cardinality(P \ {w}) = Cardinality(P) - 1
        BY <2>2, <3>2, <4>1, FS_RemoveElement
      <4> QED
        BY <3>2, <4>1, <4>2
    <3> QED
      BY <2>1, <2>2, <2>3, <3>3, <3>4
  <2>8. CASE ~(t.from = u /\ t.to = v)
    <3>1. Existing(u, v)' = Existing(u, v)
      <4>1. n + 1 \notin Existing(u, v)'
        BY <2>6, <2>8
      <4>2. \A r \in 1..(n + 1) : r = n + 1 \/ r \in 1..n
        BY <1>2
      <4>3. \A r : r \in Existing(u, v)' <=> r \in Existing(u, v)
        BY <2>4, <2>5, <4>1, <4>2
      <4> QED
        BY <4>3
    <3>2. Pending(u, v)' = Pending(u, v)
      BY <1>1, <1>5, <2>8 DEF Pending, NoBuild
    <3> QED
      BY <2>1, <2>3, <3>1, <3>2
  <2> QED
    BY <2>7, <2>8
<1> QED
  BY <1>10, <1>11, <1>12, <1>13 DEF RouteInv

LEMMA VerifyIsSafe == ASSUME RouteInv, NEW r, VerifyRoute(r) PROVE RouteInv'
<1>1. /\ r \in RouteRows /\ routes' = [routes EXCEPT ![r].status = "active"]
      /\ UNCHANGED <<osrm, buildsWait, located, build>>
  BY DEF VerifyRoute
<1>2. routes \in Seq(RowRecords) /\ Len(routes) \in Nat /\ r \in 1..Len(routes)
  BY <1>1 DEF RouteInv, RouteTypes, RouteRows
<1>3. /\ Len(routes') = Len(routes) /\ routes' \in Seq(RowRecords)
      /\ \A q \in 1..Len(routes) :
           /\ routes'[q].from = routes[q].from /\ routes'[q].to = routes[q].to
           /\ routes'[q].line = routes[q].line /\ routes'[q].stops = routes[q].stops
  <2>1. routes[r] \in RowRecords
    BY <1>2
  <2>2. [routes[r] EXCEPT !.status = "active"] \in RowRecords
    BY <2>1 DEF RowRecords
  <2>3. routes' = [routes EXCEPT ![r] = [routes[r] EXCEPT !.status = "active"]]
    BY <1>1
  <2>4. \A q \in 1..Len(routes) : routes[q] \in RowRecords
    BY <1>2
  <2>5. Len(routes') = Len(routes) /\ routes' \in Seq(RowRecords)
    BY <1>2, <2>2, <2>3
  <2>6. \A q \in 1..Len(routes) :
          routes'[q] = IF q = r THEN [routes[r] EXCEPT !.status = "active"] ELSE routes[q]
    BY <1>2, <2>3
  <2>7. ASSUME NEW q \in 1..Len(routes)
        PROVE  /\ routes'[q].from = routes[q].from /\ routes'[q].to = routes[q].to
               /\ routes'[q].line = routes[q].line /\ routes'[q].stops = routes[q].stops
    <3>1. CASE q = r
      <4>1. routes'[q] = [routes[r] EXCEPT !.status = "active"]
        BY <2>6, <3>1
      <4> QED
        BY <2>1, <3>1, <4>1 DEF RowRecords
    <3>2. CASE q # r
      BY <2>6, <3>2
    <3> QED
      BY <3>1, <3>2
  <2> QED
    BY <2>5, <2>7
<1>4. RouteTypes'
  BY <1>1, <1>3 DEF RouteInv, RouteTypes
<1>5. RowsAreBuilt'
  BY <1>1, <1>3 DEF RouteInv, RowsAreBuilt, RouteRows, IsRoad
<1>6. BuildsAreSound'
  BY <1>1 DEF RouteInv, BuildsAreSound, IsRoad
<1>7. FewOfEachPair'
  <2> SUFFICES ASSUME NEW u \in Villages, NEW v \in Villages
               PROVE  Cardinality(Existing(u, v)') + Cardinality(Pending(u, v)') <= MaxOfPair'
    BY DEF FewOfEachPair
  <2>1. Existing(u, v)' = Existing(u, v) /\ Pending(u, v)' = Pending(u, v) /\ MaxOfPair' = MaxOfPair
    BY <1>1, <1>3 DEF Existing, RouteRows, Pending, MaxOfPair
  <2> QED
    BY <2>1 DEF RouteInv, FewOfEachPair
<1> QED
  BY <1>4, <1>5, <1>6, <1>7 DEF RouteInv

LEMMA RoutesKeepInv == RouteInv /\ [RouteNext]_routeVars => RouteInv'
<1> SUFFICES ASSUME RouteInv, [RouteNext]_routeVars PROVE RouteInv'
  OBVIOUS
<1>1. CASE UNCHANGED routeVars
  <2>1. UNCHANGED <<osrm, buildsWait, located, routes, build>>
    BY <1>1 DEF routeVars
  <2>2. RouteTypes' /\ RowsAreBuilt' /\ BuildsAreSound'
    BY <2>1 DEF RouteInv, RouteTypes, RowsAreBuilt, RouteRows, BuildsAreSound, IsRoad
  <2>3. FewOfEachPair'
    BY <2>1, FewStayFew DEF Pending
  <2> QED
    BY <2>2, <2>3 DEF RouteInv
<1>2. CASE \E v \in Villages : LocateVillage(v)
  BY <1>2, LocateIsSafe
<1>3. CASE \E w \in Builders : \E p \in Requests : Build(w, p[1], p[2])
  <2>1. PICK w \in Builders, p \in Requests : Build(w, p[1], p[2])
    BY <1>3
  <2>2. p[1] \in Villages /\ p[2] \in Villages
    BY RouteAssumption
  <2> QED
    BY <2>1, <2>2, BuildIsSafe
<1>4. CASE \E w \in Builders : \E d \in Detours : Fetch(w, d)
  BY <1>4, RouteAssumption, FetchIsSafe
<1>5. CASE \E w \in Builders : FetchFails(w) \/ Insert(w)
  BY <1>5, FetchFailsIsSafe, InsertIsSafe
<1>6. CASE \E r \in 1..MaxRoutes : VerifyRoute(r)
  BY <1>6, VerifyIsSafe
<1> QED
  BY <1>1, <1>2, <1>3, <1>4, <1>5, <1>6 DEF RouteNext

LEMMA RoutesAreInv == RouteSpec => []RouteInv
  BY RoutesStart, RoutesKeepInv, PTL DEF RouteSpec
-----------------------------------------------------------------------------
(* What holds of a row.                                                    *)
LEMMA RowIs ==
  ASSUME RouteInv, NEW r \in RouteRows
  PROVE  /\ routes[r].from \in Villages /\ routes[r].to \in Villages
         /\ routes[r].from # routes[r].to /\ {routes[r].from, routes[r].to} \subseteq located
         /\ routes[r].status \in {"unverified", "active"}
         /\ IsRoad(routes[r].from, routes[r].to, routes[r].line)
         /\ routes[r].line \in Seq(Int) /\ Len(routes[r].line) >= 2
         /\ IsStops(routes[r].from, routes[r].to, routes[r].line, routes[r].stops)
<1>1. routes[r] \in RowRecords
  BY DEF RouteInv, RouteTypes, RouteRows
<1>2. /\ routes[r].from # routes[r].to /\ {routes[r].from, routes[r].to} \subseteq located
      /\ IsRoad(routes[r].from, routes[r].to, routes[r].line)
      /\ IsStops(routes[r].from, routes[r].to, routes[r].line, routes[r].stops)
  BY DEF RouteInv, RowsAreBuilt
<1>3. /\ routes[r].from \in Villages /\ routes[r].to \in Villages
      /\ routes[r].status \in {"unverified", "active"} /\ routes[r].line \in Seq(Int)
  BY <1>1 DEF RowRecords
<1>4. Len(routes[r].line) >= 2
  BY <1>2, <1>3, RoadsAreRoads
<1> QED
  BY <1>2, <1>3, <1>4

LEMMA StopsAreOrdered ==
  ASSUME NEW from \in Villages, NEW to \in Villages, from # to,
         NEW road \in Seq(Int), Len(road) >= 2, NEW s, IsStops(from, to, road, s)
  PROVE  /\ Len(s) \in Nat /\ Len(s) >= 2 /\ Length(road) \in Nat
         /\ s[1] = Stop(from, 0) /\ s[Len(s)] = Stop(to, Length(road))
         /\ \A i \in 1..Len(s) : s[i].village \in Villages /\ s[i].progress \in 0..Length(road)
         /\ \A i, j \in 1..Len(s) : i < j =>
              s[i].progress <= s[j].progress /\ s[i].village # s[j].village
<1> DEFINE n == Len(s)
<1>1. /\ s \in Seq([village : Villages, progress : Int]) /\ n \in Nat /\ n >= 2
      /\ s[1] = Stop(from, 0) /\ s[n] = Stop(to, Length(road))
      /\ \A i \in 2..(n - 1) :
           s[i].village \notin {from, to} /\ s[i].progress = Along(At(s[i].village), road)
      /\ \A i, j \in 2..(n - 1) :
           i < j => s[i].village # s[j].village /\ s[i].progress <= s[j].progress
  <2>1. s \in Seq([village : Villages, progress : Int])
    BY DEF IsStops
  <2>2. n \in Nat
    BY <2>1
  <2> QED
    BY <2>1, <2>2 DEF IsStops
<1>2. Length(road) \in Nat
  BY CumulativeGrows DEF Length
<1>3. /\ s[1].village = from /\ s[1].progress = 0
      /\ s[n].village = to /\ s[n].progress = Length(road)
  BY <1>1 DEF Stop
<1>4. \A i \in 1..n : s[i].village \in Villages /\ s[i].progress \in Int
  <2>1. s \in Seq([village : Villages, progress : Int])
    BY <1>1
  <2>2. ASSUME NEW i \in 1..n PROVE s[i].village \in Villages /\ s[i].progress \in Int
    <3>1. s[i] \in [village : Villages, progress : Int]
      <4> DEFINE R == [village : Villages, progress : Int]
      <4>1. s \in Seq(R) /\ i \in 1..Len(s)
        BY <2>1
      <4> HIDE DEF R
      <4>2. s[i] \in R
        BY <4>1
      <4> QED
        BY <4>2 DEF R
    <3> QED
      BY <3>1
  <2> QED
    BY <2>2
<1> HIDE DEF n
<1>5. ASSUME NEW i \in 2..(n - 1) PROVE s[i].progress \in 0..Length(road)
  <2>1. i \in 1..n
    BY <1>1
  <2>2. At(s[i].village) \in Int
    BY <1>4, <2>1, PlacesAreThere
  <2> QED
    BY <1>1, <2>2, AlongIsFirst
<1>6. \A i \in 1..n : i = 1 \/ i = n \/ i \in 2..(n - 1)
  BY <1>1
<1>7. ASSUME NEW i \in 1..n PROVE s[i].progress \in 0..Length(road)
  BY <1>2, <1>3, <1>5, <1>6
<1>8. ASSUME NEW i \in 1..n, NEW j \in 1..n, i < j
      PROVE  s[i].progress <= s[j].progress /\ s[i].village # s[j].village
  <2>1. /\ s[i].progress \in Int /\ 0 <= s[i].progress /\ s[i].progress <= Length(road)
        /\ s[j].progress \in Int /\ 0 <= s[j].progress /\ s[j].progress <= Length(road)
    BY <1>2, <1>7
  <2>2. i # n /\ j # 1
    BY <1>1, <1>8
  <2>3. CASE i = 1 /\ j = n
    BY <1>3, <2>1, <2>3
  <2>4. CASE i = 1 /\ j \in 2..(n - 1)
    BY <1>1, <1>3, <2>1, <2>4
  <2>5. CASE i \in 2..(n - 1) /\ j = n
    BY <1>1, <1>3, <2>1, <2>5
  <2>6. CASE i \in 2..(n - 1) /\ j \in 2..(n - 1)
    BY <1>1, <1>8, <2>6
  <2> QED
    BY <1>6, <2>2, <2>3, <2>4, <2>5, <2>6
<1> QED
  BY <1>1, <1>2, <1>4, <1>7, <1>8 DEF n

(* A pair of villages has one route, or as many as requests overlapped;    *)
(* its stops go from the start to the end in the order of their progress,  *)
(* no village twice; and each stop is where the polyline first comes       *)
(* nearest to it, also where the road turns back.                          *)
THEOREM RoutesStaySound == RouteSpec => []RoutesAreSound
<1>1. RouteInv => RoutesAreSound
  <2> SUFFICES ASSUME RouteInv PROVE RoutesAreSound
    OBVIOUS
  <2>1. OneRoutePerPair
    <3> SUFFICES ASSUME NEW r \in RouteRows
                 PROVE  Cardinality(Existing(routes[r].from, routes[r].to))
                          <= IF buildsWait THEN 1 ELSE Cardinality(Builders)
      BY DEF OneRoutePerPair, Existing
    <3>1. PICK u \in Villages, v \in Villages : u = routes[r].from /\ v = routes[r].to
      BY RowIs
    <3>2. Cardinality(Existing(u, v)) + Cardinality(Pending(u, v)) <= MaxOfPair
      BY DEF RouteInv, FewOfEachPair
    <3>3. /\ Cardinality(Existing(u, v)) \in Nat /\ Cardinality(Pending(u, v)) \in Nat
          /\ MaxOfPair \in Nat
      BY PairsAreCounted DEF RouteInv, MaxOfPair
    <3>4. Cardinality(Existing(u, v)) <= MaxOfPair
      BY <3>2, <3>3
    <3> QED
      BY <3>1, <3>4 DEF MaxOfPair
  <2>2. StopsInOrder
    <3> SUFFICES ASSUME NEW r \in RouteRows
                 PROVE  LET s == routes[r].stops IN
                          /\ s[1].village = routes[r].from /\ s[Len(s)].village = routes[r].to
                          /\ \A i, j \in 1..Len(s) :
                               i < j => s[i].progress <= s[j].progress /\ s[i].village # s[j].village
      BY DEF StopsInOrder
    <3>1. PICK from \in Villages, to \in Villages, road \in Seq(Int), s \in {routes[r].stops} :
            from = routes[r].from /\ to = routes[r].to /\ road = routes[r].line
      BY RowIs
    <3>2. s = routes[r].stops /\ from # to /\ Len(road) >= 2 /\ IsStops(from, to, road, s)
      BY <3>1, RowIs
    <3>3. /\ s[1] = Stop(from, 0) /\ s[Len(s)] = Stop(to, Length(road))
          /\ \A i, j \in 1..Len(s) : i < j =>
               s[i].progress <= s[j].progress /\ s[i].village # s[j].village
      BY <3>2, StopsAreOrdered, SMTT(30)
    <3>4. s[1] = Stop(from, 0) /\ s[Len(s)] = Stop(to, Length(road))
      BY <3>3
    <3>5. s[1].village = from /\ s[Len(s)].village = to
      BY <3>4 DEF Stop
    <3> QED
      BY <3>1, <3>2, <3>3, <3>5
  <2>3. StopsAreWhereRoadPasses
    BY RowIs, PlacesAreThere, ProjectionIsFirstPassing DEF StopsAreWhereRoadPasses
  <2> QED
    BY <2>1, <2>2, <2>3 DEF RoutesAreSound
<1> QED
  BY <1>1, RoutesAreInv, PTL

(* A route lies between located villages and is a draft or verified; a     *)
(* request is at one of its awaits.                                        *)
THEOREM RoutesTyped == RouteSpec => []RouteTypeOK
<1>1. RouteInv => RouteTypeOK
  <2> SUFFICES ASSUME RouteInv PROVE RouteTypeOK
    OBVIOUS
  <2>1. {osrm, buildsWait} \subseteq BOOLEAN /\ located \subseteq Villages
    BY DEF RouteInv, RouteTypes
  <2>2. \A r \in RouteRows : /\ {routes[r].from, routes[r].to} \subseteq located
                             /\ routes[r].status \in {"unverified", "active"}
    BY RowIs
  <2>3. ASSUME NEW w \in Builders PROVE build[w].pc \in {"idle", "fetch", "insert"}
    <3>1. build[w] \in {NoBuild}
            \cup [pc : {"fetch"}, from : Villages, to : Villages, server : Nat]
            \cup [pc : {"insert"}, from : Villages, to : Villages, line : Seq(Int)]
      BY DEF RouteInv, RouteTypes
    <3> QED
      BY <3>1 DEF NoBuild
  <2> QED
    BY <2>1, <2>2, <2>3 DEF RouteTypeOK
<1> QED
  BY <1>1, RoutesAreInv, PTL

(* In fallback mode the ends, too, are where the road comes nearest.       *)
LEMMA StopIsAlong ==
  ASSUME RouteInv, NEW r \in RouteRows,
         NEW i \in IF osrm THEN 2..(Len(routes[r].stops) - 1) ELSE 1..Len(routes[r].stops)
  PROVE  /\ i \in 1..Len(routes[r].stops)
         /\ routes[r].stops[i].progress = Along(At(routes[r].stops[i].village), routes[r].line)
<1>1. PICK from \in Villages, to \in Villages, road \in Seq(Int), s \in {routes[r].stops} :
        from = routes[r].from /\ to = routes[r].to /\ road = routes[r].line /\ s = routes[r].stops
  BY RowIs
<1>2. from # to /\ Len(road) >= 2 /\ IsRoad(from, to, road) /\ IsStops(from, to, road, s)
  BY <1>1, RowIs
<1>3. /\ Len(s) \in Nat /\ Len(s) >= 2 /\ Length(road) \in Nat
      /\ s[1] = Stop(from, 0) /\ s[Len(s)] = Stop(to, Length(road))
  BY <1>2, StopsAreOrdered
<1>4. i \in IF osrm THEN 2..(Len(s) - 1) ELSE 1..Len(s)
  BY <1>1
<1>5. i \in 1..Len(s) /\ (i \in 2..(Len(s) - 1) \/ (~osrm /\ (i = 1 \/ i = Len(s))))
  BY <1>3, <1>4
<1>6. CASE i \in 2..(Len(s) - 1)
  BY <1>1, <1>2, <1>5, <1>6 DEF IsStops
<1>7. CASE ~osrm
  <2>1. PICK m \in Int : road = <<At(from), m, At(to)>> /\ Between(m, At(from), At(to))
    BY <1>2, <1>7, RoadsAreRoads
  <2>2. At(from) \in Int /\ At(to) \in Int
    BY PlacesAreThere
  <2>3. PICK a \in Int, c \in Int : a = At(from) /\ c = At(to)
    BY <2>2
  <2>4. road = <<a, m, c>> /\ Between(m, a, c)
    BY <2>1, <2>3
  <2>5. /\ Length(road) = Dist(a, c)
        /\ \A d \in 0..Length(road) : PointAt(road, d) = IF a <= c THEN a + d ELSE a - d
    BY <2>4, StraightRoad
  <2>6. /\ 0 \in 0..Length(road) /\ Length(road) \in 0..Length(road)
    BY <1>3
  <2>7. PointAt(road, 0) = a /\ PointAt(road, Length(road)) = c
    <3>1. /\ PointAt(road, 0) = IF a <= c THEN a + 0 ELSE a - 0
          /\ PointAt(road, Length(road)) = IF a <= c THEN a + Length(road) ELSE a - Length(road)
      BY <2>5, <2>6
    <3> QED
      BY <2>5, <3>1 DEF Dist
  <2>8. Along(a, road) = 0 /\ Along(c, road) = Length(road)
    BY <2>4, <2>6, <2>7, StraightProjection
  <2>9. /\ s[1].village = from /\ s[1].progress = 0
        /\ s[Len(s)].village = to /\ s[Len(s)].progress = Length(road)
    BY <1>3 DEF Stop
  <2>10. i = 1 \/ i = Len(s) => s[i].progress = Along(At(s[i].village), road)
    BY <2>3, <2>8, <2>9
  <2> QED
    BY <1>1, <1>5, <1>6, <2>10
<1> QED
  BY <1>5, <1>6, <1>7

LEMMA ProgressIsOfStop ==
  ASSUME RouteInv, NEW r \in RouteRows, NEW i \in 1..Len(routes[r].stops)
  PROVE  ProgressOf(routes[r], routes[r].stops[i].village) = {routes[r].stops[i].progress}
<1>1. PICK s \in {routes[r].stops} : s = routes[r].stops
  OBVIOUS
<1>2. /\ Len(s) \in Nat
      /\ \A j, k \in 1..Len(s) : j < k => s[j].village # s[k].village
  <2>1. PICK from \in Villages, to \in Villages, road \in Seq(Int) :
          from = routes[r].from /\ to = routes[r].to /\ road = routes[r].line
    BY RowIs
  <2>2. from # to /\ Len(road) >= 2 /\ IsStops(from, to, road, s)
    BY <1>1, <2>1, RowIs
  <2> QED
    BY <2>2, StopsAreOrdered
<1>3. {j \in 1..Len(s) : s[j].village = s[i].village} = {i}
  <2>1. i \in 1..Len(s)
    BY <1>1
  <2>2. ASSUME NEW j \in 1..Len(s), j # i PROVE s[j].village # s[i].village
    <3>1. j < i \/ i < j
      BY <1>2, <2>1, <2>2
    <3> QED
      BY <1>2, <2>1, <3>1
  <2> QED
    BY <2>1, <2>2
<1>4. Max({i}) = i
  BY <1>2 DEF Max
<1> QED
  BY <1>1, <1>3, <1>4 DEF ProgressOf

(* THE SEARCH GOES WITH THE POLYLINE: of two stops it finds the first      *)
(* before the second only where the polyline passes them in this order,    *)
(* and always where it passes them in no other; the ends of a route count  *)
(* in fallback mode only, since OSRM's polylines run the other way.        *)
THEOREM SearchAlwaysFollows == RouteSpec => []SearchFollowsPolyline
<1>1. RouteInv => SearchFollowsPolyline
  <2> SUFFICES ASSUME RouteInv, NEW r \in RouteRows,
                      NEW i \in IF osrm THEN 2..(Len(routes[r].stops) - 1) ELSE 1..Len(routes[r].stops),
                      NEW j \in IF osrm THEN 2..(Len(routes[r].stops) - 1) ELSE 1..Len(routes[r].stops)
               PROVE  LET line_ == routes[r].line
                          u == routes[r].stops[i].village
                          v == routes[r].stops[j].village
                      IN /\ Connects(routes[r], u, v) => Passes(line_, u, v)
                         /\ Passes(line_, u, v) /\ ~Passes(line_, v, u) => Connects(routes[r], u, v)
    BY DEF SearchFollowsPolyline
  <2>1. PICK road \in Seq(Int) : road = routes[r].line /\ Len(road) >= 2
    BY RowIs
  <2>2. PICK u \in Villages, v \in Villages :
          u = routes[r].stops[i].village /\ v = routes[r].stops[j].village
    <3>1. i \in 1..Len(routes[r].stops) /\ j \in 1..Len(routes[r].stops)
      BY StopIsAlong
    <3> QED
      BY <3>1, RowIs, StopsAreOrdered
  <2>3. PICK x \in Int, y \in Int : x = At(u) /\ y = At(v)
    BY PlacesAreThere
  <2>4. /\ routes[r].stops[i].progress = Along(x, road) /\ i \in 1..Len(routes[r].stops)
        /\ routes[r].stops[j].progress = Along(y, road) /\ j \in 1..Len(routes[r].stops)
    BY <2>1, <2>2, <2>3, StopIsAlong
  <2>5. /\ ProgressOf(routes[r], u) = {Along(x, road)}
        /\ ProgressOf(routes[r], v) = {Along(y, road)}
    BY <2>2, <2>4, ProgressIsOfStop
  <2>6. Connects(routes[r], u, v) <=> Along(x, road) < Along(y, road)
    <3>1. Along(x, road) \in Int /\ Along(y, road) \in Int
      <4>1. Along(x, road) \in 0..Length(road) /\ Along(y, road) \in 0..Length(road)
        BY <2>1, AlongIsFirst
      <4> QED
        BY <4>1
    <3>2. routes[r].status \in {"active", "unverified"}
      BY RowIs
    <3> QED
      BY <2>5, <3>1, <3>2 DEF Connects
  <2>7. ASSUME Along(x, road) < Along(y, road) PROVE Passes(road, u, v)
    BY <2>1, <2>3, <2>7, PassingsAre DEF Passes
  <2>8. ASSUME Passes(road, u, v), ~Passes(road, v, u) PROVE Along(x, road) < Along(y, road)
    <3>1. PICK d \in Passings(x, road), e \in Passings(y, road) : d < e
      BY <2>3, <2>8 DEF Passes
    <3>2. \A g \in Passings(y, road), f \in Passings(x, road) : ~(g < f)
      BY <2>3, <2>8 DEF Passes
    <3> QED
      BY <2>1, <3>1, <3>2, FirstPassingsDecide
  <2> QED
    BY <2>1, <2>2, <2>6, <2>7, <2>8
<1> QED
  BY <1>1, RoutesAreInv, PTL

(* ARRIVAL COMES NEARER: along a straight road the bus has a metre less    *)
(* before it with every metre; its next stop lies ahead, is never one      *)
(* before the last it was given, and passes over nothing but stops the bus *)
(* has reached or is about to, by the grain; at the end there is none.     *)
AheadOf(s, d, end) == {i \in 1..Len(s) : (s[i].progress - d) * Grain > end}

LEMMA GrainScales ==
  ASSUME NEW x \in Int, NEW end \in Nat
  PROVE  /\ x * Grain \in Int
         /\ x <= 0 => x * Grain <= end
         /\ (x - 1) * Grain <= x * Grain
<1>1. Grain \in Nat /\ Grain > 0
  BY RouteAssumption
<1>2. PICK g \in Nat : g = Grain /\ g > 0
  BY <1>1
<1>3. x * g \in Int /\ (x - 1) * g = x * g - g
  BY <1>2
<1>4. x <= 0 => x * g <= 0
  BY <1>2
<1> QED
  BY <1>2, <1>3, <1>4

(* The first of the stops ahead, if there is one.                          *)
LEMMA NextIsFirst ==
  ASSUME NEW r \in RouteRows, NEW x, NEW s \in Seq([village : Villages, progress : Int]),
         NEW d \in Int, NEW end \in Int,
         StopsAhead(routes[r], x) = AheadOf(s, d, end)
  PROVE  /\ \A i \in NextStop(routes[r], x) :
              /\ i \in 1..Len(s) /\ (s[i].progress - d) * Grain > end
              /\ \A j \in AheadOf(s, d, end) : i <= j
         /\ NextStop(routes[r], x) = {} => AheadOf(s, d, end) = {}
<1> DEFINE F == AheadOf(s, d, end)
<1>1. NextStop(routes[r], x) = IF F = {} THEN {} ELSE {Min(F)}
  BY DEF NextStop
<1>2. ASSUME F # {} PROVE Min(F) \in F /\ \A j \in F : Min(F) <= j
  <2>1. F \subseteq Nat
    BY DEF AheadOf
  <2> HIDE DEF F
  <2>2. PICK k \in F : \A j \in F : k <= j
    BY <1>2, <2>1, SmallestExists
  <2> QED
    BY <2>2 DEF Min
<1>3. \A i \in F : i \in 1..Len(s) /\ (s[i].progress - d) * Grain > end
  BY DEF AheadOf
<1> HIDE DEF F
<1>4. ASSUME NEW i \in NextStop(routes[r], x)
      PROVE  i \in F /\ \A j \in F : i <= j
  BY <1>1, <1>2, <1>4
<1> QED
  BY <1>1, <1>3, <1>4 DEF F

THEOREM ArrivalAlwaysNearer == RouteSpec => []ArrivalComesNearer
<1>1. RouteInv => ArrivalComesNearer
  <2> SUFFICES ASSUME RouteInv, ~osrm, NEW r \in RouteRows
               PROVE  LET route == routes[r]
                          end == Length(route.line)
                          Coming(d) == NextStop(route, PointAt(route.line, d))
                          Left(d) == DistanceLeft(route, PointAt(route.line, d))
                          Done(j, d) == (route.stops[j].progress - d) * Grain <= end
                      IN /\ \A d \in 0..(end - 1) :
                              /\ Left(d + 1) = Left(d) - 1
                              /\ \A i \in Coming(d) : /\ route.stops[i].progress > d
                                                      /\ \A j \in 1..(i - 1) : Done(j, d)
                                                      /\ \A k \in Coming(d + 1) : i <= k
                              /\ Coming(d) = {} => \A j \in 1..Len(route.stops) : Done(j, d)
                         /\ Coming(end) = {}
    BY DEF ArrivalComesNearer
  <2>1. PICK from \in Villages, to \in Villages, road \in Seq(Int), s \in {routes[r].stops} :
          from = routes[r].from /\ to = routes[r].to /\ road = routes[r].line /\ s = routes[r].stops
    BY RowIs
  <2>2. from # to /\ Len(road) >= 2 /\ IsRoad(from, to, road) /\ IsStops(from, to, road, s)
    BY <2>1, RowIs
  <2>3. /\ Len(s) \in Nat /\ Length(road) \in Nat
        /\ \A i \in 1..Len(s) : s[i].progress \in 0..Length(road)
        /\ s \in Seq([village : Villages, progress : Int])
    BY <2>2, StopsAreOrdered DEF IsStops
  <2>4. \A d \in 0..Length(road) : Along(PointAt(road, d), road) = d
    <3>1. PICK m \in Int : road = <<At(from), m, At(to)>> /\ Between(m, At(from), At(to))
      BY <2>2, RoadsAreRoads
    <3>2. At(from) \in Int /\ At(to) \in Int
      BY PlacesAreThere
    <3> QED
      BY <3>1, <3>2, StraightProjection
  <2>5. PICK end \in Nat : end = Length(road)
    BY <2>3
  <2>6. ASSUME NEW d \in 0..end
        PROVE  /\ DistanceLeft(routes[r], PointAt(road, d)) = end - d
               /\ StopsAhead(routes[r], PointAt(road, d)) = AheadOf(s, d, end)
    BY <2>1, <2>4, <2>5 DEF DistanceLeft, StopsAhead, AheadOf
  <2>7. ASSUME NEW d \in 0..end
        PROVE  /\ \A i \in NextStop(routes[r], PointAt(road, d)) :
                    /\ i \in 1..Len(s) /\ (s[i].progress - d) * Grain > end
                    /\ \A j \in AheadOf(s, d, end) : i <= j
               /\ NextStop(routes[r], PointAt(road, d)) = {} => AheadOf(s, d, end) = {}
    <3>1. d \in Int /\ end \in Int
      BY <2>5
    <3>2. StopsAhead(routes[r], PointAt(road, d)) = AheadOf(s, d, end)
      BY <2>6
    <3> QED
      BY <2>3, <3>1, <3>2, NextIsFirst
  <2>8. ASSUME NEW d \in 0..end, NEW j \in 1..Len(s)
        PROVE  /\ (s[j].progress - d) * Grain \in Int
               /\ s[j].progress <= d => (s[j].progress - d) * Grain <= end
               /\ (s[j].progress - (d + 1)) * Grain <= (s[j].progress - d) * Grain
               /\ j \notin AheadOf(s, d, end) => (s[j].progress - d) * Grain <= end
    <3>1. PICK p \in Int : p = s[j].progress
      BY <2>3
    <3>2. d \in Int /\ end \in Nat
      BY <2>5
    <3>3. PICK x \in Int : x = p - d /\ x - 1 = p - (d + 1) /\ (p <= d => x <= 0)
      BY <3>1, <3>2
    <3>4. x * Grain \in Int /\ (x <= 0 => x * Grain <= end) /\ (x - 1) * Grain <= x * Grain
      BY <3>2, GrainScales
    <3>5. x * Grain > end \/ x * Grain <= end
      BY <3>2, <3>4
    <3>6. j \notin AheadOf(s, d, end) => ~(x * Grain > end)
      BY <3>1, <3>3 DEF AheadOf
    <3> QED
      BY <3>1, <3>3, <3>4, <3>5, <3>6, Zenon
  <2>9. ASSUME NEW d \in 0..(end - 1)
        PROVE  /\ DistanceLeft(routes[r], PointAt(road, d + 1)) = DistanceLeft(routes[r], PointAt(road, d)) - 1
               /\ \A i \in NextStop(routes[r], PointAt(road, d)) :
                    /\ s[i].progress > d
                    /\ \A j \in 1..(i - 1) : (s[j].progress - d) * Grain <= end
                    /\ \A k \in NextStop(routes[r], PointAt(road, d + 1)) : i <= k
               /\ NextStop(routes[r], PointAt(road, d)) = {} =>
                    \A j \in 1..Len(s) : (s[j].progress - d) * Grain <= end
    <3>1. d \in 0..end /\ d + 1 \in 0..end /\ d \in Int
      OBVIOUS
    <3>2. DistanceLeft(routes[r], PointAt(road, d + 1)) = DistanceLeft(routes[r], PointAt(road, d)) - 1
      BY <2>6, <3>1
    <3>3. ASSUME NEW i \in NextStop(routes[r], PointAt(road, d))
          PROVE  /\ s[i].progress > d
                 /\ \A j \in 1..(i - 1) : (s[j].progress - d) * Grain <= end
                 /\ \A k \in NextStop(routes[r], PointAt(road, d + 1)) : i <= k
      <4>1. /\ i \in 1..Len(s) /\ (s[i].progress - d) * Grain > end
            /\ \A j \in AheadOf(s, d, end) : i <= j
        BY <2>7, <3>1, <3>3
      <4>2. s[i].progress > d
        <5>1. s[i].progress \in Int
          BY <2>3, <4>1
        <5>2. ~(s[i].progress <= d)
          BY <2>8, <3>1, <4>1
        <5> QED
          BY <3>1, <5>1, <5>2
      <4>3. ASSUME NEW j \in 1..(i - 1) PROVE (s[j].progress - d) * Grain <= end
        <5>1. j \in 1..Len(s) /\ ~(i <= j)
          BY <2>3, <4>1
        <5> QED
          BY <2>8, <3>1, <4>1, <5>1
      <4>4. ASSUME NEW k \in NextStop(routes[r], PointAt(road, d + 1)) PROVE i <= k
        <5>1. k \in 1..Len(s) /\ (s[k].progress - (d + 1)) * Grain > end
          BY <2>7, <3>1, <4>4
        <5>2. PICK a \in Int, b \in Int : /\ a = (s[k].progress - (d + 1)) * Grain
                                          /\ b = (s[k].progress - d) * Grain /\ a <= b
          BY <2>8, <3>1, <5>1
        <5>3. b > end
          BY <2>5, <5>1, <5>2
        <5>4. k \in AheadOf(s, d, end)
          BY <5>1, <5>2, <5>3 DEF AheadOf
        <5> QED
          BY <4>1, <5>4
      <4> QED
        BY <4>2, <4>3, <4>4
    <3>4. NextStop(routes[r], PointAt(road, d)) = {} =>
            \A j \in 1..Len(s) : (s[j].progress - d) * Grain <= end
      BY <2>7, <2>8, <3>1
    <3> QED
      BY <3>2, <3>3, <3>4
  <2>10. NextStop(routes[r], PointAt(road, end)) = {}
    <3>1. end \in 0..end
      OBVIOUS
    <3>2. ASSUME NEW i \in NextStop(routes[r], PointAt(road, end)) PROVE FALSE
      <4>1. i \in 1..Len(s) /\ (s[i].progress - end) * Grain > end
        BY <2>7, <3>1, <3>2
      <4>2. s[i].progress <= end
        BY <2>3, <2>5, <4>1
      <4>3. (s[i].progress - end) * Grain \in Int /\ (s[i].progress - end) * Grain <= end
        BY <2>8, <3>1, <4>1, <4>2
      <4> QED
        BY <2>5, <4>1, <4>3
    <3> QED
      BY <3>2
  <2> QED
    BY <2>1, <2>5, <2>9, <2>10
<1> QED
  BY <1>1, RoutesAreInv, PTL
=============================================================================
