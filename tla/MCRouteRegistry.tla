--------------------------- MODULE MCRouteRegistry ---------------------------
EXTENDS RouteRegistry, TLC

CONSTANTS a, b, c, d

(* Four villages along seven kilometres; c beside the road.                *)
FourVillages ==
  a :> [at |-> 1, off |-> 0] @@ b :> [at |-> 5, off |-> 0] @@
  c :> [at |-> 2, off |-> 1] @@ d :> [at |-> 4, off |-> 0]

BothWays == {<<a, b>>, <<b, a>>}
TurnsBack == {0, 3}

Symmetry == Permutations(Builders)
=============================================================================
