-------------------------- MODULE MCVillagePipeline --------------------------
EXTENDS VillagePipeline, TLC

CONSTANTS N, S

Row(t, n, c) == [taluk |-> t, name |-> n, code |-> c]

(* Two taluks; two villages that share a name, one with two habitations.   *)
TwoTaluks == <<Row(N, "kil", 1), Row(N, "kil", 2), Row(N, "kil", 1), Row(N, "mel", 3), Row(S, "mel", 3),
               Row(S, "sou", 4)>>

Place(n, x) == [name |-> n, at |-> x]

(* Two places of one name, a village, a hamlet in between, a town.         *)
SomePlaces == {Place("mel", 1), Place("mel", 6), Place("sou", 9),
               Place("ham", 4), Place("twn", 8)}

OneTown == "twn" :> N
=============================================================================
