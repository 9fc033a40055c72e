----------------------------- MODULE MCServices -----------------------------
(***************************************************************************)
(* The services beside the live position of a bus, each on the small       *)
(* instance below.  They meet in no variable of these models, so that each *)
(* behaviour is one of `part' alone and the others wait in one state.      *)
(***************************************************************************)
EXTENDS RateLimit, OtpLogin, BusRegistry, RouteRegistry, Migration, PassengerSearch, DemoBus,
        VillagePipeline, TLC

CONSTANTS
  AB1, ab1, CD2, a, b, c, d, N, S, r1, r2, x1, x2, w1, w2, v1, v2, p1

VARIABLES
  part,
  route, live, cached, eTask, detail

etaVars == <<route, live, cached, eTask, detail>>

Row(t, n, code) == [taluk |-> t, name |-> n, code |-> code]
Spot(n, x)      == [name |-> n, at |-> x]

(* One plate as two drivers may type it, and another.                      *)
UpperCase == AB1 :> AB1 @@ ab1 :> AB1 @@ CD2 :> CD2

(* Four villages along a road, c beside it; routes both ways, over roads   *)
(* that turn back.                                                         *)
FourVillages ==
  a :> [at |-> 1, off |-> 0] @@ b :> [at |-> 5, off |-> 0] @@
  c :> [at |-> 2, off |-> 1] @@ d :> [at |-> 4, off |-> 0]

BothWays  == {<<a, b>>, <<b, a>>}
TurnsBack == {0, 3}

(* Two taluks; two villages that share a name, one with two habitations;   *)
(* two places of one name, from one of which a town is too far.            *)
TwoTaluks  == <<Row(N, "kil", 1), Row(N, "kil", 2), Row(N, "kil", 1), Row(N, "mel", 3),
                Row(S, "mel", 3), Row(S, "sou", 4)>>
SomePlaces == {Spot("mel", 1), Spot("mel", 6), Spot("twn", 8)}
OneTown    == "twn" :> N

Eta == INSTANCE EtaCache WITH
  Routes <- {r1, r2}, Positions <- {x1, x2}, Tasks <- {w1, w2}, task <- eTask

(* A road that goes on and one that turns back.                            *)
TwoRoads == {<<0, 4, 9>>, <<0, 5, 3, 6>>}
-----------------------------------------------------------------------------
(* The parts that wait do so in one of their initial states.               *)
ServicesInit ==
  /\ part \in {"limit", "otp", "buses", "routes", "villages", "eta", "search", "demo", "migrate"}
  /\ Init /\ (part # "limit" => store = "redis")
  /\ OtpInit /\ (part # "otp" => inTurn)
  /\ BusInit /\ (part # "buses" => oneByOne)
  /\ RouteInit /\ (part # "routes" => osrm /\ buildsWait /\ located = {})
  /\ VillageInit
  /\ Eta!Init /\ (part # "eta" => route = None)
  /\ SearchInit /\ (part # "search" => waits)
  /\ DemoInit /\ (part # "demo" => line = <<0, 4, 9>>)
  /\ MigrationInit /\ (part # "migrate" => files = {} /\ numbered)

EtaPart(step) ==
  /\ part = "eta" /\ step
  /\ UNCHANGED <<part, vars, otpVars, busVars, routeVars,
                 villageVars, searchVars, demoVars, migrationVars>>

ServicesNext ==
  \/ part = "limit" /\ Next
     /\ UNCHANGED <<part, otpVars, busVars, routeVars, villageVars, etaVars, searchVars, demoVars, migrationVars>>
  \/ part = "otp" /\ OtpNext
     /\ UNCHANGED <<part, vars, busVars, routeVars, villageVars, etaVars, searchVars, demoVars, migrationVars>>
  \/ part = "buses" /\ BusNext
     /\ UNCHANGED <<part, vars, otpVars, routeVars, villageVars, etaVars, searchVars, demoVars, migrationVars>>
  \/ part = "routes" /\ RouteNext
     /\ UNCHANGED <<part, vars, otpVars, busVars, villageVars, etaVars, searchVars, demoVars, migrationVars>>
  \/ part = "villages" /\ VillageNext
     /\ UNCHANGED <<part, vars, otpVars, busVars, routeVars, etaVars, searchVars, demoVars, migrationVars>>
  \/ part = "search" /\ SearchNext
     /\ UNCHANGED <<part, vars, otpVars, busVars, routeVars, villageVars, etaVars, demoVars, migrationVars>>
  \/ part = "demo" /\ DemoNext
     /\ UNCHANGED <<part, vars, otpVars, busVars, routeVars, villageVars, etaVars, searchVars, migrationVars>>
  \/ part = "migrate" /\ MigrationNext
     /\ UNCHANGED <<part, vars, otpVars, busVars, routeVars, villageVars, etaVars, searchVars, demoVars>>
  \/ EtaPart(Eta!Next)

services == <<part, vars, otpVars, busVars, routeVars, villageVars, etaVars, searchVars, demoVars, migrationVars>>

(* As in EtaCache: keys expire and requests that are under way go on.      *)
ServicesSpec ==
  /\ ServicesInit /\ [][ServicesNext]_services
  /\ WF_services(EtaPart(Eta!ExpireEta))
  /\ \A w \in {w1, w2} : WF_services(EtaPart(Eta!Step(w)))
-----------------------------------------------------------------------------
(* The properties of the parts.                                            *)

(* The types of every part.                                                *)
TypesOK ==
  /\ TypeOK /\ OtpTypeOK /\ BusTypeOK /\ RouteTypeOK /\ VillageTypeOK
  /\ Eta!TypeOK /\ SearchTypeOK

(* Whoever opens a bus that stands still is in the end told its own        *)
(* arrival time or none, and of a bus without a trip none.                 *)
ArrivalTimesFade == Eta!ArrivalTimesFade
=============================================================================
