------------------------------- MODULE Fare -------------------------------
(***************************************************************************)
(* What a ride costs (ride-service, src/fare/fare.service.ts, and create() *)
(* of rides.service.ts): the surge of the moment a ride is created, and    *)
(* its fare.  Distances are in metres: of the places only their distance   *)
(* matters.  The floating-point amounts are exact fractions here, rounded  *)
(* half up as Math.round does.                                             *)
(***************************************************************************)
EXTENDS Service

CONSTANTS
  Trips,     \* the distances of the rides, in metres
  MaxDemand  \* bound: drivers online, and active rides

ASSUME FareAssumption == Trips \subseteq Nat /\ MaxDemand \in Nat

VARIABLES
  online,  \* countOnlineDrivers()
  requested,  \* the rides that are REQUESTED or MATCHED
  ride     \* the ride created last: its trip and its fare

fareVars == <<job, online, requested, ride>>

VehicleType == {"BIKE", "CAR_4", "CAR_7", "PREMIUM"}

Config(base, km, min, least) ==
  [baseFare |-> base, perKm |-> km, perMin |-> min, minFare |-> least]

FareConfig == [v \in VehicleType |->
  CASE v = "BIKE"    -> Config(10000, 4000, 500, 12000)
    [] v = "CAR_4"   -> Config(20000, 11000, 1500, 25000)
    [] v = "CAR_7"   -> Config(25000, 13000, 1800, 30000)
    [] v = "PREMIUM" -> Config(40000, 18000, 2500, 50000)]

\* Math.round(a / b).
Round(a, b) == (2 * a + b) \div (2 * b)

\* In 25ths of a dong; at 25 km/h a metre takes 3/1250 of a minute.
BaseFare(v) == 25 * FareConfig[v].baseFare
DistanceFare(v, m) == m * (FareConfig[v].perKm \div 40)
TimeFare(v, m) == m * ((3 * FareConfig[v].perMin) \div 50)
Subtotal(v, m) == BaseFare(v) + DistanceFare(v, m) + TimeFare(v, m)

\* estimate(): the surge is in tenths.
Estimate(v, m, surge) ==
  LET least == 250 * FareConfig[v].minFare
      total == IF surge * Subtotal(v, m) < least THEN least ELSE surge * Subtotal(v, m)
  IN [base |-> FareConfig[v].baseFare,
      distance |-> Round(DistanceFare(v, m), 25),
      time |-> Round(TimeFare(v, m), 25),
      surge |-> surge,
      total |-> Round(total, 250)]

\* calculateSurge(), in tenths.
Surge(requests, drivers) ==
  IF drivers = 0 THEN 20
  ELSE IF 2 * requests < drivers THEN 10
  ELSE IF requests < drivers THEN 12
  ELSE IF requests < 2 * drivers THEN 15
  ELSE 20

NoRide == [metres |-> 0, vehicle |-> "none"]

FareJob ==
  [step : {"demand"}, drivers : 0..MaxDemand, metres : Trips, vehicle : VehicleType]

FareInit ==
  /\ AllIdle
  /\ online = 0 /\ requested = 0
  /\ ride = NoRide

\* create() counts the drivers that are online ...
CountDrivers(s, m, v) ==
  /\ IsIdle(s)
  /\ Goto(s, [step |-> "demand", drivers |-> online, metres |-> m, vehicle |-> v])
  /\ UNCHANGED <<online, requested, ride>>

\* ... and then the active rides, and saves the ride with its fare.
PriceRide(s) ==
  /\ At(s, "demand")
  /\ requested < MaxDemand
  /\ LET j == job[s]
     IN ride' = [metres |-> j.metres, vehicle |-> j.vehicle,
                 fare |-> Estimate(j.vehicle, j.metres, Surge(requested, j.drivers))]
  /\ requested' = requested + 1
  /\ Return(s)
  /\ UNCHANGED online

\* Drivers come and go, and rides are served or cancelled.
DemandChanges ==
  /\ \/ online' \in {online - 1, online + 1} /\ UNCHANGED requested
     \/ requested' = requested - 1 /\ UNCHANGED online
  /\ online' \in 0..MaxDemand /\ requested' \in 0..MaxDemand
  /\ UNCHANGED <<job, ride>>

FareNext ==
  \/ DemandChanges
  \/ \E s \in Slots :
       \/ PriceRide(s)
       \/ \E m \in Trips, v \in VehicleType : CountDrivers(s, m, v)

FareSpec == FareInit /\ [][FareNext]_fareVars

-----------------------------------------------------------------------------
(* Properties.                                                             *)

\* The counts and the locals of the handlers have their types.
FareTypeOK ==
  /\ online \in 0..MaxDemand /\ requested \in 0..MaxDemand
  /\ ride = NoRide \/ (ride.metres \in Trips /\ ride.vehicle \in VehicleType)
  /\ job \in [Slots -> FareJob \cup {Idle}]

\* A ride costs the least fare of its vehicle, or the parts it shows times the
\* surge it shows, up to what rounding each of them loses: whatever rides and
\* drivers come and go while it is priced, one surge makes the whole fare.
FareAddsUp ==
  ride # NoRide =>
    LET f == ride.fare
        parts == f.surge * (f.base + f.distance + f.time)
    IN \/ f.total = FareConfig[ride.vehicle].minFare
       \/ 10 * f.total \in (parts - f.surge - 5)..(parts + f.surge + 5)
=============================================================================
