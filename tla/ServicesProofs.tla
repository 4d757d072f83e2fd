--------------------------- MODULE ServicesProofs ---------------------------
(***************************************************************************)
(* Proofs about what a page or a fare adds up to and what a page shows,    *)
(* for any rides, types, hours and trips, and about the handlers of all    *)
(* services side by side.                                                  *)
(***************************************************************************)
EXTENDS MCServices, AccessProofs, RecordsProofs, SumTheorems, TLAPS

-----------------------------------------------------------------------------
(* Fare: what a ride costs, and the parts it shows.                        *)

Surges == {10, 12, 15, 20}

\* The ride that was created last was priced with some surge.
FareInv ==
  /\ FareTypeOK
  /\ ride # NoRide => \E surge \in Surges : ride.fare = Estimate(ride.vehicle, ride.metres, surge)

\* Math.round() of a quotient: between half below and half above.
LEMMA Rounded ==
  ASSUME NEW a \in Nat
  PROVE  /\ Round(a, 25) \in Nat
         /\ 2 * a - 25 < 50 * Round(a, 25) /\ 50 * Round(a, 25) <= 2 * a + 25
         /\ Round(a, 250) \in Nat
         /\ 2 * a - 250 < 500 * Round(a, 250) /\ 500 * Round(a, 250) <= 2 * a + 250
  BY DEF Round

\* The total of a fare from its parts in 25ths of a dong, with the surge in tenths.
TotalOf(base, least, d, t, surge) ==
  LET sub == 25 * base + d + t
  IN Round(IF surge * sub < 250 * least THEN 250 * least ELSE surge * sub, 250)

\* The fare of a trip of any length, from what its parts come to in 25ths of a dong.
LEMMA PartsAddUp ==
  ASSUME NEW base \in Nat, NEW least \in Nat, NEW d \in Nat, NEW t \in Nat, NEW surge \in Surges
  PROVE  LET f == TotalOf(base, least, d, t, surge)
             parts == surge * (base + Round(d, 25) + Round(t, 25))
         IN f = least \/ 10 * f \in (parts - surge - 5)..(parts + surge + 5)
<1> DEFINE sub == 25 * base + d + t
           raw(s) == IF s * sub < 250 * least THEN 250 * least ELSE s * sub
           rd == Round(d, 25)
           rt == Round(t, 25)
<1>0. sub \in Nat
  OBVIOUS
<1>1. /\ rd \in Nat /\ 2 * d - 25 < 50 * rd /\ 50 * rd <= 2 * d + 25
      /\ rt \in Nat /\ 2 * t - 25 < 50 * rt /\ 50 * rt <= 2 * t + 25
  BY Rounded
<1>2. ASSUME NEW s \in Surges
      PROVE  /\ raw(s) \in Nat /\ Round(raw(s), 250) \in Nat
             /\ 2 * raw(s) - 250 < 500 * Round(raw(s), 250)
             /\ 500 * Round(raw(s), 250) <= 2 * raw(s) + 250
  <2>1. raw(s) \in Nat
    <3> HIDE DEF sub
    <3> QED BY <1>0 DEF Surges
  <2>2. ASSUME NEW r \in Nat
        PROVE  /\ Round(r, 250) \in Nat
               /\ 2 * r - 250 < 500 * Round(r, 250) /\ 500 * Round(r, 250) <= 2 * r + 250
    BY Rounded
  <2> HIDE DEF raw
  <2>3. PICK r \in Nat : r = raw(s)
    BY <2>1, Zenon
  <2>4. /\ Round(r, 250) \in Nat
        /\ 2 * r - 250 < 500 * Round(r, 250) /\ 500 * Round(r, 250) <= 2 * r + 250
    BY <2>2
  <2>5. raw(s) \in Nat /\ Round(raw(s), 250) = Round(r, 250) /\ 2 * raw(s) = 2 * r
    BY <2>3, Zenon
  <2> QED BY <2>4, <2>5
<1> HIDE DEF rd, rt
<1>3. ASSUME NEW f \in Nat, NEW s \in Surges,
             2 * raw(s) - 250 < 500 * f, 500 * f <= 2 * raw(s) + 250
      PROVE  f = least \/ 10 * f \in (s * (base + rd + rt) - s - 5)..(s * (base + rd + rt) + s + 5)
  <2>1. CASE s = 10
    BY <1>0, <1>1, <1>3, <2>1
  <2>2. CASE s = 12
    BY <1>0, <1>1, <1>3, <2>2
  <2>3. CASE s = 15
    BY <1>0, <1>1, <1>3, <2>3
  <2>4. CASE s = 20
    BY <1>0, <1>1, <1>3, <2>4
  <2> QED BY <2>1, <2>2, <2>3, <2>4 DEF Surges
<1> DEFINE f == Round(raw(surge), 250)
<1>4. f \in Nat /\ 2 * raw(surge) - 250 < 500 * f /\ 500 * f <= 2 * raw(surge) + 250
  <2> HIDE DEF raw
  <2> QED BY <1>2
<1>5. \/ f = least
      \/ 10 * f \in (surge * (base + rd + rt) - surge - 5)..(surge * (base + rd + rt) + surge + 5)
  <2> HIDE DEF f, raw
  <2> QED BY <1>3, <1>4
<1>6. f = TotalOf(base, least, d, t, surge)
  BY DEF TotalOf
<1> HIDE DEF f
<1> QED BY <1>5, <1>6 DEF rd, rt

\* What a vehicle costs is a natural number of dong.
LEMMA ConfigFacts ==
  ASSUME NEW v \in VehicleType
  PROVE  /\ FareConfig[v].baseFare \in Nat /\ FareConfig[v].perKm \in Nat
         /\ FareConfig[v].perMin \in Nat /\ FareConfig[v].minFare \in Nat
<1>1. CASE v = "BIKE"
  <2>1. FareConfig[v] = Config(10000, 4000, 500, 12000)
    BY <1>1 DEF FareConfig, VehicleType
  <2> QED BY <2>1 DEF Config
<1>2. CASE v = "CAR_4"
  <2>1. FareConfig[v] = Config(20000, 11000, 1500, 25000)
    BY <1>2 DEF FareConfig, VehicleType
  <2> QED BY <2>1 DEF Config
<1>3. CASE v = "CAR_7"
  <2>1. FareConfig[v] = Config(25000, 13000, 1800, 30000)
    BY <1>3 DEF FareConfig, VehicleType
  <2> QED BY <2>1 DEF Config
<1>4. CASE v = "PREMIUM"
  <2>1. FareConfig[v] = Config(40000, 18000, 2500, 50000)
    BY <1>4 DEF FareConfig, VehicleType
  <2> QED BY <2>1 DEF Config
<1> QED BY <1>1, <1>2, <1>3, <1>4 DEF VehicleType

\* The fare of a trip is the least one or what its parts come to.
LEMMA EstimateAddsUp ==
  ASSUME NEW v \in VehicleType, NEW m \in Nat, NEW surge \in Surges
  PROVE  LET f == Estimate(v, m, surge)
             parts == f.surge * (f.base + f.distance + f.time)
         IN \/ f.total = FareConfig[v].minFare
            \/ 10 * f.total \in (parts - f.surge - 5)..(parts + f.surge + 5)
<1> DEFINE base == FareConfig[v].baseFare  least == FareConfig[v].minFare
           d == DistanceFare(v, m)  t == TimeFare(v, m)
           fare(s) == TotalOf(base, least, d, t, s)
<1>1. base \in Nat /\ least \in Nat
  BY ConfigFacts
<1>2. d \in Nat /\ t \in Nat
  <2>1. FareConfig[v].perKm \div 40 \in Nat /\ (3 * FareConfig[v].perMin) \div 50 \in Nat
    BY ConfigFacts
  <2> QED BY <2>1 DEF DistanceFare, TimeFare
<1>3. \/ fare(surge) = least
      \/ 10 * fare(surge) \in (surge * (base + Round(d, 25) + Round(t, 25)) - surge - 5)..
                              (surge * (base + Round(d, 25) + Round(t, 25)) + surge + 5)
  <2> HIDE DEF base, least, d, t
  <2> QED BY <1>1, <1>2, PartsAddUp
<1>4. ASSUME NEW s
      PROVE  Estimate(v, m, s) = [base |-> base, distance |-> Round(d, 25),
                                  time |-> Round(t, 25), surge |-> s, total |-> fare(s)]
  BY DEF Estimate, Subtotal, BaseFare, TotalOf
<1>5. /\ Estimate(v, m, surge).base = base /\ Estimate(v, m, surge).distance = Round(d, 25)
      /\ Estimate(v, m, surge).time = Round(t, 25) /\ Estimate(v, m, surge).surge = surge
      /\ Estimate(v, m, surge).total = fare(surge)
  <2> HIDE DEF fare, base, least, d, t
  <2> QED BY <1>4
<1> HIDE DEF fare, d, t
<1> QED BY <1>3, <1>5

\* Before a ride is created there is none to price.
LEMMA FareInitInv == FareInit => FareInv
<1> SUFFICES ASSUME FareInit PROVE FareInv
  OBVIOUS
<1>1. job \in [Slots -> FareJob \cup {Idle}] /\ 0 \in 0..MaxDemand /\ ride = NoRide
  BY FareAssumption DEF FareInit, AllIdle
<1> QED BY <1>1 DEF FareInit, FareInv, FareTypeOK

\* Every step prices a ride with one of the surges, or leaves it as it is.
LEMMA FareStepInv == FareInv /\ [FareNext]_fareVars => FareInv'
<1> SUFFICES ASSUME FareInv, [FareNext]_fareVars PROVE FareInv'
  OBVIOUS
<1>0. /\ FareTypeOK /\ MaxDemand \in Nat
      /\ online \in 0..MaxDemand /\ requested \in 0..MaxDemand
      /\ job \in [Slots -> FareJob \cup {Idle}]
  BY FareAssumption DEF FareInv, FareTypeOK
<1>1. ASSUME NEW s \in Slots, NEW m \in Trips, NEW v \in VehicleType, CountDrivers(s, m, v)
      PROVE  FareInv'
  <2> DEFINE j == [step |-> "demand", drivers |-> online, metres |-> m, vehicle |-> v]
  <2>1. j \in FareJob
    BY <1>0 DEF FareJob
  <2>2. Goto(s, j) /\ UNCHANGED <<online, requested, ride>>
    BY <1>1 DEF CountDrivers
  <2> HIDE DEF j
  <2>3. job' \in [Slots -> FareJob \cup {Idle}]
    BY <1>0, <2>1, <2>2 DEF Goto
  <2> QED BY <1>0, <2>2, <2>3 DEF FareInv, FareTypeOK
<1>2. ASSUME NEW s \in Slots, PriceRide(s) PROVE FareInv'
  <2>1. job' \in [Slots -> FareJob \cup {Idle}]
    BY <1>0, <1>2 DEF PriceRide, Return, Goto
  <2>2. requested' \in 0..MaxDemand /\ online' = online
    BY <1>0, <1>2 DEF PriceRide
  <2>3. job[s] \in FareJob
    BY <1>0, <1>2 DEF PriceRide, At, Idle
  <2>4. /\ job[s].metres \in Trips /\ job[s].vehicle \in VehicleType
        /\ job[s].drivers \in 0..MaxDemand
    BY <2>3 DEF FareJob
  <2>5. Surge(requested, job[s].drivers) \in Surges
    BY DEF Surge, Surges
  <2>6. /\ ride'.metres = job[s].metres /\ ride'.vehicle = job[s].vehicle
        /\ ride'.fare = Estimate(job[s].vehicle, job[s].metres,
                                 Surge(requested, job[s].drivers))
    BY <1>2 DEF PriceRide
  <2>7. ride'.metres \in Trips /\ ride'.vehicle \in VehicleType
    BY <2>4, <2>6
  <2>8. \E surge \in Surges : ride'.fare = Estimate(ride'.vehicle, ride'.metres, surge)
    BY <2>5, <2>6
  <2> QED BY <1>0, <2>1, <2>2, <2>7, <2>8 DEF FareInv, FareTypeOK
<1>3. CASE DemandChanges
  BY <1>0, <1>3 DEF DemandChanges, FareInv, FareTypeOK
<1>4. CASE UNCHANGED fareVars
  BY <1>0, <1>4 DEF fareVars, FareInv, FareTypeOK
<1> QED BY <1>1, <1>2, <1>3, <1>4 DEF FareNext

\* What the invariant is for.
LEMMA FareInvAddsUp == FareInv => FareAddsUp
<1> SUFFICES ASSUME FareInv, ride # NoRide
             PROVE  LET f == ride.fare
                        parts == f.surge * (f.base + f.distance + f.time)
                    IN \/ f.total = FareConfig[ride.vehicle].minFare
                       \/ 10 * f.total \in (parts - f.surge - 5)..(parts + f.surge + 5)
  BY DEF FareAddsUp
<1>1. ride.metres \in Nat /\ ride.vehicle \in VehicleType
  BY FareAssumption DEF FareInv, FareTypeOK
<1>2. PICK surge \in Surges : ride.fare = Estimate(ride.vehicle, ride.metres, surge)
  BY DEF FareInv
<1>3. PICK v \in VehicleType, m \in Nat : v = ride.vehicle /\ m = ride.metres
  BY <1>1
<1>4. ride.fare = Estimate(v, m, surge)
  BY <1>2, <1>3, Zenon
<1> QED BY <1>3, <1>4, EstimateAddsUp

\* A ride of any length costs the least fare of its vehicle, or what the parts it
\* shows come to at its surge.
THEOREM FareSumsClose == FareSpec => []FareAddsUp
<1> QED
  BY FareInitInv, FareStepInv, FareInvAddsUp, PTL DEF FareSpec

-----------------------------------------------------------------------------
(* Dashboard: the sums of what it shows.                                   *)

\* The rides that were listed are a page of the total that came with them.
PageOf(n, rows) == rows \in LiveRides /\ Total(rows) = OnePage(n)

\* Whatever charts the page shows were built from one such list.
DashboardInv ==
  /\ DashboardTypeOK
  /\ \A s \in Slots : At(s, "ask") => PageOf(job[s].rides, job[s].rideRows)
  /\ \A c \in shown.charts : \E rows \in LiveRides :
       /\ c.mix = BuildVehicleMix(rows) /\ c.hours = BuildRidesByHour(rows)
       /\ \A n \in shown.activeRides : PageOf(n, rows)

\* There are finitely many counters of rides and of orders, and none rides far.
LEMMA DashboardSums ==
  /\ IsFiniteSet(Types \X Hours) /\ IsFiniteSet(Restaurants) /\ MaxLive \in Nat
  /\ PageSize \in Nat
  /\ \A rows \in LiveRides : /\ Total(rows) = Sum(rows, Types \X Hours)
                             /\ Total(rows) \in 0..(MaxLive * Cardinality(Types \X Hours))
  /\ \A rows \in TodaysOrders : Total(rows) \in 0..(MaxLive * Cardinality(Restaurants))
<1>1. IsFiniteSet(Types \X Hours) /\ IsFiniteSet(Restaurants) /\ MaxLive \in Nat
      /\ PageSize \in Nat
  BY DashboardAssumption, FS_Product
<1>2. ASSUME NEW S, IsFiniteSet(S), NEW f \in [S -> 0..MaxLive]
      PROVE  Total(f) = Sum(f, S) /\ Total(f) \in 0..(MaxLive * Cardinality(S))
  <2>1. DOMAIN f = S /\ \A x \in S : f[x] \in 0..MaxLive
    BY <1>2
  <2>3. Cardinality(S) \in Nat
    BY <1>2, FS_CardinalityType
  <2>2. Sum(f, S) \in 0..(MaxLive * Cardinality(S))
    BY <1>1, <1>2, <2>1, <2>3, SumUpTo
  <2>4. Total(f) = Sum(f, S)
    BY <2>1 DEF Total
  <2> QED BY <2>2, <2>3, <2>4
<1> QED BY <1>1, <1>2 DEF LiveRides, TodaysOrders

\* An empty table lists nothing.
LEMMA NoRidesListed == NoRides \in LiveRides /\ PageOf(0, NoRides) /\ NoOrders \in TodaysOrders
<1>1. /\ NoRides \in LiveRides /\ NoOrders \in TodaysOrders
      /\ \A x \in Types \X Hours : NoRides[x] \in 0..0
  BY DashboardSums DEF NoRides, NoOrders, LiveRides, TodaysOrders
<1>2. Sum(NoRides, Types \X Hours) \in 0..(0 * Cardinality(Types \X Hours))
  BY <1>1, DashboardSums, SumUpTo
<1>3. Cardinality(Types \X Hours) \in Nat
  BY DashboardSums, FS_CardinalityType
<1>4. Total(NoRides) = 0
  <2>1. Total(NoRides) = Sum(NoRides, Types \X Hours)
    BY <1>1, DashboardSums
  <2>2. 0 * Cardinality(Types \X Hours) = 0
    BY <1>3
  <2> QED BY <1>2, <2>1, <2>2
<1> QED BY <1>1, <1>4, DashboardSums DEF PageOf, OnePage

\* Before anything is asked nothing is shown.
LEMMA DashboardInitInv == DashboardInit => DashboardInv
<1> SUFFICES ASSUME DashboardInit PROVE DashboardInv
  OBVIOUS
<1>1. /\ job \in [Slots -> DashboardJob \cup {Idle}] /\ \A s \in Slots : ~At(s, "ask")
      /\ shown.charts = {} /\ live = NoRides /\ orders = NoOrders
  BY DEF DashboardInit, AllIdle, Idle, At, NoSummary
<1> QED BY <1>1, NoRidesListed DEF DashboardInv, DashboardTypeOK

\* Every step of the dashboard keeps what it shows together.
LEMMA DashboardStepInv == DashboardInv /\ [DashboardNext]_dashboardVars => DashboardInv'
<1> SUFFICES ASSUME DashboardInv, [DashboardNext]_dashboardVars PROVE DashboardInv'
  OBVIOUS
<1> DEFINE Jobs == DashboardJob \cup {Idle}
           Listed(j) == j.step = "ask" => PageOf(j.rides, j.rideRows)
           Built(sh) == \A c \in sh.charts :
             /\ c.top \subseteq Restaurants
             /\ \E rows \in LiveRides :
                  /\ c.mix = BuildVehicleMix(rows) /\ c.hours = BuildRidesByHour(rows)
                  /\ \A n \in sh.activeRides : PageOf(n, rows)
<1>0. /\ live \in LiveRides /\ orders \in TodaysOrders /\ job \in [Slots -> Jobs]
      /\ \A s \in Slots : Listed(job[s])
      /\ Built(shown)
  BY DEF DashboardInv, DashboardTypeOK, At
<1>1. ASSUME live' \in LiveRides, orders' \in TodaysOrders, job' \in [Slots -> Jobs],
             \A s \in Slots : Listed(job'[s]), Built(shown')
      PROVE  DashboardInv'
  BY <1>1 DEF DashboardInv, DashboardTypeOK, At
<1>2. ASSUME NEW s \in Slots, NEW j \in Jobs, Listed(j), Goto(s, j)
      PROVE  job' \in [Slots -> Jobs] /\ \A x \in Slots : Listed(job'[x])
  <2>1. job' = [job EXCEPT ![s] = j]
    BY <1>2 DEF Goto
  <2> HIDE DEF Listed, Jobs
  <2> QED BY <1>0, <1>2, <2>1
<1>3. ASSUME NEW s \in Slots, At(s, "ask")
      PROVE  /\ job[s] \in [step : {"ask"}, asked : SUBSET {"rides", "orders"},
                            rides : 0..MaxLive * Cardinality(Types \X Hours),
                            orders : 0..MaxLive * Cardinality(Restaurants),
                            rideRows : LiveRides, orderRows : TodaysOrders]
             /\ PageOf(job[s].rides, job[s].rideRows)
  <2>1. job[s] \in Jobs /\ job[s].step = "ask" /\ Listed(job[s])
    BY <1>0, <1>3 DEF At
  <2>2. job[s] # Idle /\ job[s] \notin [step : {"fallback"}]
    BY <2>1 DEF Idle
  <2> QED BY <2>1, <2>2 DEF DashboardJob
<1> HIDE DEF Built
<1>4. ASSUME UNCHANGED <<job, shown>>, live' \in LiveRides, orders' \in TodaysOrders
      PROVE  DashboardInv'
  BY <1>0, <1>1, <1>4
<1>5. ASSUME NEW s \in Slots, NEW j \in Jobs, Listed(j), Goto(s, j),
             UNCHANGED <<live, orders, shown>>
      PROVE  DashboardInv'
  <2>1. job' \in [Slots -> Jobs] /\ \A x \in Slots : Listed(job'[x])
    BY <1>2, <1>5
  <2> QED BY <1>0, <1>1, <1>5, <2>1
<1>6. ASSUME NEW c \in Types \X Hours, RidesChange(c) PROVE DashboardInv'
  <2>1. live' \in LiveRides
    BY <1>0, <1>6 DEF RidesChange, LiveRides
  <2> QED BY <1>0, <1>4, <1>6, <2>1 DEF RidesChange
<1>7. ASSUME NEW r \in Restaurants, OrderPlaced(r) PROVE DashboardInv'
  <2>1. orders' \in TodaysOrders
    BY <1>0, <1>7, DashboardSums DEF OrderPlaced, TodaysOrders
  <2> QED BY <1>0, <1>4, <1>7, <2>1 DEF OrderPlaced
<1>8. ASSUME NEW s \in Slots, Refresh(s) PROVE DashboardInv'
  <2> DEFINE j == [step |-> "ask", asked |-> {"rides", "orders"}, rides |-> 0, orders |-> 0,
                   rideRows |-> NoRides, orderRows |-> NoOrders]
  <2>1. 0 \in 0..MaxLive * Cardinality(Types \X Hours)
        /\ 0 \in 0..MaxLive * Cardinality(Restaurants)
    <3>1. Cardinality(Types \X Hours) \in Nat /\ Cardinality(Restaurants) \in Nat
      BY DashboardSums, FS_CardinalityType
    <3>2. MaxLive * Cardinality(Types \X Hours) \in Nat
          /\ MaxLive * Cardinality(Restaurants) \in Nat
      BY <3>1, DashboardSums
    <3> QED BY <3>2
  <2>2. j \in DashboardJob
    BY <2>1, NoRidesListed DEF DashboardJob
  <2>3. Listed(j)
    BY NoRidesListed
  <2>4. Goto(s, j) /\ UNCHANGED <<live, orders, shown>>
    BY <1>8 DEF Refresh
  <2> HIDE DEF j, Listed
  <2> QED BY <1>5, <2>2, <2>3, <2>4
<1>9. ASSUME NEW s \in Slots, AskRides(s) PROVE DashboardInv'
  <2>0. At(s, "ask") /\ UNCHANGED <<live, orders, shown>>
    BY <1>9 DEF AskRides
  <2>1. ASSUME NEW rows \in FirstRows(live),
               Goto(s, [job[s] EXCEPT !.asked = @ \ {"rides"}, !.rides = Total(live),
                          !.rideRows = rows])
        PROVE  DashboardInv'
    <3> DEFINE j == [job[s] EXCEPT !.asked = @ \ {"rides"}, !.rides = Total(live),
                       !.rideRows = rows]
    <3>1. Total(live) \in 0..MaxLive * Cardinality(Types \X Hours)
      BY <1>0, DashboardSums
    <3>2. PageOf(Total(live), rows)
      BY <1>0 DEF FirstRows, PageOf, LiveRides
    <3>3. rows \in LiveRides
      BY <3>2 DEF PageOf
    <3>4. j \in DashboardJob /\ j.rides = Total(live) /\ j.rideRows = rows
      BY <1>3, <2>0, <3>1, <3>3 DEF DashboardJob
    <3>5. Listed(j)
      <4> HIDE DEF j
      <4> QED BY <3>2, <3>4
    <3> HIDE DEF j, Listed
    <3>6. Goto(s, j)
      BY <2>1 DEF j
    <3> QED BY <1>5, <2>0, <3>4, <3>5, <3>6
  <2>2. ASSUME Goto(s, [job[s] EXCEPT !.asked = @ \ {"rides"}]) PROVE DashboardInv'
    <3> DEFINE j == [job[s] EXCEPT !.asked = @ \ {"rides"}]
    <3>1. j \in DashboardJob /\ j.rides = job[s].rides /\ j.rideRows = job[s].rideRows
      BY <1>3, <2>0 DEF DashboardJob
    <3>2. Listed(j)
      <4> HIDE DEF j
      <4> QED BY <1>3, <2>0, <3>1
    <3> HIDE DEF j, Listed
    <3>3. Goto(s, j)
      BY <2>2 DEF j
    <3> QED BY <1>5, <2>0, <3>1, <3>2, <3>3
  <2> QED BY <1>9, <2>1, <2>2 DEF AskRides
<1>10. ASSUME NEW s \in Slots, AskOrders(s) PROVE DashboardInv'
  <2>0. At(s, "ask") /\ UNCHANGED <<live, orders, shown>>
    BY <1>10 DEF AskOrders
  <2>1. ASSUME NEW rows \in FirstRows(orders),
               Goto(s, [job[s] EXCEPT !.asked = @ \ {"orders"}, !.orders = Total(orders),
                          !.orderRows = rows])
        PROVE  DashboardInv'
    <3> DEFINE j == [job[s] EXCEPT !.asked = @ \ {"orders"}, !.orders = Total(orders),
                       !.orderRows = rows]
    <3>1. Total(orders) \in 0..MaxLive * Cardinality(Restaurants)
      BY <1>0, DashboardSums
    <3>2. rows \in TodaysOrders
      BY <1>0 DEF FirstRows, TodaysOrders
    <3>3. j \in DashboardJob /\ j.rides = job[s].rides /\ j.rideRows = job[s].rideRows
      BY <1>3, <2>0, <3>1, <3>2 DEF DashboardJob
    <3>4. Listed(j)
      <4> HIDE DEF j
      <4> QED BY <1>3, <2>0, <3>3
    <3> HIDE DEF j, Listed
    <3>5. Goto(s, j)
      BY <2>1 DEF j
    <3> QED BY <1>5, <2>0, <3>3, <3>4, <3>5
  <2>2. ASSUME Goto(s, [job[s] EXCEPT !.asked = @ \ {"orders"}]) PROVE DashboardInv'
    <3> DEFINE j == [job[s] EXCEPT !.asked = @ \ {"orders"}]
    <3>1. j \in DashboardJob /\ j.rides = job[s].rides /\ j.rideRows = job[s].rideRows
      BY <1>3, <2>0 DEF DashboardJob
    <3>2. Listed(j)
      <4> HIDE DEF j
      <4> QED BY <1>3, <2>0, <3>1
    <3> HIDE DEF j, Listed
    <3>3. Goto(s, j)
      BY <2>2 DEF j
    <3> QED BY <1>5, <2>0, <3>1, <3>2, <3>3
  <2> QED BY <1>10, <2>1, <2>2 DEF AskOrders
<1>11. ASSUME NEW s \in Slots, GatewayFails(s) PROVE DashboardInv'
  <2> DEFINE j == [step |-> "fallback"]
  <2>1. j \in Jobs /\ Listed(j)
    BY DEF DashboardJob
  <2>2. Goto(s, j) /\ UNCHANGED <<live, orders, shown>>
    BY <1>11 DEF GatewayFails
  <2> HIDE DEF j, Listed
  <2> QED BY <1>5, <2>1, <2>2
<1>12. ASSUME NEW s \in Slots, GetSummary(s) \/ FetchDashboard(s) PROVE DashboardInv'
  <2>1. Idle \in Jobs /\ Listed(Idle)
    BY DEF Idle
  <2>2. Goto(s, Idle) /\ UNCHANGED <<live, orders>>
    BY <1>12 DEF GetSummary, FetchDashboard, Return
  <2>3. job' \in [Slots -> Jobs] /\ \A x \in Slots : Listed(job'[x])
    <3> HIDE DEF Listed, Jobs
    <3> QED BY <1>2, <2>1, <2>2
  <2>4. Built(shown')
    <3>1. CASE FetchDashboard(s)
      <4>1. shown'.charts = {}
        BY <3>1 DEF FetchDashboard, NoSummary
      <4> QED BY <4>1 DEF Built
    <3>2. CASE GetSummary(s)
      <4> DEFINE rows == job[s].rideRows
      <4>1. PICK top \in BuildTopRestaurants(job[s].orderRows) :
              shown' = [activeRides |-> {job[s].rides}, ordersToday |-> {job[s].orders},
                        charts |-> {[mix |-> BuildVehicleMix(rows),
                                     hours |-> BuildRidesByHour(rows), top |-> top]}]
        BY <3>2 DEF GetSummary
      <4>2. PageOf(job[s].rides, rows)
        BY <1>3, <3>2 DEF GetSummary
      <4>3. rows \in LiveRides
        BY <4>2 DEF PageOf
      <4>4. top \subseteq Restaurants
        BY DEF BuildTopRestaurants
      <4>5. shown'.activeRides = {job[s].rides}
            /\ \A c \in shown'.charts : /\ c.mix = BuildVehicleMix(rows)
                                        /\ c.hours = BuildRidesByHour(rows) /\ c.top = top
        BY <4>1
      <4> HIDE DEF rows
      <4> QED BY <4>2, <4>3, <4>4, <4>5 DEF Built
    <3> QED BY <1>12, <3>1, <3>2
  <2> QED BY <1>0, <1>1, <2>2, <2>3, <2>4
<1>13. CASE UNCHANGED dashboardVars
  BY <1>0, <1>4, <1>13 DEF dashboardVars
<1>14. CASE DashboardNext
  <2> HIDE DEF Listed, Jobs
  <2> QED BY <1>6, <1>7, <1>8, <1>9, <1>10, <1>11, <1>12, <1>14 DEF DashboardNext
<1> QED BY <1>13, <1>14

\* A whole number that n and -n bound m times over is itself within them.
LEMMA DivideBounds ==
  ASSUME NEW m \in Nat, m > 0, NEW n \in Nat, NEW x \in Int,
         -(m * n) <= m * x, m * x <= m * n
  PROVE  x \in -n..n
<1>1. ASSUME x > n PROVE FALSE
  <2>1. x - n \in Nat /\ x - n >= 1
    BY <1>1
  <2>2. m * (x - n) >= m * 1
    BY <2>1
  <2>3. m * (x - n) = m * x - m * n
    OBVIOUS
  <2> QED BY <2>2, <2>3
<1>2. ASSUME x < -n PROVE FALSE
  <2>1. (-n) - x \in Nat /\ (-n) - x >= 1
    BY <1>2
  <2>2. m * ((-n) - x) >= m * 1
    BY <2>1
  <2>3. m * ((-n) - x) = -(m * n) - m * x
    OBVIOUS
  <2> QED BY <2>2, <2>3
<1> QED BY <1>1, <1>2

\* A share of m among n, rounded for itself, misses it by no more than half.
LEMMA ShareRounds ==
  ASSUME NEW m \in Nat, NEW n \in Nat, n > 0
  PROVE  /\ (200 * m + n) \div (2 * n) \in Int
         /\ (2 * n) * ((200 * m + n) \div (2 * n)) - 200 * m \in -n..n
<1> DEFINE a == 200 * m + n  b == 2 * n
<1>1. a \in Int /\ b \in Int /\ b > 0
  OBVIOUS
<1>2. a = b * (a \div b) + (a % b) /\ a \div b \in Int /\ a % b \in 0..(b - 1)
  <2> HIDE DEF a, b
  <2> QED BY <1>1
<1> QED BY <1>2

\* The rides by type and the rides by hour are those of the list they count.
LEMMA ListCounted ==
  ASSUME NEW rows \in LiveRides
  PROVE  /\ Total(BuildVehicleMix(rows)) = Total(rows)
         /\ Total(BuildRidesByHour(rows)) = Total(rows)
         /\ BuildVehicleMix(rows) \in [Types -> Nat]
<1>1. IsFiniteSet(Types) /\ IsFiniteSet(Hours) /\ MaxLive \in Nat
  BY DashboardAssumption
<1>2. \A x \in Types \X Hours : rows[x] \in Nat
  BY <1>1 DEF LiveRides
<1>3. ASSUME NEW t \in Types
      PROVE  IsFiniteSet({t} \X Hours) /\ \A y \in {t} \X Hours : rows[y] \in Nat
  <2>1. {t} \X Hours \in SUBSET (Types \X Hours)
    OBVIOUS
  <2> QED BY <1>2, <2>1, DashboardSums, FS_Subset
<1>4. ASSUME NEW h \in Hours
      PROVE  IsFiniteSet(Types \X {h}) /\ \A y \in Types \X {h} : rows[y] \in Nat
  <2>1. Types \X {h} \in SUBSET (Types \X Hours)
    OBVIOUS
  <2> QED BY <1>2, <2>1, DashboardSums, FS_Subset
<1>5. BuildVehicleMix(rows) \in [Types -> Nat]
  <2>1. \A t \in Types : Sum(rows, {t} \X Hours) \in Nat
    BY <1>3, SumNat
  <2> QED BY <2>1 DEF BuildVehicleMix
<1>6. Total(rows) = Sum(rows, Types \X Hours)
  BY DashboardSums
<1>7. Total(BuildVehicleMix(rows)) = Total(rows)
  <2> DEFINE p == [t \in Types |-> {t} \X Hours]
             g == BuildVehicleMix(rows)
  <2>1. \A t \in Types : IsFiniteSet(p[t]) /\ g[t] = Sum(rows, p[t])
    BY <1>3 DEF BuildVehicleMix
  <2>2. ASSUME NEW t \in Types, NEW y \in p[t] PROVE rows[y] \in Int
    <3>1. rows[y] \in Nat
      BY <1>3
    <3> QED BY <3>1
  <2>3. \A t, u \in Types : t # u => p[t] \cap p[u] = {}
    OBVIOUS
  <2>4. UNION {p[t] : t \in Types} = Types \X Hours
    OBVIOUS
  <2>5. DOMAIN g = Types
    BY DEF BuildVehicleMix
  <2> HIDE DEF p, g
  <2>6. Sum(g, Types) = Sum(rows, UNION {p[t] : t \in Types})
    BY <1>1, <2>1, <2>2, <2>3, SumOfParts
  <2>7. Total(g) = Sum(rows, Types \X Hours)
    BY <2>4, <2>5, <2>6, Zenon DEF Total
  <2> QED BY <1>6, <2>7 DEF g
<1>8. Total(BuildRidesByHour(rows)) = Total(rows)
  <2> DEFINE p == [h \in Hours |-> Types \X {h}]
             g == BuildRidesByHour(rows)
  <2>1. \A h \in Hours : IsFiniteSet(p[h]) /\ g[h] = Sum(rows, p[h])
    BY <1>4 DEF BuildRidesByHour
  <2>2. ASSUME NEW h \in Hours, NEW y \in p[h] PROVE rows[y] \in Int
    <3>1. rows[y] \in Nat
      BY <1>4
    <3> QED BY <3>1
  <2>3. \A h, k \in Hours : h # k => p[h] \cap p[k] = {}
    OBVIOUS
  <2>4. UNION {p[h] : h \in Hours} = Types \X Hours
    OBVIOUS
  <2>5. DOMAIN g = Hours
    BY DEF BuildRidesByHour
  <2> HIDE DEF p, g
  <2>6. Sum(g, Hours) = Sum(rows, UNION {p[h] : h \in Hours})
    BY <1>1, <2>1, <2>2, <2>3, SumOfParts
  <2>7. Total(g) = Sum(rows, Types \X Hours)
    BY <2>4, <2>5, <2>6, Zenon DEF Total
  <2> QED BY <1>6, <2>7 DEF g
<1> QED BY <1>5, <1>7, <1>8

\* The shares of a list that is not empty miss 100 by half for every type.
LEMMA SharesClose ==
  ASSUME NEW mix \in [Types -> Nat], Total(mix) > 0
  PROVE  2 * (Total(Shares(mix)) - 100) \in -Cardinality(Types)..Cardinality(Types)
<1> DEFINE n == Total(mix)
           shares == Shares(mix)
           missed == [t \in Types |-> (2 * n) * shares[t] + (-200) * mix[t]]
<1>1. IsFiniteSet(Types) /\ DOMAIN mix = Types /\ \A t \in Types : mix[t] \in Nat
  BY DashboardAssumption
<1>2. n \in Nat /\ n > 0 /\ n = Sum(mix, Types)
  BY <1>1, SumNat DEF Total
<1>3. ASSUME NEW t \in Types
      PROVE  /\ shares[t] \in Int
             /\ (2 * n) * shares[t] - 200 * mix[t] \in -n..n
  <2>1. shares[t] = (200 * mix[t] + n) \div (2 * n)
    BY <1>2 DEF Shares
  <2>2. mix[t] \in Nat
    BY <1>1
  <2> HIDE DEF n, shares
  <2> QED BY <1>2, <2>1, <2>2, ShareRounds
<1>4. DOMAIN shares = Types
  BY DEF Shares
<1> HIDE DEF n, shares
<1>5. \A t \in Types : missed[t] \in -n..n
  BY <1>1, <1>2, <1>3
<1>6. Sum(missed, Types) \in ((-n) * Cardinality(Types))..(n * Cardinality(Types))
  <2>1. -n \in Int /\ n \in Int
    BY <1>2
  <2> HIDE DEF missed
  <2> QED BY <1>1, <1>5, <2>1, SumWithin
<1>7. Sum(missed, Types) = (2 * n) * Sum(shares, Types) + (-200) * Sum(mix, Types)
  <2>1. \A t \in Types : /\ shares[t] \in Int /\ mix[t] \in Int
                         /\ missed[t] = (2 * n) * shares[t] + (-200) * mix[t]
    BY <1>1, <1>3
  <2>2. 2 * n \in Int /\ -200 \in Int
    BY <1>2
  <2> HIDE DEF missed
  <2> QED BY <1>1, <2>1, <2>2, SumCombined
<1>8. Sum(shares, Types) \in Int /\ Cardinality(Types) \in Nat
  BY <1>1, <1>3, SumType, FS_CardinalityType
<1> DEFINE total == Sum(shares, Types)  x == 2 * (total - 100)  k == Cardinality(Types)
<1>9. Sum(missed, Types) = n * x
  BY <1>2, <1>7, <1>8
<1>10. total \in Int /\ x \in Int /\ k \in Nat
  BY <1>8
<1> HIDE DEF missed, total, x, k
<1>11. -(n * k) <= n * x /\ n * x <= n * k
  <2>1. n * x \in ((-n) * k)..(n * k)
    BY <1>6, <1>9 DEF k
  <2> QED BY <1>2, <1>10, <2>1
<1>12. x \in -k..k
  BY <1>2, <1>10, <1>11, DivideBounds
<1>13. Total(Shares(mix)) = total
  BY <1>4 DEF Total, shares, total
<1> QED BY <1>12, <1>13 DEF x, k

\* What the invariant is for.
LEMMA DashboardInvAddsUp == DashboardInv => DashboardAddsUp
<1> SUFFICES ASSUME DashboardInv, NEW c \in shown.charts
             PROVE  /\ Total(c.mix) = Total(c.hours)
                    /\ \A n \in shown.activeRides : Total(c.mix) = OnePage(n)
                    /\ Total(c.mix) > 0 =>
                         2 * (Total(Shares(c.mix)) - 100)
                           \in -Cardinality(Types)..Cardinality(Types)
  BY DEF DashboardAddsUp
<1>1. PICK rows \in LiveRides :
        /\ c.mix = BuildVehicleMix(rows) /\ c.hours = BuildRidesByHour(rows)
        /\ \A n \in shown.activeRides : PageOf(n, rows)
  BY DEF DashboardInv
<1>2. Total(c.mix) = Total(rows) /\ Total(c.hours) = Total(rows) /\ c.mix \in [Types -> Nat]
  BY <1>1, ListCounted
<1> QED BY <1>1, <1>2, SharesClose DEF PageOf

\* What the dashboard shows of the rides adds up.
THEOREM DashboardSumsClose == DashboardSpec => []DashboardAddsUp
<1> QED
  BY DashboardInitInv, DashboardStepInv, DashboardInvAddsUp, PTL DEF DashboardSpec

-----------------------------------------------------------------------------
(* Admin pages: what a page shows of what it was told.                     *)

\* The handlers that bring a listing, and those that carry out a decision.
LoadSteps   == {"load", "loaded"}
DecideSteps == {"decide", "decided", "publish", "published"}

Routes == {"none", "drivers", "promos", "users", "rides", "restaurants", "payments", "orders"}

\* What a page was told is so; what is about to be told is, too.
ToldTrue ==
  /\ entry \in [Entries -> {"absent", "open", "closed"}]
  /\ told \in [Entries -> {"nothing", "open", "closed"}]
  /\ \A e \in Entries : /\ told[e] = "closed" => entry[e] = "closed"
                        /\ told[e] = "open" => entry[e] # "absent"
  /\ \A s \in Slots : /\ At(s, "decided") => entry[job[s].entry] = "closed"
                      /\ At(s, "published") => entry[job[s].entry] # "absent"

\* Only the pages of drivers and promo codes decide anything.
DecidingPages ==
  /\ route \in Routes
  /\ route \notin {"drivers", "promos"} =>
       /\ dialog = NoDialog /\ told = [e \in Entries |-> "nothing"]
       /\ \A s \in Slots : job[s].step \notin DecideSteps

\* The buttons are disabled as long as a decision is under way.
OneDecision ==
  \A s \in Slots : job[s].step \in DecideSteps =>
    submitting /\ \A x \in Slots : job[x].step \in DecideSteps => x = s

\* Rows agree with what the page selected and was told.
Agree(rows) ==
  /\ route = "users" => rows.of = screen.query
  /\ \A e \in Entries : /\ told[e] = "closed" => e \notin rows.open
                        /\ told[e] = "open" => e \in rows.open \/ entry[e] = "closed"

\* Unless two loads overlapped, the one under way hides the rows and brings
\* rows that agree.
LoadsAgree ==
  ~overlapped =>
    /\ \A s \in Slots : job[s].step \in LoadSteps =>
         /\ route # "payments" => screen.loading
         /\ \A x \in Slots : job[x].step \in LoadSteps => x = s
    /\ \A s \in Slots : /\ At(s, "load") /\ route = "users" => job[s].of = screen.query
                        /\ At(s, "loaded") => Agree(job[s].rows)
    /\ View = "rows" => Agree(screen.rows)

PagesInv == PagesTypeOK /\ ToldTrue /\ DecidingPages /\ OneDecision /\ LoadsAgree

\* Before a page is mounted nothing is shown, loaded or decided.
LEMMA PagesInitInv == PagesInit => PagesInv
<1> SUFFICES ASSUME PagesInit PROVE PagesInv
  OBVIOUS
<1>1. /\ job \in [Slots -> {Idle}] /\ \A s \in Slots : job[s].step = "idle"
  BY DEF PagesInit, AllIdle, Idle
<1>2. PagesTypeOK
  <2>1. screen \in Screen
    BY PagesAssumption DEF PagesInit, Screen, Listing, NoRows
  <2>2. dialog \in [Decisions -> SUBSET Entries] /\ \A d \in Decisions : dialog[d] = {}
    BY DEF PagesInit, NoDialog
  <2>3. \A d \in Decisions : Cardinality(dialog[d]) <= 1
    BY <2>2, FS_EmptySet
  <2> QED
    BY <1>1, <2>1, <2>2, <2>3 DEF PagesInit, PagesTypeOK
<1>3. ToldTrue
  BY <1>1 DEF PagesInit, ToldTrue, At
<1>4. DecidingPages /\ OneDecision
  BY <1>1 DEF PagesInit, DecidingPages, OneDecision, Routes, DecideSteps
<1>5. LoadsAgree
  BY <1>1 DEF PagesInit, LoadsAgree, LoadSteps, At, Agree
<1> QED
  BY <1>2, <1>3, <1>4, <1>5 DEF PagesInv

\* The locals of a handler of a page by its step.
LEMMA PagesJobFacts ==
  ASSUME PagesTypeOK, NEW s \in Slots
  PROVE  /\ job[s] \in PagesJob \cup {Idle}
         /\ At(s, "load") => job[s].of \in Queries
         /\ At(s, "loaded") => job[s].rows \in Listing
         /\ job[s].step \in DecideSteps => job[s].entry \in Entries
         /\ At(s, "decide") \/ At(s, "decided") => job[s].how \in Decisions
  BY DEF PagesTypeOK, PagesJob, Idle, At, DecideSteps

\* The tables of a page keep their types.
LEMMA PagesTypeStep == PagesInv /\ [PagesNext]_pagesVars => PagesTypeOK'
<1> SUFFICES ASSUME PagesInv, [PagesNext]_pagesVars PROVE PagesTypeOK'
  OBVIOUS
<1>0. /\ PagesTypeOK /\ screen \in Screen /\ dialog \in [Decisions -> SUBSET Entries]
      /\ \A d \in Decisions : Cardinality(dialog[d]) <= 1
      /\ submitting \in BOOLEAN /\ overlapped \in BOOLEAN
      /\ job \in [Slots -> PagesJob \cup {Idle}]
      /\ screen.query \in Queries /\ screen.rows \in Listing
  BY DEF PagesInv, PagesTypeOK, Screen
<1>1. ASSUME NEW s \in Slots, NEW j \in PagesJob \cup {Idle}, Goto(s, j)
      PROVE  job' \in [Slots -> PagesJob \cup {Idle}]
  BY <1>0, <1>1 DEF Goto
<1>2. ASSUME NEW s \in Slots, NEW q \in Queries, Load(s, q)
      PROVE  /\ job' \in [Slots -> PagesJob \cup {Idle}]
             /\ screen' \in Screen /\ overlapped' \in BOOLEAN
  <2>1. [step |-> "load", of |-> q] \in PagesJob
    BY DEF PagesJob
  <2>2. screen' \in Screen
    BY <1>0, <1>2 DEF Load, Screen
  <2> QED BY <1>1, <1>2, <2>1, <2>2 DEF Load, Loading
<1>3. ASSUME NEW d \in Decisions, NEW S \in SUBSET Entries, Cardinality(S) <= 1,
             dialog' = [dialog EXCEPT ![d] = S]
      PROVE  /\ dialog' \in [Decisions -> SUBSET Entries]
             /\ \A c \in Decisions : Cardinality(dialog'[c]) <= 1
  <2>1. dialog' \in [Decisions -> SUBSET Entries]
    BY <1>0, <1>3
  <2>2. ASSUME NEW c \in Decisions PROVE Cardinality(dialog'[c]) <= 1
    <3>1. dialog'[c] = IF c = d THEN S ELSE dialog[c]
      BY <1>0, <1>3
    <3>2. CASE c = d
      BY <3>1, <3>2, <1>3
    <3>3. CASE c # d
      BY <3>1, <3>3, <1>0
    <3> QED BY <3>2, <3>3
  <2> QED BY <2>1, <2>2
<1>4. Cardinality({}) <= 1 /\ {} \in SUBSET Entries
  BY FS_EmptySet
<1>5. ASSUME NEW d \in Decisions, NEW e \in Entries, Open(d, e) PROVE PagesTypeOK'
  <2>1. Cardinality({e}) <= 1
    BY FS_Singleton
  <2>2. {e} \in SUBSET Entries /\ dialog' = [dialog EXCEPT ![d] = {e}]
    BY <1>5 DEF Open
  <2>3. /\ dialog' \in [Decisions -> SUBSET Entries]
        /\ \A c \in Decisions : Cardinality(dialog'[c]) <= 1
    BY <1>3, <2>1, <2>2
  <2> QED BY <1>0, <1>5, <2>3 DEF Open, PagesTypeOK
<1>6. ASSUME NEW d \in Decisions, Close(d) PROVE PagesTypeOK'
  <2>1. /\ dialog' \in [Decisions -> SUBSET Entries]
        /\ \A c \in Decisions : Cardinality(dialog'[c]) <= 1
    BY <1>3, <1>4, <1>6 DEF Close
  <2> QED BY <1>0, <1>6, <2>1 DEF Close, PagesTypeOK
<1>7. ASSUME NEW s \in Slots, NEW d \in Decisions, SendDecision(s, d) PROVE PagesTypeOK'
  <2>1. PICK e \in dialog[d] : Goto(s, [step |-> "decide", how |-> d, entry |-> e])
    BY <1>7 DEF SendDecision
  <2>2. [step |-> "decide", how |-> d, entry |-> e] \in PagesJob
    BY <1>0 DEF PagesJob
  <2>3. job' \in [Slots -> PagesJob \cup {Idle}]
    BY <1>1, <2>1, <2>2
  <2> QED BY <1>0, <1>7, <2>3 DEF SendDecision, PagesTypeOK
<1>8. "approve" \in Decisions /\ "reject" \in Decisions /\ "deactivate" \in Decisions
  BY DEF Decisions
<1>9. CASE MountOrders \/ \E e \in Entries : Elsewhere(e)
  BY <1>0, <1>9 DEF MountOrders, Elsewhere, PagesTypeOK
<1>10. ASSUME NEW q \in Queries, TypeRestaurant(q) PROVE PagesTypeOK'
  <2>1. screen' \in Screen
    BY <1>0, <1>10 DEF TypeRestaurant, Screen
  <2> QED BY <1>0, <1>10, <2>1 DEF TypeRestaurant, PagesTypeOK
<1>11. ASSUME NEW s \in Slots, NEW q \in Queries, Load(s, q),
              UNCHANGED <<dialog, submitting>>
       PROVE  PagesTypeOK'
  BY <1>0, <1>2, <1>11 DEF PagesTypeOK
<1>12. ASSUME NEW s \in Slots,
              \/ \E r \in {"drivers", "promos", "users", "rides", "restaurants", "payments"} :
                   Mount(s, r)
              \/ \E q \in Queries : ChangePage(s, q)
              \/ LoadOrders(s) \/ Retry(s)
       PROVE  PagesTypeOK'
  <2>1. PICK q \in Queries : Load(s, q) /\ UNCHANGED <<dialog, submitting>>
    BY <1>0, <1>12, PagesAssumption DEF Mount, ChangePage, LoadOrders, Retry, Unchanged
  <2> QED BY <1>11, <2>1
<1>13. ASSUME NEW s \in Slots, RefetchPayments(s) PROVE PagesTypeOK'
  <2>1. [step |-> "load", of |-> 1] \in PagesJob
    BY PagesAssumption DEF PagesJob
  <2>2. job' \in [Slots -> PagesJob \cup {Idle}]
    BY <1>1, <1>13, <2>1 DEF RefetchPayments
  <2>3. screen' \in Screen
    BY <1>0, <1>13 DEF RefetchPayments, Screen
  <2> QED BY <1>0, <1>13, <2>2, <2>3 DEF RefetchPayments, Unchanged, PagesTypeOK
<1>14. ASSUME NEW s \in Slots, ReadListing(s) PROVE PagesTypeOK'
  <2> DEFINE L == [of |-> job[s].of, open |-> {e \in Entries : entry[e] = "open"}]
  <2>1. L \in Listing
    BY <1>0, <1>14, PagesJobFacts DEF Listing, ReadListing
  <2> HIDE DEF L
  <2>2. [step |-> "loaded", rows |-> L] \in PagesJob
    BY <2>1 DEF PagesJob
  <2>3. Goto(s, [step |-> "loaded", rows |-> L])
    BY <1>14 DEF ReadListing, L
  <2>4. job' \in [Slots -> PagesJob \cup {Idle}]
    BY <1>1, <2>2, <2>3
  <2> QED BY <1>0, <1>14, <2>4 DEF ReadListing, Unchanged, PagesTypeOK
<1>15. ASSUME NEW s \in Slots, ShowListing(s) \/ LoadFails(s) PROVE PagesTypeOK'
  <2>1. job' \in [Slots -> PagesJob \cup {Idle}]
    BY <1>1, <1>15 DEF ShowListing, LoadFails, Return
  <2>2. NoRows \in Listing
    BY DEF NoRows, Listing
  <2>3. screen' \in Screen
    BY <1>0, <1>15, <2>2, PagesJobFacts DEF ShowListing, LoadFails, Screen
  <2> QED BY <1>0, <1>15, <2>1, <2>3 DEF ShowListing, LoadFails, Unchanged, PagesTypeOK
<1>16. ASSUME NEW s \in Slots, NEW e \in Entries, Submit(s, e) PROVE PagesTypeOK'
  <2>1. [step |-> "publish", entry |-> e] \in PagesJob
    BY DEF PagesJob
  <2>2. job' \in [Slots -> PagesJob \cup {Idle}]
    BY <1>1, <1>16, <2>1 DEF Submit
  <2> QED BY <1>0, <1>16, <2>2 DEF Submit, PagesTypeOK
<1>17. ASSUME NEW s \in Slots, Execute(s) PROVE PagesTypeOK'
  <2>1. \/ At(s, "decide") /\ Goto(s, [job[s] EXCEPT !.step = "decided"])
        \/ At(s, "publish") /\ Goto(s, [job[s] EXCEPT !.step = "published"])
    BY <1>17 DEF Execute
  <2>2. At(s, "decide") => [job[s] EXCEPT !.step = "decided"] \in PagesJob
    BY <1>0, PagesJobFacts DEF PagesJob, Idle, At
  <2>3. At(s, "publish") => [job[s] EXCEPT !.step = "published"] \in PagesJob
    BY <1>0, PagesJobFacts DEF PagesJob, Idle, At
  <2>4. job' \in [Slots -> PagesJob \cup {Idle}]
    BY <1>1, <2>1, <2>2, <2>3
  <2> QED BY <1>0, <1>17, <2>4 DEF Execute, PagesTypeOK
<1>18. ASSUME NEW s \in Slots, Succeed(s) PROVE PagesTypeOK'
  <2>1. Load(s, screen.query) /\ submitting' \in BOOLEAN
    BY <1>18 DEF Succeed
  <2>2. /\ dialog' \in [Decisions -> SUBSET Entries]
        /\ \A c \in Decisions : Cardinality(dialog'[c]) <= 1
    <3>1. CASE At(s, "decided")
      <4>1. job[s].how \in Decisions /\ dialog' = [dialog EXCEPT ![job[s].how] = {}]
        BY <1>0, <1>18, <3>1, PagesJobFacts DEF Succeed
      <4> QED BY <1>3, <1>4, <4>1
    <3>2. CASE ~At(s, "decided")
      BY <1>0, <1>18, <3>2 DEF Succeed
    <3> QED BY <3>1, <3>2
  <2>3. screen.query \in Queries
    BY <1>0
  <2> QED BY <1>2, <2>1, <2>2, <2>3 DEF PagesTypeOK
<1>19. ASSUME NEW s \in Slots, DecisionFails(s) PROVE PagesTypeOK'
  <2>1. job' \in [Slots -> PagesJob \cup {Idle}]
    BY <1>1, <1>19 DEF DecisionFails, Return
  <2> QED BY <1>0, <1>19, <2>1 DEF DecisionFails, PagesTypeOK
<1>20. CASE UNCHANGED pagesVars
  BY <1>0, <1>20 DEF pagesVars, PagesTypeOK
<1>21. CASE PagesNext
  <2>1. CASE CloseApprove \/ CloseReject \/ CloseDeactivate
    BY <1>6, <1>8, <2>1 DEF CloseApprove, CloseReject, CloseDeactivate
  <2>2. CASE \E e \in Entries : OpenApprove(e) \/ OpenReject(e) \/ OpenDeactivate(e)
    BY <1>5, <1>8, <2>2 DEF OpenApprove, OpenReject, OpenDeactivate
  <2>3. CASE \E s \in Slots : Approve(s) \/ Reject(s) \/ DeactivateCode(s)
    BY <1>7, <1>8, <2>3 DEF Approve, Reject, DeactivateCode
  <2> QED
    BY <1>9, <1>10, <1>12, <1>13, <1>14, <1>15, <1>16, <1>17, <1>18, <1>19, <1>21,
       <2>1, <2>2, <2>3 DEF PagesNext
<1> QED
  BY <1>20, <1>21

\* What the rest of the invariant says in a state that is next to one that has it.
PagesKept == ToldTrue /\ DecidingPages /\ OneDecision /\ LoadsAgree

\* Handler s goes on to j.
LEMMA PagesGoto ==
  ASSUME PagesTypeOK, NEW s \in Slots, NEW j, Goto(s, j)
  PROVE  \A x \in Slots : job'[x] = IF x = s THEN j ELSE job[x]
  BY DEF PagesTypeOK, Goto

\* Mounting Orders, typing, opening and closing a dialog, what another console
\* does: no handler goes on.
LEMMA PagesWithoutHandlers ==
  ASSUME PagesInv, UNCHANGED job, UNCHANGED <<submitting, told, overlapped>>,
         \/ MountOrders \/ \E d \in Decisions : Close(d)
         \/ \E q \in Queries : TypeRestaurant(q)
         \/ \E e \in Entries : Elsewhere(e) \/ OpenApprove(e) \/ OpenReject(e)
                                 \/ OpenDeactivate(e)
  PROVE  PagesKept'
<1>0. /\ PagesTypeOK /\ ToldTrue /\ DecidingPages /\ OneDecision /\ LoadsAgree
      /\ dialog \in [Decisions -> SUBSET Entries] /\ screen \in Screen
  BY DEF PagesInv, PagesTypeOK
<1>1. OneDecision'
  BY <1>0 DEF OneDecision
<1>2. ToldTrue'
  <2>1. CASE entry' = entry
    BY <1>0, <2>1 DEF ToldTrue, At
  <2>2. ASSUME NEW e \in Entries, Elsewhere(e) PROVE ToldTrue'
    <3>1. entry' \in [Entries -> {"absent", "open", "closed"}]
      BY <1>0, <2>2 DEF ToldTrue, Elsewhere
    <3>2. \A x \in Entries : /\ entry[x] = "closed" => entry'[x] = "closed"
                             /\ entry[x] # "absent" => entry'[x] # "absent"
      BY <1>0, <2>2 DEF ToldTrue, Elsewhere
    <3>3. \A s \in Slots : At(s, "decided") \/ At(s, "published") => job[s].entry \in Entries
      BY <1>0, PagesJobFacts DEF DecideSteps, At
    <3> QED BY <1>0, <3>1, <3>2, <3>3 DEF ToldTrue, At
  <2> QED
    BY <2>1, <2>2 DEF MountOrders, Close, TypeRestaurant, OpenApprove, OpenReject,
       OpenDeactivate, Open
<1>3. DecidingPages'
  <2>1. CASE MountOrders
    BY <1>0, <2>1 DEF DecidingPages, MountOrders, Routes
  <2>2. ASSUME NEW d \in Decisions, Close(d) PROVE DecidingPages'
    <3>1. dialog = NoDialog => dialog' = NoDialog
      BY <1>0, <2>2 DEF Close, NoDialog
    <3> QED BY <1>0, <2>2, <3>1 DEF DecidingPages, Close
  <2>3. ASSUME NEW q \in Queries, TypeRestaurant(q) PROVE DecidingPages'
    BY <1>0, <2>3 DEF DecidingPages, TypeRestaurant
  <2>4. ASSUME NEW e \in Entries, Elsewhere(e) PROVE DecidingPages'
    BY <1>0, <2>4 DEF DecidingPages, Elsewhere
  <2>5. ASSUME NEW e \in Entries, OpenApprove(e) \/ OpenReject(e) \/ OpenDeactivate(e)
        PROVE  DecidingPages'
    BY <1>0, <2>5 DEF DecidingPages, OpenApprove, OpenReject, OpenDeactivate, Open
  <2> QED BY <2>1, <2>2, <2>3, <2>4, <2>5
<1>4. LoadsAgree'
  <2>1. CASE MountOrders
    BY <1>0, <2>1 DEF LoadsAgree, MountOrders, Agree, View, At
  <2>2. ASSUME NEW d \in Decisions, Close(d) PROVE LoadsAgree'
    BY <1>0, <2>2 DEF LoadsAgree, Close, Agree, View, At
  <2>3. ASSUME NEW q \in Queries, TypeRestaurant(q) PROVE LoadsAgree'
    <3>1. /\ screen'.rows = screen.rows /\ screen'.loading = screen.loading
          /\ screen'.error = screen.error /\ route' = route /\ route = "orders"
          /\ entry' = entry
      BY <1>0, <2>3 DEF TypeRestaurant, Screen
    <3> QED BY <1>0, <3>1 DEF LoadsAgree, Agree, View, At
  <2>4. ASSUME NEW e \in Entries, Elsewhere(e) PROVE LoadsAgree'
    <3>1. \A x \in Entries : entry[x] = "closed" => entry'[x] = "closed"
      BY <1>0, <2>4 DEF ToldTrue, Elsewhere
    <3>2. route' = route /\ screen' = screen
      BY <2>4 DEF Elsewhere
    <3> QED BY <1>0, <3>1, <3>2 DEF LoadsAgree, Agree, View, At
  <2>5. ASSUME NEW e \in Entries, OpenApprove(e) \/ OpenReject(e) \/ OpenDeactivate(e)
        PROVE  LoadsAgree'
    BY <1>0, <2>5 DEF LoadsAgree, Agree, View, At, OpenApprove, OpenReject, OpenDeactivate,
       Open
  <2> QED BY <2>1, <2>2, <2>3, <2>4, <2>5
<1> QED
  BY <1>1, <1>2, <1>3, <1>4 DEF PagesKept

\* A load that begins while none is under way asks for what the page selects and
\* hides the rows until it is answered.
LEMMA LoadBegins ==
  ASSUME PagesTypeOK, NEW s \in Slots, NEW q \in Queries, Load(s, q)
  PROVE  LoadsAgree'
<1>1. /\ screen'.loading = TRUE /\ screen'.query = q
  BY DEF PagesTypeOK, Screen, Load
<1>2. \A x \in Slots : job'[x] = IF x = s THEN [step |-> "load", of |-> q] ELSE job[x]
  BY PagesGoto DEF Load
<1>3. overlapped' = Loading
  BY DEF Load
<1>4. SUFFICES ASSUME ~Loading PROVE LoadsAgree'
  BY <1>3 DEF LoadsAgree
<1>5. \A x \in Slots : job'[x].step \in LoadSteps => x = s
  BY <1>2, <1>4 DEF Loading, LoadSteps
<1>6. job'[s] = [step |-> "load", of |-> q]
  BY <1>2
<1>7. \A x \in Slots : At(x, "load")' \/ At(x, "loaded")' => x = s
  BY <1>5 DEF At, LoadSteps
<1>8. At(s, "load")' /\ ~At(s, "loaded")' /\ job'[s].of = q
  BY <1>6 DEF At
<1>9. View' = "skeleton"
  BY <1>1 DEF View
<1> QED
  BY <1>1, <1>5, <1>7, <1>8, <1>9 DEF LoadsAgree

\* A page loads when it is mounted, asked to, or asked to page.
LEMMA PagesLoad ==
  ASSUME PagesInv, NEW s \in Slots,
         \/ \E r \in {"drivers", "promos", "users", "rides", "restaurants", "payments"} :
              Mount(s, r)
         \/ \E q \in Queries : ChangePage(s, q)
         \/ LoadOrders(s) \/ Retry(s)
  PROVE  PagesKept'
<1>0. /\ PagesTypeOK /\ ToldTrue /\ DecidingPages /\ OneDecision
      /\ screen.query \in Queries /\ 1 \in Queries
  BY PagesAssumption DEF PagesInv, PagesTypeOK, Screen
<1>1. PICK q \in Queries : Load(s, q)
  BY <1>0 DEF Mount, ChangePage, LoadOrders, Retry
<1>2. /\ UNCHANGED <<entry, dialog, submitting, told>> /\ IsIdle(s)
      /\ \/ route' = route
         \/ route = "none" /\ route' \in Routes
  BY DEF Mount, ChangePage, LoadOrders, Retry, Unchanged, Routes
<1>3. \A x \in Slots : job'[x] = IF x = s THEN [step |-> "load", of |-> q] ELSE job[x]
  BY <1>0, <1>1, PagesGoto DEF Load
<1>4. \A x \in Slots : job'[x].step \in DecideSteps => x # s /\ job'[x] = job[x]
  BY <1>3 DEF DecideSteps
<1>5. ToldTrue'
  <2>1. \A x \in Slots : At(x, "decided")' \/ At(x, "published")' => job'[x] = job[x]
    BY <1>4 DEF At, DecideSteps
  <2> QED BY <1>0, <1>2, <2>1 DEF ToldTrue, At
<1>6. DecidingPages'
  BY <1>0, <1>2, <1>4 DEF DecidingPages
<1>7. OneDecision'
  BY <1>0, <1>2, <1>4 DEF OneDecision
<1> QED
  BY <1>0, <1>1, <1>5, <1>6, <1>7, LoadBegins DEF PagesKept

\* A decision that was carried out is told, and the listing is loaded again.
LEMMA PagesSucceed ==
  ASSUME PagesInv, NEW s \in Slots, Succeed(s)
  PROVE  PagesKept'
<1>0. /\ PagesTypeOK /\ ToldTrue /\ DecidingPages /\ OneDecision
      /\ screen.query \in Queries /\ dialog \in [Decisions -> SUBSET Entries]
      /\ job[s].step \in {"decided", "published"} /\ job[s].entry \in Entries
  BY PagesJobFacts DEF PagesInv, PagesTypeOK, Screen, Succeed, DecideSteps
<1>1. /\ Load(s, screen.query) /\ route' = route /\ entry' = entry
      /\ told' = [told EXCEPT ![job[s].entry] = IF At(s, "decided") THEN "closed" ELSE "open"]
  BY DEF Succeed
<1>3. \A x \in Slots : job'[x] = IF x = s THEN [step |-> "load", of |-> screen.query]
                                          ELSE job[x]
  BY <1>0, <1>1, PagesGoto DEF Load
<1>4. \A x \in Slots : job'[x].step \notin DecideSteps
  BY <1>0, <1>3 DEF OneDecision, DecideSteps
<1>5. ToldTrue'
  <2>1. told' \in [Entries -> {"nothing", "open", "closed"}]
    BY <1>0, <1>1 DEF ToldTrue
  <2>2. ASSUME NEW e \in Entries
        PROVE  /\ told'[e] = "closed" => entry[e] = "closed"
               /\ told'[e] = "open" => entry[e] # "absent"
    BY <1>0, <1>1 DEF ToldTrue, At
  <2>3. \A x \in Slots : ~At(x, "decided")' /\ ~At(x, "published")'
    BY <1>4 DEF At, DecideSteps
  <2> QED BY <1>0, <1>1, <2>1, <2>2, <2>3 DEF ToldTrue
<1>6. DecidingPages'
  <2>1. route \in {"drivers", "promos"}
    BY <1>0 DEF DecidingPages, DecideSteps
  <2> QED BY <1>0, <1>1, <2>1 DEF DecidingPages
<1>7. OneDecision'
  BY <1>4 DEF OneDecision
<1> QED
  BY <1>0, <1>1, <1>5, <1>6, <1>7, LoadBegins DEF PagesKept

\* A refetch, the server's read, the answer or a failure: a handler that loads
\* goes on, and nothing is told.
LEMMA PagesAnswer ==
  ASSUME PagesInv, NEW s \in Slots,
         RefetchPayments(s) \/ ReadListing(s) \/ ShowListing(s) \/ LoadFails(s)
  PROVE  PagesKept'
<1>0. /\ PagesTypeOK /\ ToldTrue /\ DecidingPages /\ OneDecision /\ LoadsAgree
      /\ screen \in Screen
  BY DEF PagesInv, PagesTypeOK
<1>1. /\ UNCHANGED <<route, entry, dialog, submitting, told>>
  BY DEF RefetchPayments, ReadListing, ShowListing, LoadFails, Unchanged
<1>2. PICK j : Goto(s, j) /\ j.step \in {"load", "loaded", "idle"}
  BY DEF RefetchPayments, ReadListing, ShowListing, LoadFails, Return, Idle
<1>3. \A x \in Slots : job'[x] = IF x = s THEN j ELSE job[x]
  BY <1>0, <1>2, PagesGoto
<1>4. \A x \in Slots : job'[x].step \in DecideSteps => x # s /\ job'[x] = job[x]
  BY <1>2, <1>3 DEF DecideSteps
<1>5. ToldTrue'
  <2>1. \A x \in Slots : At(x, "decided")' \/ At(x, "published")' => job'[x] = job[x]
    BY <1>4 DEF At, DecideSteps
  <2> QED BY <1>0, <1>1, <2>1 DEF ToldTrue, At
<1>6. DecidingPages'
  BY <1>0, <1>1, <1>4 DEF DecidingPages
<1>7. OneDecision'
  BY <1>0, <1>1, <1>4 DEF OneDecision
<1>8. LoadsAgree'
  <2>1. CASE RefetchPayments(s)
    <3>1. route = "payments" /\ route' = "payments" /\ ~Loading
      BY <1>1, <2>1 DEF RefetchPayments
    <3>2. told' = [e \in Entries |-> "nothing"]
      BY <1>0, <1>1, <3>1 DEF DecidingPages
    <3>3. ASSUME NEW rows PROVE Agree(rows)'
      BY <3>1, <3>2 DEF Agree
    <3>4. \A x \in Slots : job'[x].step \in LoadSteps => x = s
      BY <1>3, <3>1 DEF Loading, LoadSteps
    <3>5. \A x \in Slots : At(x, "loaded")' => Agree(job[x].rows)'
      BY <3>1, <3>2 DEF Agree
    <3>6. View' = "rows" => Agree(screen.rows)'
      BY <3>1, <3>2 DEF Agree
    <3> QED BY <3>1, <3>4, <3>5, <3>6 DEF LoadsAgree
  <2>2. CASE ReadListing(s)
    <3> DEFINE L == [of |-> job[s].of, open |-> {e \in Entries : entry[e] = "open"}]
    <3>1. /\ Goto(s, [step |-> "loaded", rows |-> L]) /\ At(s, "load")
          /\ UNCHANGED <<screen, overlapped>>
      BY <2>2 DEF ReadListing
    <3>2. \A x \in Slots : job'[x] = IF x = s THEN [step |-> "loaded", rows |-> L] ELSE job[x]
      BY <1>0, <3>1, PagesGoto
    <3>3. \A x \in Slots : job'[x].step \in LoadSteps <=> job[x].step \in LoadSteps
      BY <3>1, <3>2 DEF LoadSteps, At
    <3>4. SUFFICES ASSUME ~overlapped PROVE LoadsAgree'
      BY <3>1 DEF LoadsAgree
    <3>5. L.open = {e \in Entries : entry[e] = "open"} /\ L.of = job[s].of
      OBVIOUS
    <3>6. route = "users" => L.of = screen.query
      BY <1>0, <3>1, <3>4, <3>5 DEF LoadsAgree
    <3>7. ASSUME NEW e \in Entries
          PROVE  /\ told[e] = "closed" => e \notin L.open
                 /\ told[e] = "open" => e \in L.open \/ entry[e] = "closed"
      BY <1>0, <3>5 DEF ToldTrue
    <3> HIDE DEF L
    <3>8. job'[s].rows = L /\ job'[s].step = "loaded"
      BY <3>2
    <3>9. Agree(job[s].rows)'
      BY <1>1, <3>1, <3>6, <3>7, <3>8 DEF Agree
    <3>10. ASSUME NEW x \in Slots, At(x, "loaded")' PROVE Agree(job[x].rows)'
      <4>1. CASE x = s
        BY <3>9, <4>1
      <4>2. CASE x # s
        BY <1>0, <1>1, <3>1, <3>2, <3>4, <4>2, <3>10 DEF LoadsAgree, Agree, At
      <4> QED BY <4>1, <4>2
    <3>11. ASSUME NEW x \in Slots, At(x, "load")', route' = "users"
           PROVE  job'[x].of = screen'.query
      BY <1>0, <1>1, <3>1, <3>2, <3>4, <3>11 DEF LoadsAgree, At
    <3>12. View' = "rows" => Agree(screen.rows)'
      BY <1>0, <1>1, <3>1, <3>4 DEF LoadsAgree, Agree, View
    <3> QED BY <1>0, <1>1, <3>1, <3>3, <3>4, <3>10, <3>11, <3>12 DEF LoadsAgree
  <2>3. CASE ShowListing(s) \/ LoadFails(s)
    <3>1. /\ overlapped' = overlapped /\ job[s].step \in LoadSteps
          /\ Goto(s, Idle) /\ screen'.query = screen.query
      BY <1>0, <2>3 DEF ShowListing, LoadFails, Return, At, LoadSteps, Screen
    <3>2. \A x \in Slots : job'[x] = IF x = s THEN Idle ELSE job[x]
      BY <1>0, <3>1, PagesGoto
    <3>3. SUFFICES ASSUME ~overlapped PROVE LoadsAgree'
      BY <3>1 DEF LoadsAgree
    <3>4. \A x \in Slots : job'[x].step \notin LoadSteps
      BY <1>0, <3>1, <3>2, <3>3 DEF LoadsAgree, LoadSteps, Idle
    <3>5. \A x \in Slots : ~At(x, "load")' /\ ~At(x, "loaded")'
      BY <3>4 DEF At, LoadSteps
    <3>6. View' = "rows" => Agree(screen.rows)'
      <4>1. CASE ShowListing(s)
        <5>1. screen'.rows = job[s].rows /\ At(s, "loaded")
          BY <1>0, <4>1 DEF ShowListing, Screen
        <5>2. Agree(job[s].rows)
          BY <1>0, <3>3, <5>1 DEF LoadsAgree
        <5> QED BY <1>1, <3>1, <5>1, <5>2 DEF Agree
      <4>2. CASE LoadFails(s)
        <5>1. screen'.error = TRUE
          BY <1>0, <4>2 DEF LoadFails, Screen
        <5> QED BY <5>1 DEF View
      <4> QED BY <2>3, <4>1, <4>2
    <3> QED BY <3>4, <3>5, <3>6 DEF LoadsAgree
  <2> QED BY <2>1, <2>2, <2>3
<1> QED
  BY <1>5, <1>6, <1>7, <1>8 DEF PagesKept

\* A decision that is sent, carried out or failed: one handler decides, and the
\* listing stays as it is.
LEMMA PagesDecide ==
  ASSUME PagesInv, NEW s \in Slots,
         \/ \E d \in Decisions : SendDecision(s, d)
         \/ \E e \in Entries : Submit(s, e)
         \/ Execute(s) \/ DecisionFails(s)
  PROVE  PagesKept'
<1>0. /\ PagesTypeOK /\ ToldTrue /\ DecidingPages /\ OneDecision /\ LoadsAgree
      /\ dialog \in [Decisions -> SUBSET Entries]
      /\ entry \in [Entries -> {"absent", "open", "closed"}]
  BY DEF PagesInv, PagesTypeOK, ToldTrue
<1>1. UNCHANGED <<route, screen, dialog, told, overlapped>>
  BY DEF SendDecision, Submit, Execute, DecisionFails
<1>a. ASSUME ~Execute(s)
      PROVE  \E i : Goto(s, i) /\ i.step \in {"decide", "publish", "idle"}
  <2>1. ASSUME NEW d \in Decisions, SendDecision(s, d)
        PROVE  \E i : Goto(s, i) /\ i.step \in {"decide", "publish", "idle"}
    <3>1. PICK e \in dialog[d] : Goto(s, [step |-> "decide", how |-> d, entry |-> e])
      BY <2>1 DEF SendDecision
    <3>2. [step |-> "decide", how |-> d, entry |-> e].step = "decide"
      OBVIOUS
    <3> QED BY <3>1, <3>2
  <2>2. ASSUME NEW e \in Entries, Submit(s, e)
        PROVE  \E i : Goto(s, i) /\ i.step \in {"decide", "publish", "idle"}
    <3>1. Goto(s, [step |-> "publish", entry |-> e])
      BY <2>2 DEF Submit
    <3>2. [step |-> "publish", entry |-> e].step = "publish"
      OBVIOUS
    <3> QED BY <3>1, <3>2
  <2>3. CASE DecisionFails(s)
    <3>1. Goto(s, Idle) /\ Idle.step = "idle"
      BY <2>3 DEF DecisionFails, Return, Idle
    <3> QED BY <3>1
  <2> QED BY <1>a, <2>1, <2>2, <2>3
<1>2. PICK j : Goto(s, j) /\ j.step \in DecideSteps \cup {"idle"}
  <2>1. CASE Execute(s)
    <3>1. \/ At(s, "decide") /\ Goto(s, [job[s] EXCEPT !.step = "decided"])
          \/ At(s, "publish") /\ Goto(s, [job[s] EXCEPT !.step = "published"])
      BY <2>1 DEF Execute
    <3>2. /\ At(s, "decide") => [job[s] EXCEPT !.step = "decided"].step = "decided"
          /\ At(s, "publish") => [job[s] EXCEPT !.step = "published"].step = "published"
      BY <1>0, PagesJobFacts DEF PagesJob, Idle, At
    <3> QED BY <3>1, <3>2 DEF DecideSteps
  <2>2. CASE ~Execute(s)
    BY <1>a, <2>2 DEF DecideSteps
  <2> QED BY <2>1, <2>2
<1>3. \A x \in Slots : job'[x] = IF x = s THEN j ELSE job[x]
  BY <1>0, <1>2, PagesGoto
<1>4. /\ \A e \in Entries : entry[e] = "closed" => entry'[e] = "closed"
      /\ \A e \in Entries : entry[e] # "absent" => entry'[e] # "absent"
      /\ entry' \in [Entries -> {"absent", "open", "closed"}]
  <2>1. CASE Execute(s)
    <3>1. job[s].entry \in Entries
      BY <1>0, <2>1, PagesJobFacts DEF Execute, At, DecideSteps
    <3>2. \/ entry' = [entry EXCEPT ![job[s].entry] = "closed"]
          \/ /\ entry' = [entry EXCEPT ![job[s].entry] = "open"]
             /\ entry[job[s].entry] = "absent"
      BY <2>1 DEF Execute
    <3> QED BY <1>0, <3>1, <3>2
  <2>2. CASE ~Execute(s)
    <3>1. entry' = entry
      BY <2>2 DEF SendDecision, Submit, DecisionFails
    <3> QED BY <1>0, <3>1
  <2> QED BY <2>1, <2>2
<1>5. /\ j.step = "decided" => j.entry \in Entries /\ entry'[j.entry] = "closed"
      /\ j.step = "published" => j.entry \in Entries /\ entry'[j.entry] # "absent"
  <2>1. job'[s] = j
    BY <1>3
  <2>2. CASE Execute(s)
    <3>1. job[s] \in PagesJob /\ job[s].entry \in Entries
      BY <1>0, <2>2, PagesJobFacts DEF Execute, At, DecideSteps, Idle
    <3>2. \/ /\ At(s, "decide") /\ Goto(s, [job[s] EXCEPT !.step = "decided"])
             /\ entry' = [entry EXCEPT ![job[s].entry] = "closed"]
          \/ /\ At(s, "publish") /\ Goto(s, [job[s] EXCEPT !.step = "published"])
             /\ entry' = [entry EXCEPT ![job[s].entry] = "open"]
      BY <2>2 DEF Execute
    <3>3. CASE At(s, "decide") /\ Goto(s, [job[s] EXCEPT !.step = "decided"])
      <4>1. j = [job[s] EXCEPT !.step = "decided"]
        BY <1>0, <2>1, <3>3, PagesGoto
      <4>2. j.step = "decided" /\ j.entry = job[s].entry
        BY <3>1, <3>3, <4>1 DEF PagesJob, At
      <4>3. entry' = [entry EXCEPT ![job[s].entry] = "closed"]
        BY <3>2, <3>3 DEF At
      <4> QED BY <1>0, <3>1, <4>2, <4>3
    <3>4. CASE At(s, "publish") /\ Goto(s, [job[s] EXCEPT !.step = "published"])
      <4>1. j = [job[s] EXCEPT !.step = "published"]
        BY <1>0, <2>1, <3>4, PagesGoto
      <4>2. j.step = "published" /\ j.entry = job[s].entry
        BY <3>1, <3>4, <4>1 DEF PagesJob, At
      <4>3. entry' = [entry EXCEPT ![job[s].entry] = "open"]
        BY <3>2, <3>4 DEF At
      <4> QED BY <1>0, <3>1, <4>2, <4>3
    <3> QED BY <3>2, <3>3, <3>4
  <2>3. CASE ~Execute(s)
    <3>1. PICK i : Goto(s, i) /\ i.step \in {"decide", "publish", "idle"}
      BY <1>a, <2>3
    <3>2. job'[s] = i
      BY <1>0, <3>1, PagesGoto
    <3> QED BY <2>1, <3>1, <3>2
  <2> QED BY <2>2, <2>3
<1>6. ToldTrue'
  <2>1. ASSUME NEW x \in Slots
        PROVE  /\ At(x, "decided")' => entry'[job'[x].entry] = "closed"
               /\ At(x, "published")' => entry'[job'[x].entry] # "absent"
    <3>1. CASE x = s
      BY <1>3, <1>5, <3>1 DEF At
    <3>2. CASE x # s
      <4>1. job'[x] = job[x]
        BY <1>3, <3>2
      <4>2. At(x, "decided") \/ At(x, "published") => job[x].entry \in Entries
        BY <1>0, PagesJobFacts DEF At, DecideSteps
      <4> QED BY <1>0, <1>4, <4>1, <4>2 DEF ToldTrue, At
    <3> QED BY <3>1, <3>2
  <2> QED BY <1>0, <1>1, <1>4, <2>1 DEF ToldTrue
<1>7. DecidingPages'
  <2>1. CASE route \in {"drivers", "promos"}
    BY <1>0, <1>1, <2>1 DEF DecidingPages
  <2>2. CASE route \notin {"drivers", "promos"}
    <3>1. dialog = NoDialog /\ job[s].step \notin DecideSteps
      BY <1>0, <2>2 DEF DecidingPages
    <3>2. \A d \in Decisions : dialog[d] = {}
      BY <3>1 DEF NoDialog
    <3> QED BY <2>2, <3>1, <3>2 DEF SendDecision, Submit, Execute, DecisionFails, DecideSteps, At
  <2> QED BY <2>1, <2>2
<1>8. OneDecision'
  <2>1. ASSUME NEW x \in Slots, x # s PROVE job'[x].step \notin DecideSteps
    <3>1. ~submitting \/ job[s].step \in DecideSteps
      BY DEF SendDecision, Submit, Execute, DecisionFails, DecideSteps, At
    <3>2. job[x].step \notin DecideSteps
      BY <1>0, <2>1, <3>1 DEF OneDecision
    <3> QED BY <1>3, <2>1, <3>2
  <2>2. j.step \in DecideSteps => submitting'
    <3>1. CASE DecisionFails(s)
      <4>1. job'[s] = Idle
        BY <1>0, <3>1, PagesGoto DEF DecisionFails, Return
      <4> QED BY <1>3, <4>1 DEF Idle, DecideSteps
    <3>2. CASE Execute(s)
      BY <1>0, <3>2 DEF Execute, OneDecision, At, DecideSteps
    <3>3. CASE ~DecisionFails(s) /\ ~Execute(s)
      BY <3>3 DEF SendDecision, Submit
    <3> QED BY <3>1, <3>2, <3>3
  <2> QED BY <1>3, <2>1, <2>2 DEF OneDecision
<1>9. LoadsAgree'
  <2>1. SUFFICES ASSUME ~overlapped PROVE LoadsAgree'
    BY <1>1 DEF LoadsAgree
  <2>2. \A x \in Slots : job'[x].step \in LoadSteps => x # s /\ job'[x] = job[x]
    BY <1>2, <1>3 DEF LoadSteps, DecideSteps
  <2>3. ASSUME NEW rows, Agree(rows)
        PROVE
          /\ route' = "users" => rows.of = screen'.query
          /\ \A e \in Entries : /\ told'[e] = "closed" => e \notin rows.open
                                /\ told'[e] = "open" => e \in rows.open \/ entry'[e] = "closed"
    BY <1>1, <1>4, <2>3 DEF Agree
  <2>4. ASSUME NEW x \in Slots, At(x, "loaded")' PROVE Agree(job[x].rows)'
    <3>1. job'[x] = job[x] /\ At(x, "loaded")
      BY <2>2, <2>4 DEF At, LoadSteps
    <3>2. Agree(job[x].rows)
      BY <1>0, <2>1, <3>1 DEF LoadsAgree
    <3> QED BY <2>3, <3>1, <3>2 DEF Agree
  <2>5. View' = "rows" => Agree(screen.rows)'
    <3>1. SUFFICES ASSUME View' = "rows" PROVE Agree(screen.rows)'
      OBVIOUS
    <3>2. Agree(screen.rows)
      BY <1>0, <1>1, <2>1, <3>1 DEF LoadsAgree, View
    <3> QED BY <1>1, <2>3, <3>2 DEF Agree
  <2>6. \A x \in Slots : At(x, "load")' => job'[x] = job[x] /\ At(x, "load")
    BY <2>2 DEF At, LoadSteps
  <2> QED BY <1>0, <1>1, <2>1, <2>2, <2>4, <2>5, <2>6 DEF LoadsAgree, LoadSteps, At
<1> QED
  BY <1>6, <1>7, <1>8, <1>9 DEF PagesKept

\* Every step of a page keeps what it shows in line with what it was told.
LEMMA PagesStepInv == PagesInv /\ [PagesNext]_pagesVars => PagesInv'
<1> SUFFICES ASSUME PagesInv, [PagesNext]_pagesVars PROVE PagesInv'
  OBVIOUS
<1>1. PagesTypeOK'
  BY PagesTypeStep
<1>2. PagesKept'
  <2>1. /\ "approve" \in Decisions /\ "reject" \in Decisions /\ "deactivate" \in Decisions
    BY DEF Decisions
  <2>2. CASE UNCHANGED pagesVars
    <3>1. PagesKept
      BY DEF PagesInv, PagesKept
    <3> QED BY <2>2, <3>1
        DEF pagesVars, PagesKept, ToldTrue, DecidingPages, OneDecision, LoadsAgree, Agree,
            View, At
  <2>3. CASE MountOrders
    BY <2>3, PagesWithoutHandlers DEF MountOrders
  <2>4. ASSUME NEW d \in Decisions, Close(d) PROVE PagesKept'
    BY <2>4, PagesWithoutHandlers DEF Close
  <2>5. ASSUME NEW q \in Queries, TypeRestaurant(q) PROVE PagesKept'
    BY <2>5, PagesWithoutHandlers DEF TypeRestaurant
  <2>6. ASSUME NEW e \in Entries,
               OpenApprove(e) \/ OpenReject(e) \/ OpenDeactivate(e) \/ Elsewhere(e)
        PROVE  PagesKept'
    <3>1. UNCHANGED job /\ UNCHANGED <<submitting, told, overlapped>>
      BY <2>6 DEF OpenApprove, OpenReject, OpenDeactivate, Open, Elsewhere
    <3> QED BY <2>6, <3>1, PagesWithoutHandlers
  <2>7. ASSUME NEW s \in Slots, NEW r \in {"drivers", "promos", "users", "rides",
                 "restaurants", "payments"}, Mount(s, r)
        PROVE  PagesKept'
    BY <2>7, PagesLoad
  <2>8. ASSUME NEW s \in Slots,
               (\E q \in Queries : ChangePage(s, q)) \/ LoadOrders(s) \/ Retry(s)
        PROVE  PagesKept'
    BY <2>8, PagesLoad
  <2>9. ASSUME NEW s \in Slots,
               RefetchPayments(s) \/ ReadListing(s) \/ ShowListing(s) \/ LoadFails(s)
        PROVE  PagesKept'
    BY <2>9, PagesAnswer
  <2>10. ASSUME NEW s \in Slots, NEW d \in Decisions, SendDecision(s, d) PROVE PagesKept'
    BY <2>10, PagesDecide
  <2>11. ASSUME NEW s \in Slots,
                (\E e \in Entries : Submit(s, e)) \/ Execute(s) \/ DecisionFails(s)
         PROVE  PagesKept'
    BY <2>11, PagesDecide
  <2>12. ASSUME NEW s \in Slots, Succeed(s) PROVE PagesKept'
    BY <2>12, PagesSucceed
  <2>13. CASE PagesNext
    BY <2>1, <2>3, <2>4, <2>5, <2>6, <2>7, <2>8, <2>9, <2>10, <2>11, <2>12, <2>13
    DEF PagesNext, CloseApprove, CloseReject, CloseDeactivate, Approve, Reject, DeactivateCode
  <2> QED BY <2>2, <2>13
<1> QED
  BY <1>1, <1>2 DEF PagesInv, PagesKept

\* What the invariant is for.
LEMMA PagesInvShows == PagesInv => ShownAsAnswered
<1> SUFFICES ASSUME PagesInv PROVE ShownAsAnswered
  OBVIOUS
<1>1. LoadsAgree /\ OneDecision
  BY DEF PagesInv
<1> DEFINE D == {s \in Slots : job[s].step \in {"decide", "decided", "publish", "published"}}
<1>2. Cardinality(D) <= 1
  <2>1. CASE D = {}
    BY <2>1, FS_EmptySet
  <2>2. ASSUME NEW s \in D PROVE Cardinality(D) = 1
    <3>1. D = {s}
      BY <1>1, <2>2 DEF OneDecision, DecideSteps
    <3> QED BY <3>1, FS_Singleton
  <2> QED BY <2>1, <2>2
<1> QED
  BY <1>1, <1>2 DEF ShownAsAnswered, LoadsAgree, Agree

\* A page shows its decisions as it was told they were carried out unless two
\* loads overlapped, and sends none while another is under way.
THEOREM PagesShownAsAnswered == PagesSpec => []ShownAsAnswered
<1> QED
  BY PagesInitInv, PagesStepInv, PagesInvShows, PTL DEF PagesSpec

-----------------------------------------------------------------------------
(* The services side by side.                                              *)

\* The handlers and tables of the part that runs satisfy its invariant.
ServicesInv ==
  /\ part \in Parts
  /\ part = "promo" => PromoInv
  /\ part = "ratings" => RatingsInv
  /\ part \in Chats => ChatInv
  /\ part \in Records => UserInv
  /\ part = "menus" => MenusInv
  /\ part = "tracking" => TrackingInv
  /\ part = "notifications" => NotificationsInv
  /\ part = "login" => LoginInv
  /\ part = "otp" => OtpInv
  /\ part = "tokens" => TokensInv
  /\ part = "requests" => RequestsInv
  /\ part = "fare" => FareInv
  /\ part = "dashboard" => DashboardInv
  /\ part = "pages" => PagesInv

\* Initially all of them do.
LEMMA ServicesInitInv == Init => ServicesInv
<1> SUFFICES ASSUME Init PROVE ServicesInv
  OBVIOUS
<1>1. part \in Parts
  BY DEF Init
<1>2. PromoInv
  BY PromoInitInv DEF Init
<1>3. RatingsInv
  BY RatingsInitInv DEF Init
<1>4. ChatInv
  BY ChatInitInv DEF Init
<1>5. UserInv
  BY UserInitInv DEF Init
<1>6. MenusInv
  BY MenusInitInv DEF Init
<1>7. TrackingInv
  BY TrackingInitInv DEF Init
<1>8. NotificationsInv
  BY NotificationsInitInv DEF Init
<1>9. LoginInv
  BY LoginInitInv DEF Init
<1>10. OtpInv
  BY OtpInitInv DEF Init
<1>11. TokensInv
  BY TokensInitInv DEF Init
<1>12. RequestsInv
  BY RequestsInitInv DEF Init
<1>13. FareInv
  BY FareInitInv DEF Init
<1>14. DashboardInv
  BY DashboardInitInv DEF Init
<1>15. PagesInv
  BY PagesInitInv DEF Init
<1> QED
  BY <1>1, <1>2, <1>3, <1>4, <1>5, <1>6, <1>7, <1>8, <1>9, <1>10, <1>11, <1>12, <1>13, <1>14, <1>15 DEF ServicesInv

\* A step of one part keeps that part's invariant, and starts no other.
LEMMA ServicesStepInv == ServicesInv /\ [Next]_vars => ServicesInv'
<1> SUFFICES ASSUME ServicesInv, [Next]_vars PROVE ServicesInv'
  OBVIOUS
<1>1. CASE Only("promo") /\ PromoNext
  <2>1. part = "promo" /\ part' = "promo" /\ [PromoNext]_promoVars
    BY <1>1 DEF Only
  <2>2. PromoInv
    BY <2>1 DEF ServicesInv, Chats, Records
  <2>3. PromoInv'
    BY <2>1, <2>2, PromoStepInv
  <2> QED BY <2>1, <2>3 DEF ServicesInv, Parts, Chats, Records
<1>2. CASE Only("ratings") /\ RatingsNext
  <2>1. part = "ratings" /\ part' = "ratings" /\ [RatingsNext]_ratingVars
    BY <1>2 DEF Only
  <2>2. RatingsInv
    BY <2>1 DEF ServicesInv, Chats, Records
  <2>3. RatingsInv'
    BY <2>1, <2>2, RatingsStepInv
  <2> QED BY <2>1, <2>3 DEF ServicesInv, Parts, Chats, Records
<1>3. CASE Only("rooms") /\ ChatNext
  <2>1. part = "rooms" /\ part' = "rooms" /\ [ChatNext]_chatVars
    BY <1>3 DEF Only
  <2>2. ChatInv
    BY <2>1 DEF ServicesInv, Chats, Records
  <2>3. ChatInv'
    BY <2>1, <2>2, ChatStepInv
  <2> QED BY <2>1, <2>3 DEF ServicesInv, Parts, Chats, Records
<1>4. CASE Only("messages") /\ ChatNext
  <2>1. part = "messages" /\ part' = "messages" /\ [ChatNext]_chatVars
    BY <1>4 DEF Only
  <2>2. ChatInv
    BY <2>1 DEF ServicesInv, Chats, Records
  <2>3. ChatInv'
    BY <2>1, <2>2, ChatStepInv
  <2> QED BY <2>1, <2>3 DEF ServicesInv, Parts, Chats, Records
<1>5. CASE Only("addresses") /\ UserNext
  <2>1. part = "addresses" /\ part' = "addresses" /\ [UserNext]_userVars
    BY <1>5 DEF Only
  <2>2. UserInv
    BY <2>1 DEF ServicesInv, Chats, Records
  <2>3. UserInv'
    BY <2>1, <2>2, UserStepInv
  <2> QED BY <2>1, <2>3 DEF ServicesInv, Parts, Chats, Records
<1>6. CASE Only("licenses") /\ UserNext
  <2>1. part = "licenses" /\ part' = "licenses" /\ [UserNext]_userVars
    BY <1>6 DEF Only
  <2>2. UserInv
    BY <2>1 DEF ServicesInv, Chats, Records
  <2>3. UserInv'
    BY <2>1, <2>2, UserStepInv
  <2> QED BY <2>1, <2>3 DEF ServicesInv, Parts, Chats, Records
<1>7. CASE Only("menus") /\ MenusNext
  <2>1. part = "menus" /\ part' = "menus" /\ [MenusNext]_menuVars
    BY <1>7 DEF Only
  <2>2. MenusInv
    BY <2>1 DEF ServicesInv, Chats, Records
  <2>3. MenusInv'
    BY <2>1, <2>2, MenusStepInv
  <2> QED BY <2>1, <2>3 DEF ServicesInv, Parts, Chats, Records
<1>8. CASE Only("tracking") /\ TrackingNext
  <2>1. part = "tracking" /\ part' = "tracking" /\ [TrackingNext]_trackingVars
    BY <1>8 DEF Only
  <2>2. TrackingInv
    BY <2>1 DEF ServicesInv, Chats, Records
  <2>3. TrackingInv'
    BY <2>1, <2>2, TrackingStepInv
  <2> QED BY <2>1, <2>3 DEF ServicesInv, Parts, Chats, Records
<1>9. CASE Only("notifications") /\ NotificationsNext
  <2>1. part = "notifications" /\ part' = "notifications" /\ [NotificationsNext]_notificationVars
    BY <1>9 DEF Only
  <2>2. NotificationsInv
    BY <2>1 DEF ServicesInv, Chats, Records
  <2>3. NotificationsInv'
    BY <2>1, <2>2, NotificationsStepInv
  <2> QED BY <2>1, <2>3 DEF ServicesInv, Parts, Chats, Records
<1>10. CASE Only("login") /\ LoginNext
  <2>1. part = "login" /\ part' = "login" /\ [LoginNext]_loginVars
    BY <1>10 DEF Only
  <2>2. LoginInv
    BY <2>1 DEF ServicesInv, Chats, Records
  <2>3. LoginInv'
    BY <2>1, <2>2, LoginStepInv
  <2> QED BY <2>1, <2>3 DEF ServicesInv, Parts, Chats, Records
<1>11. CASE Only("otp") /\ OtpNext
  <2>1. part = "otp" /\ part' = "otp" /\ [OtpNext]_otpVars
    BY <1>11 DEF Only
  <2>2. OtpInv
    BY <2>1 DEF ServicesInv, Chats, Records
  <2>3. OtpInv'
    BY <2>1, <2>2, OtpStepInv
  <2> QED BY <2>1, <2>3 DEF ServicesInv, Parts, Chats, Records
<1>12. CASE Only("tokens") /\ TokensNext
  <2>1. part = "tokens" /\ part' = "tokens" /\ [TokensNext]_tokenVars
    BY <1>12 DEF Only
  <2>2. TokensInv
    BY <2>1 DEF ServicesInv, Chats, Records
  <2>3. TokensInv'
    BY <2>1, <2>2, TokensStepInv
  <2> QED BY <2>1, <2>3 DEF ServicesInv, Parts, Chats, Records
<1>13. CASE Only("requests") /\ RequestsNext
  <2>1. part = "requests" /\ part' = "requests" /\ [RequestsNext]_requestVars
    BY <1>13 DEF Only
  <2>2. RequestsInv
    BY <2>1 DEF ServicesInv, Chats, Records
  <2>3. RequestsInv'
    BY <2>1, <2>2, RequestsStepInv
  <2> QED BY <2>1, <2>3 DEF ServicesInv, Parts, Chats, Records
<1>14. CASE Only("fare") /\ FareNext
  <2>1. part = "fare" /\ part' = "fare" /\ [FareNext]_fareVars
    BY <1>14 DEF Only
  <2>2. FareInv
    BY <2>1 DEF ServicesInv, Chats, Records
  <2>3. FareInv'
    BY <2>1, <2>2, FareStepInv
  <2> QED BY <2>1, <2>3 DEF ServicesInv, Parts, Chats, Records
<1>15. CASE Only("dashboard") /\ DashboardNext
  <2>1. part = "dashboard" /\ part' = "dashboard" /\ [DashboardNext]_dashboardVars
    BY <1>15 DEF Only
  <2>2. DashboardInv
    BY <2>1 DEF ServicesInv, Chats, Records
  <2>3. DashboardInv'
    BY <2>1, <2>2, DashboardStepInv
  <2> QED BY <2>1, <2>3 DEF ServicesInv, Parts, Chats, Records
<1>16. CASE Only("pages") /\ PagesNext
  <2>1. part = "pages" /\ part' = "pages" /\ [PagesNext]_pagesVars
    BY <1>16 DEF Only
  <2>2. PagesInv
    BY <2>1 DEF ServicesInv, Chats, Records
  <2>3. PagesInv'
    BY <2>1, <2>2, PagesStepInv
  <2> QED BY <2>1, <2>3 DEF ServicesInv, Parts, Chats, Records
<1>17. CASE UNCHANGED vars
  <2>1. part' = part
    BY <1>17 DEF vars
  <2>2. [PromoNext]_promoVars
    BY <1>17 DEF vars, promoVars
  <2>3. [RatingsNext]_ratingVars
    BY <1>17 DEF vars, ratingVars
  <2>4. [ChatNext]_chatVars
    BY <1>17 DEF vars, chatVars
  <2>5. [UserNext]_userVars
    BY <1>17 DEF vars, userVars
  <2>6. [MenusNext]_menuVars
    BY <1>17 DEF vars, menuVars
  <2>7. [TrackingNext]_trackingVars
    BY <1>17 DEF vars, trackingVars
  <2>8. [NotificationsNext]_notificationVars
    BY <1>17 DEF vars, notificationVars
  <2>9. [LoginNext]_loginVars
    BY <1>17 DEF vars, loginVars
  <2>10. [OtpNext]_otpVars
    BY <1>17 DEF vars, otpVars
  <2>11. [TokensNext]_tokenVars
    BY <1>17 DEF vars, tokenVars
  <2>12. [RequestsNext]_requestVars
    BY <1>17 DEF vars, requestVars
  <2>13. [FareNext]_fareVars
    BY <1>17 DEF vars, fareVars
  <2>14. [DashboardNext]_dashboardVars
    BY <1>17 DEF vars, dashboardVars
  <2>15. [PagesNext]_pagesVars
    BY <1>17 DEF vars, pagesVars
  <2>16. PromoInv => PromoInv'
    BY <2>2, PromoStepInv
  <2>17. RatingsInv => RatingsInv'
    BY <2>3, RatingsStepInv
  <2>18. ChatInv => ChatInv'
    BY <2>4, ChatStepInv
  <2>19. UserInv => UserInv'
    BY <2>5, UserStepInv
  <2>20. MenusInv => MenusInv'
    BY <2>6, MenusStepInv
  <2>21. TrackingInv => TrackingInv'
    BY <2>7, TrackingStepInv
  <2>22. NotificationsInv => NotificationsInv'
    BY <2>8, NotificationsStepInv
  <2>23. LoginInv => LoginInv'
    BY <2>9, LoginStepInv
  <2>24. OtpInv => OtpInv'
    BY <2>10, OtpStepInv
  <2>25. TokensInv => TokensInv'
    BY <2>11, TokensStepInv
  <2>26. RequestsInv => RequestsInv'
    BY <2>12, RequestsStepInv
  <2>27. FareInv => FareInv'
    BY <2>13, FareStepInv
  <2>28. DashboardInv => DashboardInv'
    BY <2>14, DashboardStepInv
  <2>29. PagesInv => PagesInv'
    BY <2>15, PagesStepInv
  <2> QED BY <2>1, <2>16, <2>17, <2>18, <2>19, <2>20, <2>21, <2>22, <2>23, <2>24, <2>25, <2>26, <2>27, <2>28, <2>29 DEF ServicesInv
<1> QED
  BY <1>1, <1>2, <1>3, <1>4, <1>5, <1>6, <1>7, <1>8, <1>9, <1>10, <1>11, <1>12, <1>13, <1>14, <1>15, <1>16, <1>17 DEF Next

\* The types of the part that runs.
LEMMA ServicesInvTypes == ServicesInv => ServicesTypeOK
<1> SUFFICES ASSUME ServicesInv PROVE ServicesTypeOK
  OBVIOUS
<1>1. PromoInv => PromoTypeOK
  BY DEF PromoInv
<1>2. RatingsInv => RatingsTypeOK
  BY DEF RatingsInv
<1>3. ChatInv => ChatTypeOK
  BY DEF ChatInv
<1>4. UserInv => UserTypeOK
  BY DEF UserInv
<1>5. MenusInv => MenusTypeOK
  BY DEF MenusInv
<1>6. TrackingInv => TrackingTypeOK
  BY DEF TrackingInv
<1>7. NotificationsInv => NotificationsTypeOK
  BY DEF NotificationsInv
<1>8. LoginInv => LoginTypeOK
  BY DEF LoginInv
<1>9. OtpInv => OtpTypeOK
  BY DEF OtpInv
<1>10. TokensInv => TokensTypeOK
  BY DEF TokensInv
<1>11. RequestsInv => RequestsTypeOK
  BY DEF RequestsInv
<1>12. FareInv => FareTypeOK
  BY DEF FareInv
<1>13. DashboardInv => DashboardTypeOK
  BY DEF DashboardInv
<1>14. PagesInv => PagesTypeOK
  BY DEF PagesInv
<1> QED
  BY <1>1, <1>2, <1>3, <1>4, <1>5, <1>6, <1>7, <1>8, <1>9, <1>10, <1>11, <1>12, <1>13, <1>14 DEF ServicesInv, ServicesTypeOK

\* Every handler and table of the services keeps its type: ServicesTypeOK of
\* MCServices.
THEOREM ServicesTypeCorrect == Spec => []ServicesTypeOK
<1> QED
  BY ServicesInitInv, ServicesStepInv, ServicesInvTypes, PTL DEF Spec

\* A step of one part leaves the tables of the others as they are.
LEMMA OthersUnchanged ==
  ASSUME [Next]_vars
  PROVE  /\ part' = part
         /\ part \notin Chats => UNCHANGED <<room, message, conversations>>
         /\ part \notin Records => UNCHANGED <<address, profile, licensed, document>>
         /\ part # "login" => UNCHANGED account
         /\ part # "otp" => UNCHANGED otp
         /\ part # "fare" => UNCHANGED <<online, requested, ride>>
         /\ part # "dashboard" => UNCHANGED <<live, orders, shown>>
<1>1. CASE UNCHANGED vars
  BY <1>1 DEF vars
<1>2. ASSUME NEW p, Only(p)
      PROVE  /\ part' = part
             /\ part \notin Chats => UNCHANGED <<room, message, conversations>>
             /\ part \notin Records => UNCHANGED <<address, profile, licensed, document>>
             /\ part # "login" => UNCHANGED account
             /\ part # "otp" => UNCHANGED otp
             /\ part # "fare" => UNCHANGED <<online, requested, ride>>
             /\ part # "dashboard" => UNCHANGED <<live, orders, shown>>
  BY <1>2 DEF Only
<1>3. CASE Next
  <2>1. \E p \in Parts : Only(p)
    BY <1>3 DEF Next, Parts
  <2> QED BY <1>2, <2>1
<1> QED BY <1>1, <1>3

\* What the invariants of the parts show holds after a step as well.
LEMMA ShownNext ==
  /\ ChatInv' => RoomsWithinOverlap'
  /\ UserInv' => UserRowsWithinOverlap'
  /\ LoginInv' => LockoutHolds'
  /\ OtpInv' => TriesBounded'
  /\ FareInv' => FareAddsUp'
  /\ DashboardInv' => DashboardAddsUp'
<1>1. ChatInv => RoomsWithinOverlap
  BY ChatInvBounds
<1>2. UserInv => UserRowsWithinOverlap
  BY UserInvBounds
<1>3. LoginInv => LockoutHolds
  BY LoginInvHolds
<1>4. OtpInv => TriesBounded
  BY OtpInvHolds
<1>5. FareInv => FareAddsUp
  BY FareInvAddsUp
<1>6. DashboardInv => DashboardAddsUp
  BY DashboardInvAddsUp
<1> QED BY <1>1, <1>2, <1>3, <1>4, <1>5, <1>6, PTL

\* Whatever part runs, the tables of all of them are as these properties say.
LEMMA SideBySideInit ==
  Init => DuplicatesWithinOverlap /\ GuessesLimited /\ RoundedSumsClose
<1> SUFFICES ASSUME Init PROVE DuplicatesWithinOverlap /\ GuessesLimited /\ RoundedSumsClose
  OBVIOUS
<1>1. ChatInv /\ UserInv
  BY ChatInitInv, UserInitInv DEF Init
<1>2. LoginInv /\ OtpInv
  BY LoginInitInv, OtpInitInv DEF Init
<1>3. FareInv /\ DashboardInv
  BY FareInitInv, DashboardInitInv DEF Init
<1>4. RoomsWithinOverlap /\ UserRowsWithinOverlap
  BY <1>1, ChatInvBounds, UserInvBounds
<1>5. LockoutHolds /\ TriesBounded
  BY <1>2, LoginInvHolds, OtpInvHolds
<1>6. FareAddsUp /\ DashboardAddsUp
  BY <1>3, FareInvAddsUp, DashboardInvAddsUp
<1> QED BY <1>4, <1>5, <1>6 DEF DuplicatesWithinOverlap, GuessesLimited, RoundedSumsClose

\* Lookups: in the part that runs by its invariant, elsewhere nothing changes.
LEMMA DuplicatesStep ==
  ServicesInv' /\ DuplicatesWithinOverlap /\ [Next]_vars => DuplicatesWithinOverlap'
<1> SUFFICES ASSUME ServicesInv', DuplicatesWithinOverlap, [Next]_vars PROVE DuplicatesWithinOverlap'
  OBVIOUS
<1>1. /\ part' = part
      /\ part \notin Chats => UNCHANGED <<room, message, conversations>>
      /\ part \notin Records => UNCHANGED <<address, profile, licensed, document>>
  BY OthersUnchanged
<1>2. RoomsWithinOverlap'
  <2>1. CASE part \in Chats
    BY <1>1, <2>1, ShownNext DEF ServicesInv, Chats
  <2>2. CASE part \notin Chats
    BY <1>1, <2>2 DEF DuplicatesWithinOverlap, RoomsWithinOverlap, ActiveRooms, IsRoom
  <2> QED BY <2>1, <2>2
<1>3. UserRowsWithinOverlap'
  <2>1. CASE part \in Records
    BY <1>1, <2>1, ShownNext DEF ServicesInv, Records
  <2>2. CASE part \notin Records
    BY <1>1, <2>2 DEF DuplicatesWithinOverlap, UserRowsWithinOverlap, Defaults
  <2> QED BY <2>1, <2>2
<1> QED BY <1>2, <1>3 DEF DuplicatesWithinOverlap

\* Guesses: the same.
LEMMA GuessesStep ==
  ServicesInv' /\ GuessesLimited /\ [Next]_vars => GuessesLimited'
<1> SUFFICES ASSUME ServicesInv', GuessesLimited, [Next]_vars PROVE GuessesLimited'
  OBVIOUS
<1>1. part' = part /\ (part # "login" => UNCHANGED account) /\ (part # "otp" => UNCHANGED otp)
  BY OthersUnchanged
<1>2. LockoutHolds'
  <2>1. CASE part = "login"
    BY <1>1, <2>1, ShownNext DEF ServicesInv
  <2>2. CASE part # "login"
    BY <1>1, <2>2 DEF GuessesLimited, LockoutHolds
  <2> QED BY <2>1, <2>2
<1>3. TriesBounded'
  <2>1. CASE part = "otp"
    BY <1>1, <2>1, ShownNext DEF ServicesInv
  <2>2. CASE part # "otp"
    BY <1>1, <2>2 DEF GuessesLimited, TriesBounded
  <2> QED BY <2>1, <2>2
<1> QED BY <1>2, <1>3 DEF GuessesLimited

\* Rounding: the same.
LEMMA RoundedStep ==
  ServicesInv' /\ RoundedSumsClose /\ [Next]_vars => RoundedSumsClose'
<1> SUFFICES ASSUME ServicesInv', RoundedSumsClose, [Next]_vars PROVE RoundedSumsClose'
  OBVIOUS
<1>1. /\ part' = part
      /\ part # "fare" => UNCHANGED <<online, requested, ride>>
      /\ part # "dashboard" => UNCHANGED <<live, orders, shown>>
  BY OthersUnchanged
<1>2. FareAddsUp'
  <2>1. CASE part = "fare"
    BY <1>1, <2>1, ShownNext DEF ServicesInv
  <2>2. CASE part # "fare"
    <3>1. ride' = ride
      BY <1>1, <2>2
    <3> QED BY <3>1 DEF RoundedSumsClose, FareAddsUp
  <2> QED BY <2>1, <2>2
<1>3. DashboardAddsUp'
  <2>1. CASE part = "dashboard"
    BY <1>1, <2>1, ShownNext DEF ServicesInv
  <2>2. CASE part # "dashboard"
    <3>1. shown' = shown
      BY <1>1, <2>2
    <3> QED BY <3>1 DEF RoundedSumsClose, DashboardAddsUp
  <2> QED BY <2>1, <2>2
<1> QED BY <1>2, <1>3 DEF RoundedSumsClose

\* What a handler looks up before it writes is unique but for requests that overlap:
\* DuplicatesWithinOverlap of MCServices.
THEOREM ServicesDuplicatesOverlap == Spec => []DuplicatesWithinOverlap
<1>1. Init => ServicesInv /\ DuplicatesWithinOverlap
  BY ServicesInitInv, SideBySideInit
<1>2. ServicesInv /\ [Next]_vars => ServicesInv'
  BY ServicesStepInv
<1>3. ServicesInv' /\ DuplicatesWithinOverlap /\ [Next]_vars => DuplicatesWithinOverlap'
  BY DuplicatesStep
<1> QED BY <1>1, <1>2, <1>3, PTL DEF Spec

\* Guesses are limited up to what overlaps: GuessesLimited of MCServices.
THEOREM ServicesGuessesLimited == Spec => []GuessesLimited
<1>1. Init => ServicesInv /\ GuessesLimited
  BY ServicesInitInv, SideBySideInit
<1>2. ServicesInv /\ [Next]_vars => ServicesInv'
  BY ServicesStepInv
<1>3. ServicesInv' /\ GuessesLimited /\ [Next]_vars => GuessesLimited'
  BY GuessesStep
<1> QED BY <1>1, <1>2, <1>3, PTL DEF Spec

\* What is rounded for display adds up: RoundedSumsClose of MCServices.
THEOREM ServicesSumsClose == Spec => []RoundedSumsClose
<1>1. Init => ServicesInv /\ RoundedSumsClose
  BY ServicesInitInv, SideBySideInit
<1>2. ServicesInv /\ [Next]_vars => ServicesInv'
  BY ServicesStepInv
<1>3. ServicesInv' /\ RoundedSumsClose /\ [Next]_vars => RoundedSumsClose'
  BY RoundedStep
<1> QED BY <1>1, <1>2, <1>3, PTL DEF Spec

=============================================================================
