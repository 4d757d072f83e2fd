----------------------------- MODULE Dashboard -----------------------------
(***************************************************************************)
(* The dashboard of the admin console: the gateway puts a summary together *)
(* (gateway, src/admin) and the page shows it (web-admin,                  *)
(* src/pages/Dashboard.tsx).  The gateway asks the services at once and    *)
(* takes one that fails for one that has nothing; every service answers    *)
(* with a total and with the first rows of a page.  Users, restaurants'    *)
(* names and the month's revenue are data.                                 *)
(***************************************************************************)
EXTENDS Service, Sums

CONSTANTS
  Types,        \* of vehicles
  Hours,        \* of the day
  Restaurants,
  PageSize,     \* the rows of a page, 100 in the code
  TopCount,     \* the restaurants that are ranked, 5 in the code
  Earlier,      \* the orders of the days before
  MaxLive       \* bound: rides of a type and an hour, today's orders of a restaurant

ASSUME DashboardAssumption ==
  /\ IsFiniteSet(Types) /\ IsFiniteSet(Hours) /\ IsFiniteSet(Restaurants)
  /\ {PageSize, TopCount, Earlier, MaxLive} \subseteq Nat

VARIABLES
  live,    \* the rides in progress, by type and hour of creation
  orders,  \* today's orders, by restaurant
  shown    \* what the page has of the last summary

dashboardVars == <<job, live, orders, shown>>

LiveRides == [Types \X Hours -> 0..MaxLive]
TodaysOrders == [Restaurants -> 0..MaxLive]

NoRides == [c \in Types \X Hours |-> 0]
NoOrders == [r \in Restaurants |-> 0]

\* The rows of a table that has n.
OnePage(n) == IF n < PageSize THEN n ELSE PageSize

\* Some page of at most PageSize of the rows that f counts.
FirstRows(f) ==
  {g \in [DOMAIN f -> 0..MaxLive] :
     Total(g) = OnePage(Total(f)) /\ \A c \in DOMAIN f : g[c] <= f[c]}

BuildVehicleMix(rows) == [t \in Types |-> Sum(rows, {t} \X Hours)]

BuildRidesByHour(rows) == [h \in Hours |-> Sum(rows, Types \X {h})]

\* Some order of the restaurants by their counts, cut after TopCount.
BuildTopRestaurants(rows) ==
  {top \in SUBSET {r \in Restaurants : rows[r] > 0} :
     /\ Cardinality(top) <= TopCount
     /\ \A r \in Restaurants \ top :
          rows[r] > 0 => Cardinality(top) = TopCount /\ \A q \in top : rows[q] >= rows[r]}

\* A total is {} where the page shows a dash, the charts are where it has none.
NoSummary == [activeRides |-> {}, ordersToday |-> {}, charts |-> {}]

DashboardJob ==
  [step : {"ask"}, asked : SUBSET {"rides", "orders"}, rides : 0..MaxLive * Cardinality(Types \X Hours),
     orders : 0..MaxLive * Cardinality(Restaurants), rideRows : LiveRides, orderRows : TodaysOrders]
    \cup [step : {"fallback"}]

DashboardInit ==
  /\ AllIdle
  /\ live = NoRides /\ orders = NoOrders
  /\ shown = NoSummary

-----------------------------------------------------------------------------
(* The marketplace.                                                        *)

RidesChange(c) ==
  /\ \E n \in {live[c] - 1, live[c] + 1} \cap 0..MaxLive : live' = [live EXCEPT ![c] = n]
  /\ UNCHANGED <<job, orders, shown>>

OrderPlaced(r) ==
  /\ orders[r] < MaxLive
  /\ orders' = [orders EXCEPT ![r] = @ + 1]
  /\ UNCHANGED <<job, live, shown>>

-----------------------------------------------------------------------------
(* The summary.                                                            *)

\* The page refreshes every 30 s or by its button, one request at a time.
Refresh(s) ==
  /\ AllIdle
  /\ Goto(s, [step |-> "ask", asked |-> {"rides", "orders"}, rides |-> 0, orders |-> 0,
              rideRows |-> NoRides, orderRows |-> NoOrders])
  /\ UNCHANGED <<live, orders, shown>>

\* tryGet() of the rides in progress: nothing, if it fails.
AskRides(s) ==
  /\ At(s, "ask") /\ "rides" \in job[s].asked
  /\ \/ \E rows \in FirstRows(live) :
          Goto(s, [job[s] EXCEPT !.asked = @ \ {"rides"}, !.rides = Total(live),
                     !.rideRows = rows])
     \/ Goto(s, [job[s] EXCEPT !.asked = @ \ {"rides"}])
  /\ UNCHANGED <<live, orders, shown>>

\* The same of today's orders.
AskOrders(s) ==
  /\ At(s, "ask") /\ "orders" \in job[s].asked
  /\ \/ \E rows \in FirstRows(orders) :
          Goto(s, [job[s] EXCEPT !.asked = @ \ {"orders"}, !.orders = Total(orders),
                     !.orderRows = rows])
     \/ Goto(s, [job[s] EXCEPT !.asked = @ \ {"orders"}])
  /\ UNCHANGED <<live, orders, shown>>

\* getSummary() when every query is settled, and the page shows it.
GetSummary(s) ==
  /\ At(s, "ask") /\ job[s].asked = {}
  /\ \E top \in BuildTopRestaurants(job[s].orderRows) :
       shown' = [activeRides |-> {job[s].rides}, ordersToday |-> {job[s].orders},
                 charts |-> {[mix |-> BuildVehicleMix(job[s].rideRows),
                              hours |-> BuildRidesByHour(job[s].rideRows), top |-> top]}]
  /\ Return(s)
  /\ UNCHANGED <<live, orders>>

\* The gateway does not answer: the page asks for the totals itself ...
GatewayFails(s) ==
  /\ At(s, "ask")
  /\ Goto(s, [step |-> "fallback"])
  /\ UNCHANGED <<live, orders, shown>>

\* ... shows a dash for what fails again, and the orders of every day, because
\* `date` is not a parameter of the food service.
FetchDashboard(s) ==
  /\ At(s, "fallback")
  /\ \E rides \in {{}, {Total(live)}}, all \in {{}, {Earlier + Total(orders)}} :
       shown' = [NoSummary EXCEPT !.activeRides = rides, !.ordersToday = all]
  /\ Return(s)
  /\ UNCHANGED <<live, orders>>

\* Mutant: the share of a type is taken of all rides, not of those listed.
SharesOfAll(mix) ==
  LET total == CHOOSE n \in shown.activeRides : TRUE
  IN [t \in Types |-> IF total = 0 THEN 0 ELSE (200 * mix[t] + total) \div (2 * total)]

\* The percentage beside each type of vehicle, every one rounded for itself.
Shares(mix) ==
  LET total == Total(mix)
  IN [t \in Types |-> IF total = 0 THEN 0 ELSE (200 * mix[t] + total) \div (2 * total)]

DashboardNext ==
  \/ \E c \in Types \X Hours : RidesChange(c)
  \/ \E r \in Restaurants : OrderPlaced(r)
  \/ \E s \in Slots :
       \/ Refresh(s) \/ AskRides(s) \/ AskOrders(s) \/ GetSummary(s)
       \/ GatewayFails(s) \/ FetchDashboard(s)

DashboardSpec == DashboardInit /\ [][DashboardNext]_dashboardVars

-----------------------------------------------------------------------------
(* Properties.                                                             *)

\* The tables and the locals of the requests have their types.
DashboardTypeOK ==
  /\ live \in LiveRides /\ orders \in TodaysOrders
  /\ \A c \in shown.charts : c.top \subseteq Restaurants
  /\ job \in [Slots -> DashboardJob \cup {Idle}]

\* What the page shows of the rides adds up, whatever changes while the gateway
\* asks: the types and the hours count the same rows, a page of the total, and
\* the shares miss 100 by no more than rounding each of them can.
DashboardAddsUp ==
  \A c \in shown.charts :
    LET rows == Total(c.mix)
    IN /\ rows = Total(c.hours)
       /\ \A n \in shown.activeRides : rows = OnePage(n)
       /\ rows > 0 =>
            2 * (Total(Shares(c.mix)) - 100) \in -Cardinality(Types)..Cardinality(Types)
=============================================================================
