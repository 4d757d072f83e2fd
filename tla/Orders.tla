------------------------------- MODULE Orders -------------------------------
(***************************************************************************)
(* The life of a food order after it has been placed (food-service,        *)
(* src/orders/orders.service.ts): updateStatus() reads the order, looks    *)
(* the transition up in a table, and updates the row by its id; nothing    *)
(* ties the update to the status that was read.                            *)
(*                                                                         *)
(* A slot is one request under way; slots are reused, so their number      *)
(* bounds what overlaps and not how many requests are served.              *)
(***************************************************************************)
EXTENDS FiniteSets

CONSTANTS
  Orders,    \* the orders that may be placed
  Drivers,   \* the couriers
  NoDriver,  \* the NULL of column driverId
  Slots      \* the status updates that can be under way at once

Status  == {"NONE", "PLACED", "CONFIRMED", "PREPARING", "READY", "PICKED_UP",
            "DELIVERED", "CANCELLED"}
Holders == Drivers \cup {NoDriver}

\* The timestamp columns: which of them are not NULL.
Stamps == {"confirmedAt", "preparedAt", "pickedUpAt", "deliveredAt", "cancelledAt"}

ASSUME OrdersAssumption == NoDriver \notin Drivers

VARIABLES
  order,  \* table orders
  job     \* the update each slot has checked and will write

vars == <<order, job>>

OrderRow == [status : Status, stamps : SUBSET Stamps, paid : BOOLEAN,
             driver : Holders]
Unplaced == [status |-> "NONE", stamps |-> {}, paid |-> FALSE, driver |-> NoDriver]

Update == [step : {"write"}, order : Orders, to : Status, driver : Holders]
Idle   == [step |-> "idle"]

\* Mutant: the kitchen may be skipped.
TransitionsSkipping ==
  [st \in Status |->
     CASE st = "PLACED"    -> {"CONFIRMED", "CANCELLED"}
       [] st = "CONFIRMED" -> {"PREPARING", "PICKED_UP", "CANCELLED"}
       [] st = "PREPARING" -> {"READY", "CANCELLED"}
       [] st = "READY"     -> {"PICKED_UP", "CANCELLED"}
       [] st = "PICKED_UP" -> {"DELIVERED"}
       [] OTHER            -> {}]

\* The table `transitions`.
Transitions ==
  [st \in Status |->
     CASE st = "PLACED"    -> {"CONFIRMED", "CANCELLED"}
       [] st = "CONFIRMED" -> {"PREPARING", "CANCELLED"}
       [] st = "PREPARING" -> {"READY", "CANCELLED"}
       [] st = "READY"     -> {"PICKED_UP", "CANCELLED"}
       [] st = "PICKED_UP" -> {"DELIVERED"}
       [] OTHER            -> {}]

Init ==
  /\ order = [o \in Orders |-> Unplaced]
  /\ job = [s \in Slots |-> Idle]

\* POST /orders, seen from here: the committed order.  OrderPlacement has its
\* transaction.
Place(o) ==
  /\ order[o].status = "NONE"
  /\ order' = [order EXCEPT ![o].status = "PLACED"]
  /\ UNCHANGED job

\* findById() and the look-up in the table, for PUT /orders/:id/status.
Read(s, o, to, d) ==
  /\ job[s] = Idle
  /\ to \in Transitions[order[o].status]
  /\ job' = [job EXCEPT ![s] = [step |-> "write", order |-> o, to |-> to, driver |-> d]]
  /\ UNCHANGED order

\* The timestamps a status sets.
StampsOf(to) ==
  CASE to = "CONFIRMED" -> {"confirmedAt"}
    [] to = "READY"     -> {"preparedAt"}
    [] to = "PICKED_UP" -> {"pickedUpAt"}
    [] to = "DELIVERED" -> {"deliveredAt"}
    [] to = "CANCELLED" -> {"cancelledAt"}
    [] OTHER            -> {}

\* Mutant: the order is paid as soon as it is picked up.
UpdatedPaidEarly(row, to, d) ==
  [row EXCEPT !.status = to, !.stamps = @ \cup StampsOf(to),
              !.paid = @ \/ to = "PICKED_UP",
              !.driver = IF to = "PICKED_UP" /\ d # NoDriver THEN d ELSE @]

\* The columns the UPDATE sets for a status, on the row as it is by now.
Updated(row, to, d) ==
  [row EXCEPT !.status = to, !.stamps = @ \cup StampsOf(to),
              !.paid = @ \/ to = "DELIVERED",
              !.driver = IF to = "PICKED_UP" /\ d # NoDriver THEN d ELSE @]

Write(s) ==
  /\ job[s] # Idle
  /\ order' = [order EXCEPT ![job[s].order] = Updated(@, job[s].to, job[s].driver)]
  /\ job' = [job EXCEPT ![s] = Idle]

\* The UPDATE fails, or the process stops before it.
Abandon(s) ==
  /\ job[s] # Idle
  /\ job' = [job EXCEPT ![s] = Idle]
  /\ UNCHANGED order

\* PUT /orders/:id/assign-driver, a single UPDATE with no check: a body with
\* driverId null takes the courier away.
AssignDriver(o, d) ==
  /\ order[o].status # "NONE"
  /\ order' = [order EXCEPT ![o].driver = d]
  /\ UNCHANGED job

Next ==
  \/ \E o \in Orders : Place(o) \/ \E d \in Holders : AssignDriver(o, d)
  \/ \E s \in Slots : \/ Write(s) \/ Abandon(s)
                      \/ \E o \in Orders, to \in Status, d \in Holders : Read(s, o, to, d)

Spec == Init /\ [][Next]_vars

-----------------------------------------------------------------------------
(* Properties                                                              *)

\* Type correctness.
TypeOK ==
  /\ order \in [Orders -> OrderRow]
  /\ job \in [Slots -> Update \cup {Idle}]

Has(o, stamp) == stamp \in order[o].stamps

\* However updates overlap, an order is never handed over before it was
\* prepared, nor prepared before it was confirmed: the timestamp of a stage
\* implies those of the stages before it.
MilestonesComplete ==
  \A o \in Orders :
    /\ Has(o, "deliveredAt") => Has(o, "pickedUpAt")
    /\ Has(o, "pickedUpAt") => Has(o, "preparedAt")
    /\ Has(o, "preparedAt") => Has(o, "confirmedAt")

\* An order is paid exactly when it has been delivered, whatever its status
\* has become since.
PaidIffDelivered == \A o \in Orders : order[o].paid <=> Has(o, "deliveredAt")

\* No order is both picked up and cancelled (docs/FOOD_DELIVERY.md: pickup
\* "is the last cancellation point").
PickedUpNotCancelled ==
  \A o \in Orders : ~(Has(o, "pickedUpAt") /\ Has(o, "cancelledAt"))
=============================================================================
