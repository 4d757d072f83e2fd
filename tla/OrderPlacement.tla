--------------------------- MODULE OrderPlacement ---------------------------
(***************************************************************************)
(* Placing a food order (food-service, src/orders/orders.service.ts,       *)
(* create()): the restaurant is checked first, then one PostgreSQL         *)
(* transaction at READ COMMITTED reads the items, inserts the order and    *)
(* increments the sales counters, the items' in the order of the cart and  *)
(* the restaurant's last.  An increment keeps its row locked until the     *)
(* transaction ends; two carts that name items in different orders can     *)
(* wait for each other, and then PostgreSQL aborts one of them.            *)
(***************************************************************************)
EXTENDS Integers, Sequences, FiniteSets, Sums

CONSTANTS
  Items,       \* menu items; numbers, so that a cart can be said to be sorted
  Restaurant,  \* the restaurant's row
  Requests,    \* the POST /orders of a behaviour
  Carts,       \* the carts a request may have
  TooSmall,    \* the carts below the restaurant's minimum order value
  NoOne        \* the owner of a row nobody has locked

Rows == Items \cup {Restaurant}
Line == [item : Items, quantity : Nat]

ASSUME PlacementAssumption ==
  /\ Items \subseteq Nat
  /\ Restaurant \notin Items
  /\ NoOne \notin Requests
  /\ IsFiniteSet(Requests)
  /\ Carts \subseteq Seq(Line)
  /\ TooSmall \subseteq Carts

VARIABLES
  open,       \* restaurants.isOpen
  available,  \* the items with isAvailable
  counter,    \* menu_items.totalSold and restaurants.totalOrders, committed
  placed,     \* the requests whose order is committed
  owner,      \* the transaction that holds a row's lock
  cart,       \* what each request orders
  pc,         \* the statement each request runs next
  line,       \* the line of the cart it is at
  mem         \* the counters its transaction has written

placementVars == <<open, available, counter, placed, owner, cart, pc, line, mem>>

PlacementInit ==
  /\ open \in BOOLEAN
  /\ available \in SUBSET Items
  /\ counter = [r \in Rows |-> 0]
  /\ placed = {}
  /\ owner = [r \in Rows |-> NoOne]
  /\ cart \in [Requests -> Carts]
  /\ pc = [p \in Requests |-> "open"]
  /\ line = [p \in Requests |-> 1]
  /\ mem = [p \in Requests |-> [r \in Rows |-> 0]]

At(p, st) == pc[p] = st

Goto(p, st) ==
  /\ pc' = [pc EXCEPT ![p] = st]
  /\ line' = [line EXCEPT ![p] = 1]

\* The row locks a transaction holds are freed when it ends.
Released(p) == [r \in Rows |-> IF owner[r] = p THEN NoOne ELSE owner[r]]

\* Mutant: a failed transaction is left open on its pooled connection.
RollBackLeaked(p) ==
  /\ Goto(p, "refused")
  /\ UNCHANGED <<open, available, counter, placed, cart, mem, owner>>

RollBack(p) ==
  /\ Goto(p, "refused")
  /\ owner' = Released(p)
  /\ UNCHANGED <<open, available, counter, placed, cart, mem>>

\* Outside the transaction: an empty cart, an unknown or a closed restaurant
\* is refused.
CheckRestaurant(p) ==
  /\ At(p, "open")
  /\ Goto(p, IF cart[p] = <<>> \/ ~open THEN "refused" ELSE "item")
  /\ UNCHANGED <<open, available, counter, placed, owner, cart, mem>>

\* One item of the cart is read; after the last one the order and its lines
\* are inserted, unless the order is too small.
ReadItem(p) ==
  /\ At(p, "item")
  /\ cart[p][line[p]].item \in available
  /\ IF line[p] < Len(cart[p])
     THEN line' = [line EXCEPT ![p] = @ + 1] /\ UNCHANGED pc
     ELSE cart[p] \notin TooSmall /\ Goto(p, "count")
  /\ UNCHANGED <<open, available, counter, placed, owner, cart, mem>>

RefuseItem(p) ==
  /\ At(p, "item")
  /\ \/ cart[p][line[p]].item \notin available
     \/ line[p] = Len(cart[p]) /\ cart[p] \in TooSmall
  /\ RollBack(p)

\* Mutant: the restaurant's counter is incremented after the first item's.
NextRowRestaurantSecond(p) ==
  CASE line[p] = 1 -> cart[p][1].item
    [] line[p] = 2 -> Restaurant
    [] OTHER       -> cart[p][line[p] - 1].item

\* The counter a transaction increments next, and by how much.
NextRow(p) == IF line[p] > Len(cart[p]) THEN Restaurant ELSE cart[p][line[p]].item
Amount(p)  == IF line[p] > Len(cart[p]) THEN 1 ELSE cart[p][line[p]].quantity

\* Mutant: the counter is read and saved back, without locking its row.
IncrementUnlocked(p) ==
  /\ At(p, "count")
  /\ mem' = [mem EXCEPT ![p][NextRow(p)] =
       Amount(p) + (IF owner[NextRow(p)] = p THEN @ ELSE counter[NextRow(p)])]
  /\ owner' = [owner EXCEPT ![NextRow(p)] = p]
  /\ IF line[p] <= Len(cart[p])
     THEN line' = [line EXCEPT ![p] = @ + 1] /\ UNCHANGED pc
     ELSE Goto(p, "commit")
  /\ UNCHANGED <<open, available, counter, placed, cart>>

\* manager.increment(): SET n = n + amount, on the row as it is once no other
\* transaction holds it.
Increment(p) ==
  LET r == NextRow(p) IN
  /\ At(p, "count")
  /\ owner[r] \in {NoOne, p}
  /\ owner' = [owner EXCEPT ![r] = p]
  /\ mem' = [mem EXCEPT ![p][r] = Amount(p) + (IF owner[r] = p THEN @ ELSE counter[r])]
  /\ IF line[p] <= Len(cart[p])
     THEN line' = [line EXCEPT ![p] = @ + 1] /\ UNCHANGED pc
     ELSE Goto(p, "commit")
  /\ UNCHANGED <<open, available, counter, placed, cart>>

Commit(p) ==
  /\ At(p, "commit")
  /\ counter' = [r \in Rows |-> IF owner[r] = p THEN mem[p][r] ELSE counter[r]]
  /\ placed' = placed \cup {p}
  /\ owner' = Released(p)
  /\ Goto(p, "placed")
  /\ UNCHANGED <<open, available, cart, mem>>

\* A statement fails or the connection is lost.
Abort(p) ==
  /\ pc[p] \in {"item", "count", "commit"}
  /\ RollBack(p)

WaitsFor(p, q) == At(p, "count") /\ q # p /\ owner[NextRow(p)] = q

\* A set of transactions each of which waits for another one of the set, and
\* is waited for.
Cycle(S) == \A p \in S : /\ \E q \in S : WaitsFor(p, q)
                         /\ \E q \in S : WaitsFor(q, p)

\* PostgreSQL's deadlock detector ends one transaction of a cycle.
Victim(p) ==
  /\ \E S \in SUBSET Requests : p \in S /\ Cycle(S)
  /\ RollBack(p)

\* The merchant opens and closes the restaurant, and lists and unlists items:
\* single UPDATEs, which wait like any other for the row.
ToggleOpen ==
  /\ owner[Restaurant] = NoOne
  /\ open' = ~open
  /\ UNCHANGED <<available, counter, placed, owner, cart, pc, line, mem>>

SetAvailable(i) ==
  /\ owner[i] = NoOne
  /\ available' = IF i \in available THEN available \ {i} ELSE available \cup {i}
  /\ UNCHANGED <<open, counter, placed, owner, cart, pc, line, mem>>

Statement(p) ==
  \/ CheckRestaurant(p) \/ ReadItem(p) \/ RefuseItem(p) \/ Increment(p) \/ Commit(p)

PlacementNext ==
  \/ \E p \in Requests : Statement(p) \/ Abort(p) \/ Victim(p)
  \/ ToggleOpen
  \/ \E i \in Items : SetAvailable(i)

PlacementSpec == PlacementInit /\ [][PlacementNext]_placementVars

\* PostgreSQL executes what is sent to it and breaks deadlocks; the event loop
\* sends the next statement.
PlacementFairness ==
  \A p \in Requests : WF_placementVars(Statement(p)) /\ WF_placementVars(Victim(p))

-----------------------------------------------------------------------------
(* Properties                                                              *)

\* Type correctness.
PlacementTypeOK ==
  /\ open \in BOOLEAN
  /\ available \subseteq Items
  /\ counter \in [Rows -> Nat]
  /\ placed \subseteq Requests
  /\ owner \in [Rows -> Requests \cup {NoOne}]
  /\ cart \in [Requests -> Carts]
  /\ pc \in [Requests -> {"open", "item", "count", "commit", "placed", "refused"}]
  /\ line \in [Requests -> Nat]
  /\ \A p \in Requests : line[p] \in 1..(Len(cart[p]) + 1)
  /\ mem \in [Requests -> [Rows -> Nat]]

\* How much of item i each line of cart c orders, and request p in all.
Units(c, i)   == [k \in DOMAIN c |-> IF c[k].item = i THEN c[k].quantity ELSE 0]
Ordered(p, i) == Sum(Units(cart[p], i), DOMAIN cart[p])

\* The counters are the sums over the orders there are, whatever overlaps,
\* fails or is chosen as a deadlock victim: no increment is lost, none is kept
\* of an order that was rolled back.
CountersMatchOrders ==
  /\ \A i \in Items : counter[i] = Sum([p \in Requests |-> Ordered(p, i)], placed)
  /\ counter[Restaurant] = Cardinality(placed)

Sorted(p) ==
  \A j, k \in DOMAIN cart[p] : j < k => cart[p][j].item <= cart[p][k].item

\* Transactions can only deadlock over carts that name items in different
\* orders: the restaurant's row, which all of them need, is locked last.
OnlyUnsortedCartsDeadlock ==
  (\A p \in Requests : Sorted(p)) => \A S \in (SUBSET Requests) \ {{}} : ~Cycle(S)

\* Every POST /orders is answered: waiting for a row always ends.
EveryOrderAnswered == \A p \in Requests : <>(pc[p] \in {"placed", "refused"})
=============================================================================
