---------------------------- MODULE OrdersProofs ----------------------------
(***************************************************************************)
(* Theorems about Orders and OrderPlacement, for any number of orders,     *)
(* couriers and requests that overlap, and of items and lines of a cart.   *)
(***************************************************************************)
EXTENDS Orders, OrderPlacement, SumTheorems, TLAPS

\* The timestamps an order has once it has reached a status, also when its
\* status has been set back by a late update since.
Reached(st) ==
  CASE st \in {"CONFIRMED", "PREPARING"} -> {"confirmedAt"}
    [] st = "READY"     -> {"confirmedAt", "preparedAt"}
    [] st = "PICKED_UP" -> {"confirmedAt", "preparedAt", "pickedUpAt"}
    [] st = "DELIVERED" -> {"confirmedAt", "preparedAt", "pickedUpAt", "deliveredAt"}
    [] OTHER            -> {}

\* The strengthening: the timestamps fit the status, and an update that has
\* passed its check finds those of the stages before it, however late it is
\* written, because timestamps are never taken back.
RowSound(row) ==
  /\ Reached(row.status) \subseteq row.stamps
  /\ "deliveredAt" \in row.stamps => "pickedUpAt" \in row.stamps
  /\ "pickedUpAt" \in row.stamps => "preparedAt" \in row.stamps
  /\ "preparedAt" \in row.stamps => "confirmedAt" \in row.stamps

JobSound(j) ==
  j = Idle \/ Reached(j.to) \subseteq order[j.order].stamps \cup StampsOf(j.to)

Inv == /\ TypeOK
       /\ \A o \in Orders : RowSound(order[o])
       /\ \A s \in Slots : JobSound(job[s])

\* What updateStatus() saves is a row, with the new status and its timestamp.
LEMMA UpdatedType ==
  ASSUME NEW row \in OrderRow, NEW to \in Status, NEW d \in Holders
  PROVE  /\ Updated(row, to, d) \in OrderRow
         /\ Updated(row, to, d).status = to
         /\ Updated(row, to, d).stamps = row.stamps \cup StampsOf(to)
<1>1. StampsOf(to) \in SUBSET Stamps
  BY DEF StampsOf, Stamps
<1>2. (row.paid \/ to = "DELIVERED") \in BOOLEAN
  OBVIOUS
<1> QED
  BY <1>1, <1>2 DEF Updated, OrderRow

\* A legal transition needs no timestamp that the order lacks, but its own.
LEMMA TransitionReached ==
  ASSUME NEW st \in Status, NEW to \in Transitions[st]
  PROVE  to \in Status /\ Reached(to) \subseteq Reached(st) \cup StampsOf(to)
  BY DEF Transitions, Status, Reached, StampsOf

\* A row that has the milestones before the new status stays sound when saved.
LEMMA UpdatedSound ==
  ASSUME NEW row \in OrderRow, RowSound(row), NEW to \in Status, NEW d \in Holders,
         Reached(to) \subseteq row.stamps \cup StampsOf(to)
  PROVE  RowSound(Updated(row, to, d))
  BY UpdatedType DEF RowSound, Reached, StampsOf

\* Orders not yet placed satisfy the invariant.
LEMMA InitInv == Init => Inv
  BY DEF Init, Inv, TypeOK, RowSound, JobSound, OrderRow, Unplaced, Status, Holders,
     Reached, Idle

\* Placing, reading and saving keep it, however the updates overlap.
LEMMA StepInv == Inv /\ [Next]_vars => Inv'
<1> SUFFICES ASSUME Inv, [Next]_vars PROVE Inv'
  OBVIOUS
<1>0. /\ order \in [Orders -> OrderRow] /\ job \in [Slots -> Update \cup {Idle}]
      /\ \A o \in Orders : RowSound(order[o])
      /\ \A s \in Slots : JobSound(job[s])
  BY DEF Inv, TypeOK
<1>1. ASSUME NEW o \in Orders, Place(o) PROVE Inv'
  <2> DEFINE row == [order[o] EXCEPT !.status = "PLACED"]
  <2>1. row \in OrderRow /\ row.stamps = order[o].stamps /\ RowSound(row)
    BY <1>0, <1>1 DEF OrderRow, Status, RowSound, Reached
  <2>2. order' = [order EXCEPT ![o] = row] /\ job' = job
    BY <1>0, <1>1 DEF Place
  <2> HIDE DEF row
  <2>3. TypeOK' /\ \A p \in Orders : RowSound(order'[p])
    BY <1>0, <2>1, <2>2 DEF TypeOK
  <2>4. \A p \in Orders : order'[p].stamps = order[p].stamps
    BY <1>0, <2>1, <2>2
  <2>5. \A s \in Slots : JobSound(job[s])'
    BY <1>0, <2>2, <2>4 DEF JobSound, Update
  <2> QED
    BY <2>3, <2>5 DEF Inv
<1>2. ASSUME NEW s \in Slots, NEW o \in Orders, NEW to \in Status, NEW d \in Holders,
             Read(s, o, to, d)
      PROVE  Inv'
  <2> DEFINE j == [step |-> "write", order |-> o, to |-> to, driver |-> d]
  <2>1. j \in Update /\ job' = [job EXCEPT ![s] = j] /\ order' = order
    BY <1>2 DEF Update, Read
  <2>2. order[o].status \in Status
    BY <1>0 DEF OrderRow
  <2>3. Reached(to) \subseteq order[o].stamps \cup StampsOf(to)
    BY <1>0, <1>2, <2>2, TransitionReached DEF Read, RowSound
  <2>4. JobSound(j)'
    BY <2>1, <2>3 DEF JobSound
  <2> HIDE DEF j
  <2>5. \A t \in Slots : JobSound(job[t])'
    BY <1>0, <2>1, <2>4 DEF JobSound
  <2> QED
    BY <1>0, <2>1, <2>5 DEF Inv, TypeOK
<1>3. ASSUME NEW s \in Slots, Write(s) PROVE Inv'
  <2> DEFINE o == job[s].order
             row == Updated(order[o], job[s].to, job[s].driver)
  <2>1. /\ job[s] \in Update /\ o \in Orders /\ job[s].to \in Status
        /\ job[s].driver \in Holders /\ order[o] \in OrderRow /\ job[s] # Idle
    BY <1>0, <1>3 DEF Write, Update
  <2>2. Reached(job[s].to) \subseteq order[o].stamps \cup StampsOf(job[s].to)
    BY <1>0, <2>1 DEF JobSound
  <2>3. row \in OrderRow /\ RowSound(row) /\ order[o].stamps \subseteq row.stamps
    BY <1>0, <2>1, <2>2, UpdatedType, UpdatedSound
  <2>4. order' = [order EXCEPT ![o] = row] /\ job' = [job EXCEPT ![s] = Idle]
    BY <1>3 DEF Write
  <2> HIDE DEF o, row
  <2>5. TypeOK' /\ \A p \in Orders : RowSound(order'[p])
    BY <1>0, <2>1, <2>3, <2>4 DEF TypeOK
  <2>6. \A p \in Orders : order[p].stamps \subseteq order'[p].stamps
    BY <1>0, <2>1, <2>3, <2>4
  <2>7. \A t \in Slots : JobSound(job[t])'
    BY <1>0, <2>4, <2>6 DEF JobSound, Update
  <2> QED
    BY <2>5, <2>7 DEF Inv
<1>4. ASSUME NEW s \in Slots, Abandon(s) PROVE Inv'
  BY <1>0, <1>4 DEF Abandon, Inv, TypeOK, JobSound
<1>5. ASSUME NEW o \in Orders, NEW d \in Holders, AssignDriver(o, d) PROVE Inv'
  <2> DEFINE row == [order[o] EXCEPT !.driver = d]
  <2>1. row \in OrderRow /\ row.stamps = order[o].stamps /\ RowSound(row)
    BY <1>0, <1>5 DEF OrderRow, Holders, RowSound
  <2>2. order' = [order EXCEPT ![o] = row] /\ job' = job
    BY <1>0, <1>5 DEF AssignDriver
  <2> HIDE DEF row
  <2>3. TypeOK' /\ \A p \in Orders : RowSound(order'[p])
    BY <1>0, <2>1, <2>2 DEF TypeOK
  <2>4. \A p \in Orders : order'[p].stamps = order[p].stamps
    BY <1>0, <2>1, <2>2
  <2>5. \A s \in Slots : JobSound(job[s])'
    BY <1>0, <2>2, <2>4 DEF JobSound, Update
  <2> QED
    BY <2>3, <2>5 DEF Inv
<1>6. CASE UNCHANGED vars
  BY <1>0, <1>6 DEF vars, Inv, TypeOK, JobSound
<1> QED
  BY <1>1, <1>2, <1>3, <1>4, <1>5, <1>6 DEF Next

\* Every variable keeps its type.
THEOREM OrdersTypeCorrect == Spec => []TypeOK
<1>1. Inv => TypeOK
  BY DEF Inv
<1> QED
  BY <1>1, InitInv, StepInv, PTL DEF Spec

\* However many updates overlap, an order with the timestamp of a stage has
\* those of the stages before it: updateStatus() never skips the kitchen.
THEOREM OrdersMilestonesComplete == Spec => []MilestonesComplete
<1>1. Inv => MilestonesComplete
  BY DEF Inv, RowSound, MilestonesComplete, Has
<1> QED
  BY <1>1, InitInv, StepInv, PTL DEF Spec

PaidFits(row) == \/ row.paid = TRUE /\ "deliveredAt" \in row.stamps
                 \/ row.paid = FALSE /\ "deliveredAt" \notin row.stamps

\* updateStatus() sets the payment and the delivery time in the same save.
LEMMA UpdatedPaid ==
  ASSUME NEW row \in OrderRow, NEW to \in Status, NEW d \in Holders, PaidFits(row)
  PROVE  PaidFits(Updated(row, to, d))
<1>1. Updated(row, to, d).paid = (row.paid \/ to = "DELIVERED")
  BY DEF Updated, OrderRow
<1>2. "deliveredAt" \in StampsOf(to) <=> to = "DELIVERED"
  BY DEF StampsOf, Status
<1>3. "deliveredAt" \in Updated(row, to, d).stamps
        <=> "deliveredAt" \in row.stamps \/ to = "DELIVERED"
  BY <1>2, UpdatedType
<1>4. (row.paid \/ to = "DELIVERED") =
         IF to = "DELIVERED" \/ row.paid = TRUE THEN TRUE ELSE FALSE
  BY Zenon DEF PaidFits
<1> QED
  BY <1>1, <1>3, <1>4 DEF PaidFits

\* An order is paid exactly when it has been delivered: the two columns are
\* written by the same UPDATE and by no other.
THEOREM OrdersPaidIffDelivered == Spec => []PaidIffDelivered
<1> DEFINE Paid == \A o \in Orders : PaidFits(order[o])
<1>1. Init => Paid
  BY DEF Init, Unplaced, PaidFits
<1>2. Inv /\ Paid /\ [Next]_vars => Paid'
  <2> SUFFICES ASSUME Inv, Paid, [Next]_vars, NEW o \in Orders
               PROVE  PaidFits(order'[o])
    OBVIOUS
  <2>0. order \in [Orders -> OrderRow] /\ job \in [Slots -> Update \cup {Idle}]
    BY DEF Inv, TypeOK
  <2>1. PaidFits(order[o])
    OBVIOUS
  <2>2. CASE order' = order
    BY <2>1, <2>2
  <2>3. ASSUME NEW p \in Orders, Place(p) PROVE PaidFits(order'[o])
    BY <2>0, <2>1, <2>3 DEF Place, OrderRow, PaidFits
  <2>4. ASSUME NEW p \in Orders, NEW d \in Holders, AssignDriver(p, d)
        PROVE  PaidFits(order'[o])
    BY <2>0, <2>1, <2>4 DEF AssignDriver, OrderRow, PaidFits
  <2>5. ASSUME NEW s \in Slots, Write(s) PROVE PaidFits(order'[o])
    <3>1. job[s] \in Update /\ order[o] \in OrderRow
      BY <2>0, <2>5 DEF Write
    <3>2. job[s].order \in Orders /\ job[s].to \in Status /\ job[s].driver \in Holders
      BY <3>1 DEF Update
    <3>3. CASE job[s].order = o
      <4>1. order'[o] = Updated(order[o], job[s].to, job[s].driver)
        BY <2>0, <2>5, <3>3 DEF Write
      <4> QED
        BY <2>1, <3>1, <3>2, <4>1, UpdatedPaid
    <3>4. CASE job[s].order # o
      BY <2>0, <2>1, <2>5, <3>4 DEF Write
    <3> QED
      BY <3>3, <3>4
  <2> QED
    BY <2>2, <2>3, <2>4, <2>5 DEF Next, vars, Read, Abandon
<1>3. Paid => PaidIffDelivered
  BY Zenon DEF PaidIffDelivered, Has, PaidFits
<1> QED
  BY <1>1, <1>2, <1>3, InitInv, StepInv, PTL DEF Spec

-----------------------------------------------------------------------------
(* Placement: the sales counters.                                          *)

\* The lines of its cart that a transaction has counted, and what it has
\* therefore added to a row.
Counted(p) == IF pc[p] = "commit" THEN Len(cart[p]) ELSE line[p] - 1
Added(p, r) ==
  IF r = Restaurant THEN IF pc[p] = "commit" THEN 1 ELSE 0
                    ELSE Sum(Units(cart[p], r), 1..Counted(p))

\* A transaction owns the rows of the lines it has counted, and the
\* restaurant's row only when it has counted them all.
OwnsOnlyCounted(p, r) ==
  owner[r] = p => \/ pc[p] = "commit"
                  \/ /\ pc[p] = "count" /\ r # Restaurant
                     /\ \E k \in 1..(line[p] - 1) : cart[p][k].item = r

\* What it has added is in its copy of a row it owns, and it has added nothing
\* to any other.
CopySound(p, r) ==
  pc[p] \in {"count", "commit"} =>
    IF owner[r] = p THEN mem[p][r] = counter[r] + Added(p, r) ELSE Added(p, r) = 0

PlacementInv ==
  /\ PlacementTypeOK
  /\ \A p \in Requests : p \in placed <=> pc[p] = "placed"
  /\ \A p \in Requests, r \in Rows : OwnsOnlyCounted(p, r) /\ CopySound(p, r)
  /\ CountersMatchOrders

\* What the first lines of a cart order of a row, one line after the other.
LEMMA UnitsSum ==
  ASSUME NEW c \in Seq(Line), NEW i
  PROVE  /\ Sum(Units(c, i), 1..0) = 0
         /\ \A n \in 0..Len(c) : Sum(Units(c, i), 1..n) \in Nat
         /\ \A n \in 1..Len(c) :
              Sum(Units(c, i), 1..n) =
                Sum(Units(c, i), 1..(n - 1)) + (IF c[n].item = i THEN c[n].quantity ELSE 0)
<1> DEFINE u == Units(c, i)
<1>1. /\ DOMAIN c = 1..Len(c) /\ Len(c) \in Nat
      /\ \A k \in 1..Len(c) : c[k].quantity \in Nat
  <2>1. DOMAIN c = 1..Len(c) /\ Len(c) \in Nat /\ \A k \in 1..Len(c) : c[k] \in Line
    OBVIOUS
  <2> QED BY <2>1 DEF Line
<1>2. \A k \in 1..Len(c) : /\ u[k] = IF c[k].item = i THEN c[k].quantity ELSE 0
                           /\ u[k] \in Nat
  BY <1>1 DEF Units
<1> HIDE DEF u
<1>3. Sum(u, 1..0) = 0
  <2>1. 1..0 = {}
    OBVIOUS
  <2> QED BY <2>1, SumEmpty, Zenon
<1>4. ASSUME NEW n \in 0..Len(c) PROVE Sum(u, 1..n) \in Nat
  <2>1. IsFiniteSet(1..n) /\ \A k \in 1..n : u[k] \in Nat
    BY <1>1, <1>2, FS_Interval
  <2> QED BY <2>1, SumNat
<1>5. ASSUME NEW n \in 1..Len(c) PROVE Sum(u, 1..n) = Sum(u, 1..(n - 1)) + u[n]
  <2>1. IsFiniteSet(1..(n - 1)) /\ \A k \in 1..(n - 1) : u[k] \in Int
    <3>1. IsFiniteSet(1..(n - 1))
      BY <1>1, FS_Interval
    <3>2. \A k \in 1..(n - 1) : k \in 1..Len(c)
      BY <1>1
    <3> QED BY <1>2, <3>1, <3>2
  <2>2. n \notin 1..(n - 1) /\ u[n] \in Int /\ 1..n = (1..(n - 1)) \cup {n}
    BY <1>1, <1>2
  <2>3. Sum(u, (1..(n - 1)) \cup {n}) = Sum(u, 1..(n - 1)) + u[n]
    BY <2>1, <2>2, SumAdd
  <2> QED BY <2>2, <2>3, Zenon
<1> QED
  BY <1>2, <1>3, <1>4, <1>5 DEF u

\* The rows a transaction writes and the amounts are rows and numbers.
LEMMA NextRowType ==
  ASSUME PlacementTypeOK, NEW p \in Requests
  PROVE  /\ cart[p] \in Seq(Line) /\ Len(cart[p]) \in Nat
         /\ line[p] \in 1..(Len(cart[p]) + 1)
         /\ NextRow(p) \in Rows /\ Amount(p) \in Nat
         /\ line[p] <= Len(cart[p]) => /\ NextRow(p) = cart[p][line[p]].item
                                       /\ NextRow(p) \in Items
                                       /\ Amount(p) = cart[p][line[p]].quantity
         /\ line[p] > Len(cart[p]) => NextRow(p) = Restaurant /\ Amount(p) = 1
<1>1. cart[p] \in Seq(Line) /\ line[p] \in 1..(Len(cart[p]) + 1)
  BY PlacementAssumption DEF PlacementTypeOK
<1>2. line[p] <= Len(cart[p]) => cart[p][line[p]] \in Line
  BY <1>1
<1> QED
  BY <1>1, <1>2 DEF NextRow, Amount, Rows, Line

\* A new placement has added nothing and orders nothing yet.
LEMMA PlacementInitInv == PlacementInit => PlacementInv
<1> SUFFICES ASSUME PlacementInit PROVE PlacementInv
  OBVIOUS
<1>1. PlacementTypeOK
  <2>1. ASSUME NEW p \in Requests PROVE line[p] \in Nat /\ line[p] \in 1..(Len(cart[p]) + 1)
    <3>1. cart[p] \in Seq(Line) /\ line[p] = 1
      BY PlacementAssumption DEF PlacementInit
    <3> QED BY <3>1
  <2> QED BY <2>1 DEF PlacementInit, PlacementTypeOK
<1>2. \A p \in Requests, r \in Rows : OwnsOnlyCounted(p, r) /\ CopySound(p, r)
  BY PlacementAssumption DEF PlacementInit, OwnsOnlyCounted, CopySound
<1>3. CountersMatchOrders
  BY SumEmpty, FS_EmptySet DEF PlacementInit, CountersMatchOrders, Rows
<1> QED
  BY <1>1, <1>2, <1>3 DEF PlacementInv, PlacementInit

\* Every step keeps the types.
LEMMA PlacementTypeStep ==
  PlacementTypeOK /\ [PlacementNext]_placementVars => PlacementTypeOK'
<1> SUFFICES ASSUME PlacementTypeOK, [PlacementNext]_placementVars
             PROVE  PlacementTypeOK'
  OBVIOUS
<1> USE DEF PlacementTypeOK
<1>0. /\ \A p \in Requests : cart[p] \in Seq(Line) /\ Len(cart[p]) \in Nat
      /\ \A p : Released(p) \in [Rows -> Requests \cup {NoOne}]
  BY PlacementAssumption DEF Released
<1>1. ASSUME NEW p \in Requests, CheckRestaurant(p) PROVE PlacementTypeOK'
  BY <1>0, <1>1 DEF CheckRestaurant, Goto
<1>2. ASSUME NEW p \in Requests, ReadItem(p) PROVE PlacementTypeOK'
  <2>1. /\ line' \in [Requests -> Nat]
        /\ \A q \in Requests : line'[q] \in 1..(Len(cart[q]) + 1)
    <3>1. \/ line' = [line EXCEPT ![p] = line[p] + 1] /\ line[p] <= Len(cart[p])
          \/ line' = [line EXCEPT ![p] = 1]
      BY <1>0, <1>2 DEF ReadItem, Goto
    <3>2. /\ 1 \in 1..(Len(cart[p]) + 1)
          /\ line[p] <= Len(cart[p]) => line[p] + 1 \in 1..(Len(cart[p]) + 1)
      <4>1. Len(cart[p]) \in Nat /\ line[p] \in 1..(Len(cart[p]) + 1)
        BY <1>0
      <4> QED BY <4>1
    <3>3. PICK n \in 1..(Len(cart[p]) + 1) : line' = [line EXCEPT ![p] = n]
      BY <3>1, <3>2, Zenon
    <3> QED BY <3>3
  <2>2. pc' \in [Requests -> {"open", "item", "count", "commit", "placed", "refused"}]
    BY <1>2 DEF ReadItem, Goto
  <2> QED BY <1>2, <2>1, <2>2 DEF ReadItem
<1>3. ASSUME NEW p \in Requests, RollBack(p) PROVE PlacementTypeOK'
  BY <1>0, <1>3 DEF RollBack, Goto
<1>4. ASSUME NEW p \in Requests, Increment(p) PROVE PlacementTypeOK'
  <2>1. /\ line[p] \in 1..(Len(cart[p]) + 1) /\ NextRow(p) \in Rows /\ Amount(p) \in Nat
    BY NextRowType
  <2>2. Amount(p) + (IF owner[NextRow(p)] = p THEN mem[p][NextRow(p)] ELSE counter[NextRow(p)])
          \in Nat
    BY <2>1
  <2>3. owner' \in [Rows -> Requests \cup {NoOne}]
    BY <1>4 DEF Increment
  <2>4. mem' \in [Requests -> [Rows -> Nat]]
    <3>1. mem' = [mem EXCEPT ![p][NextRow(p)] = Amount(p) +
                   (IF owner[NextRow(p)] = p THEN mem[p][NextRow(p)] ELSE counter[NextRow(p)])]
      BY <1>4 DEF Increment
    <3> QED BY <2>2, <3>1
  <2>5. pc' \in [Requests -> {"open", "item", "count", "commit", "placed", "refused"}]
    BY <1>4 DEF Increment, Goto
  <2>6. /\ line' \in [Requests -> Nat]
        /\ \A q \in Requests : line'[q] \in 1..(Len(cart[q]) + 1)
    <3>1. \/ line' = [line EXCEPT ![p] = line[p] + 1] /\ line[p] <= Len(cart[p])
          \/ line' = [line EXCEPT ![p] = 1]
      BY <1>0, <1>4 DEF Increment, Goto
    <3>2. /\ 1 \in 1..(Len(cart[p]) + 1)
          /\ line[p] <= Len(cart[p]) => line[p] + 1 \in 1..(Len(cart[p]) + 1)
      <4>1. Len(cart[p]) \in Nat /\ line[p] \in 1..(Len(cart[p]) + 1)
        BY <1>0
      <4> QED BY <4>1
    <3>3. PICK n \in 1..(Len(cart[p]) + 1) : line' = [line EXCEPT ![p] = n]
      BY <3>1, <3>2, Zenon
    <3> QED BY <3>3
  <2> QED BY <1>4, <2>3, <2>4, <2>5, <2>6 DEF Increment
<1>5. ASSUME NEW p \in Requests, Commit(p) PROVE PlacementTypeOK'
  BY <1>0, <1>5 DEF Commit, Goto
<1>6. CASE ToggleOpen \/ \E i \in Items : SetAvailable(i)
  BY <1>6 DEF ToggleOpen, SetAvailable
<1>7. CASE UNCHANGED placementVars
  BY <1>7 DEF placementVars
<1> QED
  BY <1>1, <1>2, <1>3, <1>4, <1>5, <1>6, <1>7
     DEF PlacementNext, Statement, RefuseItem, Abort, Victim

\* A request that does not move, and whose rows no one else writes, is as sound
\* as before.
LEMMA Bystander ==
  ASSUME NEW q \in Requests, NEW r \in Rows, OwnsOnlyCounted(q, r), CopySound(q, r),
         pc'[q] = pc[q], line'[q] = line[q], cart'[q] = cart[q], mem'[q] = mem[q],
         owner'[r] = q <=> owner[r] = q, owner[r] = q => counter'[r] = counter[r]
  PROVE  OwnsOnlyCounted(q, r)' /\ CopySound(q, r)'
<1>1. Added(q, r)' = Added(q, r)
  BY DEF Added, Counted
<1> HIDE DEF Added
<1>2. OwnsOnlyCounted(q, r)'
  BY DEF OwnsOnlyCounted
<1>3. CopySound(q, r)'
  BY <1>1 DEF CopySound
<1> QED BY <1>2, <1>3

\* The counters match the orders as long as neither changes.
LEMMA CountersKept ==
  ASSUME CountersMatchOrders, UNCHANGED <<cart, counter, placed>>
  PROVE  CountersMatchOrders'
BY DEF CountersMatchOrders, Ordered

\* One more line counted, or the restaurant after the last one, is one more
\* number added to the row that is written and to no other.
LEMMA CountOne ==
  ASSUME PlacementTypeOK, NEW p \in Requests, Increment(p), NEW r \in Rows
  PROVE  /\ Added(p, r) \in Nat
         /\ Added(p, r)' = Added(p, r) + (IF r = NextRow(p) THEN Amount(p) ELSE 0)
<1> DEFINE c == cart[p]
<1>1. /\ c \in Seq(Line) /\ Len(c) \in Nat /\ line[p] \in 1..(Len(c) + 1)
      /\ NextRow(p) \in Rows /\ Amount(p) \in Nat
      /\ line[p] <= Len(c) => /\ NextRow(p) = c[line[p]].item /\ NextRow(p) \in Items
                              /\ Amount(p) = c[line[p]].quantity
      /\ line[p] > Len(c) => NextRow(p) = Restaurant /\ Amount(p) = 1
  BY NextRowType
<1>2. /\ pc[p] = "count" /\ cart' = cart
      /\ line[p] <= Len(c) => pc'[p] = "count" /\ line'[p] = line[p] + 1
      /\ line[p] > Len(c) => pc'[p] = "commit"
  BY <1>1 DEF Increment, At, Goto, PlacementTypeOK
<1>3. Restaurant \notin Items
  BY PlacementAssumption
<1>4. CASE r = Restaurant
  BY <1>1, <1>2, <1>3, <1>4 DEF Added
<1>5. CASE r # Restaurant
  <2> DEFINE u == Units(c, r)
  <2>1. /\ \A n \in 0..Len(c) : Sum(u, 1..n) \in Nat
        /\ \A n \in 1..Len(c) :
              Sum(u, 1..n) =
                Sum(u, 1..(n - 1)) + (IF c[n].item = r THEN c[n].quantity ELSE 0)
    BY <1>1, UnitsSum
  <2>2. /\ Added(p, r) = Sum(u, 1..(line[p] - 1))
        /\ Added(p, r)' = IF line[p] <= Len(c) THEN Sum(u, 1..((line[p] + 1) - 1))
                                               ELSE Sum(u, 1..Len(c))
    BY <1>1, <1>2, <1>5 DEF Added, Counted
  <2> HIDE DEF u, c
  <2>3. Added(p, r) \in Nat
    BY <1>1, <2>1, <2>2
  <2>4. CASE line[p] <= Len(c)
    <3>1. (line[p] + 1) - 1 = line[p] /\ line[p] \in 1..Len(c)
      BY <1>1, <2>4
    <3>2. Added(p, r)' = Sum(u, 1..line[p])
      BY <2>2, <2>4, <3>1
    <3>3. Added(p, r)' = Added(p, r) + (IF c[line[p]].item = r THEN c[line[p]].quantity ELSE 0)
      BY <2>1, <2>2, <3>1, <3>2
    <3> QED BY <1>1, <2>3, <2>4, <3>3
  <2>5. CASE line[p] > Len(c)
    <3>1. line[p] - 1 = Len(c)
      BY <1>1, <2>5
    <3>2. Added(p, r)' = Added(p, r)
      BY <1>1, <2>2, <2>5, <3>1
    <3> QED BY <1>1, <1>5, <2>3, <2>5, <3>2
  <2> QED BY <1>1, <2>4, <2>5
<1> QED BY <1>4, <1>5

\* What a transaction that commits has added is what its request orders.
LEMMA AddedAtCommit ==
  ASSUME PlacementTypeOK, NEW p \in Requests, pc[p] = "commit"
  PROVE  /\ \A i \in Items : Added(p, i) = Ordered(p, i) /\ Ordered(p, i) \in Nat
         /\ Added(p, Restaurant) = 1
<1>1. cart[p] \in Seq(Line) /\ Len(cart[p]) \in Nat /\ DOMAIN cart[p] = 1..Len(cart[p])
  BY NextRowType
<1>2. ASSUME NEW i \in Items PROVE Added(p, i) = Ordered(p, i) /\ Ordered(p, i) \in Nat
  <2>1. i # Restaurant
    BY PlacementAssumption
  <2>2. Added(p, i) = Ordered(p, i) /\ Ordered(p, i) = Sum(Units(cart[p], i), 1..Len(cart[p]))
    BY <1>1, <2>1 DEF Added, Counted, Ordered
  <2>3. \A n \in 0..Len(cart[p]) : Sum(Units(cart[p], i), 1..n) \in Nat
    BY <1>1, UnitsSum
  <2> QED BY <1>1, <2>2, <2>3
<1> QED BY <1>2 DEF Added

\* What an order asks of an item is a number, also before it is placed.
LEMMA OrderedType ==
  ASSUME PlacementTypeOK, NEW p \in Requests, NEW i \in Items PROVE Ordered(p, i) \in Nat
<1>1. cart[p] \in Seq(Line) /\ Len(cart[p]) \in Nat /\ DOMAIN cart[p] = 1..Len(cart[p])
  BY NextRowType
<1>2. \A n \in 0..Len(cart[p]) : Sum(Units(cart[p], i), 1..n) \in Nat
  BY <1>1, UnitsSum
<1> QED BY <1>1, <1>2 DEF Ordered

\* An increment keeps the counters and the copies sound: a row is copied under
\* the lock, and the lock is kept.
LEMMA IncrementInv ==
  ASSUME PlacementInv, NEW p \in Requests, Increment(p), PlacementTypeOK'
  PROVE  PlacementInv'
<1>0. /\ PlacementTypeOK /\ CountersMatchOrders
      /\ \A q \in Requests, r \in Rows : OwnsOnlyCounted(q, r) /\ CopySound(q, r)
      /\ \A q \in Requests : q \in placed <=> pc[q] = "placed"
  BY DEF PlacementInv
<1> DEFINE n == NextRow(p)
<1>1. /\ n \in Rows /\ Amount(p) \in Nat /\ p # NoOne
      /\ line[p] \in 1..(Len(cart[p]) + 1) /\ Len(cart[p]) \in Nat
      /\ line[p] <= Len(cart[p]) => n = cart[p][line[p]].item /\ n \in Items
      /\ line[p] > Len(cart[p]) => n = Restaurant
  BY <1>0, NextRowType, PlacementAssumption
<1>2. /\ pc[p] = "count" /\ owner[n] \in {NoOne, p}
      /\ owner' = [owner EXCEPT ![n] = p]
      /\ mem' = [mem EXCEPT ![p][n] =
                   Amount(p) + (IF owner[n] = p THEN mem[p][n] ELSE counter[n])]
      /\ UNCHANGED <<cart, counter, placed>>
      /\ \A q \in Requests \ {p} : pc'[q] = pc[q] /\ line'[q] = line[q]
      /\ line[p] <= Len(cart[p]) => pc'[p] = "count" /\ line'[p] = line[p] + 1
      /\ line[p] > Len(cart[p]) => pc'[p] = "commit"
  BY <1>0, <1>1 DEF Increment, At, Goto, PlacementTypeOK
<1>3. \A r \in Rows : /\ owner'[r] = IF r = n THEN p ELSE owner[r]
                      /\ mem'[p][r] = IF r = n
                           THEN Amount(p) + (IF owner[n] = p THEN mem[p][n] ELSE counter[n])
                           ELSE mem[p][r]
                      /\ counter'[r] = counter[r] /\ counter[r] \in Nat /\ mem[p][r] \in Nat
  BY <1>0, <1>1, <1>2 DEF PlacementTypeOK
<1>4. \A q \in Requests \ {p} : mem'[q] = mem[q]
  BY <1>0, <1>2 DEF PlacementTypeOK
<1> HIDE DEF n
<1>5. ASSUME NEW q \in Requests \ {p}, NEW r \in Rows
      PROVE  OwnsOnlyCounted(q, r)' /\ CopySound(q, r)'
  <2>1. owner'[r] = q <=> owner[r] = q
    BY <1>1, <1>2, <1>3, PlacementAssumption
  <2> QED BY <1>0, <1>2, <1>3, <1>4, <2>1, Bystander
<1>6. ASSUME NEW r \in Rows PROVE OwnsOnlyCounted(p, r)' /\ CopySound(p, r)'
  <2>1. /\ Added(p, r) \in Nat
        /\ Added(p, r)' = Added(p, r) + (IF r = n THEN Amount(p) ELSE 0)
    BY <1>0, CountOne DEF n
  <2>2. OwnsOnlyCounted(p, r) /\ CopySound(p, r)
    BY <1>0
  <2>3. OwnsOnlyCounted(p, r)'
    <3>1. CASE line[p] > Len(cart[p])
      BY <1>2, <3>1 DEF OwnsOnlyCounted
    <3>2. CASE line[p] <= Len(cart[p])
      <4>1. n # Restaurant /\ line[p] \in 1..(line'[p] - 1) /\ cart'[p] = cart[p]
        BY <1>1, <1>2, <3>2, PlacementAssumption
      <4>2. \A k \in 1..(line[p] - 1) : k \in 1..(line'[p] - 1)
        BY <1>1, <1>2, <3>2
      <4>3. CASE r = n
        BY <1>1, <1>2, <3>2, <4>1, <4>3 DEF OwnsOnlyCounted
      <4>4. CASE r # n
        BY <1>2, <1>3, <2>2, <3>2, <4>1, <4>2, <4>4 DEF OwnsOnlyCounted
      <4> QED BY <4>3, <4>4
    <3> QED BY <1>1, <3>1, <3>2
  <2>4. CopySound(p, r)'
    <3>1. IF owner[r] = p THEN mem[p][r] = counter[r] + Added(p, r) ELSE Added(p, r) = 0
      BY <1>2, <2>2 DEF CopySound
    <3>2. CASE r = n
      <4>1. owner'[r] = p /\ mem'[p][r] = counter'[r] + Added(p, r)'
        BY <1>1, <1>3, <2>1, <3>1, <3>2
      <4> QED BY <4>1 DEF CopySound
    <3>3. CASE r # n
      <4>1. IF owner'[r] = p THEN mem'[p][r] = counter'[r] + Added(p, r)' ELSE Added(p, r)' = 0
        BY <1>1, <1>3, <2>1, <3>1, <3>3
      <4> QED BY <4>1 DEF CopySound
    <3> QED BY <3>2, <3>3
  <2> QED BY <2>3, <2>4
<1>7. \A q \in Requests : q \in placed' <=> pc'[q] = "placed"
  BY <1>0, <1>1, <1>2
<1>8. CountersMatchOrders'
  BY <1>0, <1>2, CountersKept
<1> QED BY <1>5, <1>6, <1>7, <1>8 DEF PlacementInv

\* A commit adds to every counter exactly what the new order orders.
LEMMA CommitInv ==
  ASSUME PlacementInv, NEW p \in Requests, Commit(p), PlacementTypeOK'
  PROVE  PlacementInv'
<1>0. /\ PlacementTypeOK /\ CountersMatchOrders /\ IsFiniteSet(Requests)
      /\ \A q \in Requests, r \in Rows : OwnsOnlyCounted(q, r) /\ CopySound(q, r)
      /\ \A q \in Requests : q \in placed <=> pc[q] = "placed"
  BY PlacementAssumption DEF PlacementInv
<1>1. /\ pc[p] = "commit" /\ pc'[p] = "placed" /\ p # NoOne
      /\ placed' = placed \cup {p} /\ p \notin placed
      /\ cart' = cart /\ mem' = mem
      /\ \A q \in Requests \ {p} : pc'[q] = pc[q] /\ line'[q] = line[q]
      /\ \A r \in Rows : /\ owner'[r] = IF owner[r] = p THEN NoOne ELSE owner[r]
                         /\ counter'[r] = IF owner[r] = p THEN mem[p][r] ELSE counter[r]
                         /\ counter[r] \in Nat
  BY <1>0, PlacementAssumption DEF Commit, At, Goto, Released, PlacementTypeOK
<1>2. ASSUME NEW q \in Requests \ {p}, NEW r \in Rows
      PROVE  OwnsOnlyCounted(q, r)' /\ CopySound(q, r)'
  <2>1. /\ owner'[r] = q <=> owner[r] = q
        /\ owner[r] = q => counter'[r] = counter[r]
    BY <1>1, PlacementAssumption
  <2> QED BY <1>0, <1>1, <2>1, Bystander
<1>3. ASSUME NEW r \in Rows PROVE OwnsOnlyCounted(p, r)' /\ CopySound(p, r)'
  BY <1>1 DEF OwnsOnlyCounted, CopySound
<1>4. \A q \in Requests : q \in placed' <=> pc'[q] = "placed"
  BY <1>0, <1>1
<1>5. ASSUME NEW r \in Rows PROVE counter'[r] = counter[r] + Added(p, r)
  <2>1. Added(p, r) \in Nat
    BY <1>0, <1>1, AddedAtCommit DEF Rows
  <2>2. CopySound(p, r)
    BY <1>0
  <2>3. IF owner[r] = p THEN mem[p][r] = counter[r] + Added(p, r) ELSE Added(p, r) = 0
    BY <1>1, <2>2 DEF CopySound
  <2> QED BY <1>1, <2>1, <2>3
<1>6. IsFiniteSet(placed) /\ placed \subseteq Requests
  BY <1>0, FS_Subset DEF PlacementTypeOK
<1>7. CountersMatchOrders'
  <2>1. counter'[Restaurant] = Cardinality(placed')
    <3>1. Cardinality(placed \cup {p}) = Cardinality(placed) + 1
      BY <1>1, <1>6, FS_AddElement
    <3>2. counter'[Restaurant] = counter[Restaurant] + 1
      BY <1>0, <1>1, <1>5, AddedAtCommit DEF Rows
    <3>3. counter[Restaurant] = Cardinality(placed)
      BY <1>0 DEF CountersMatchOrders
    <3> QED BY <1>1, <3>1, <3>2, <3>3
  <2>2. ASSUME NEW i \in Items
        PROVE  counter'[i] = Sum([q \in Requests |-> Ordered(q, i)'], placed')
    <3> DEFINE f == [q \in Requests |-> Ordered(q, i)]
    <3>1. [q \in Requests |-> Ordered(q, i)'] = f
      BY <1>1 DEF Ordered
    <3>2. \A q \in Requests : f[q] \in Nat
      BY <1>0, OrderedType
    <3>3. f[p] = Added(p, i)
      BY <1>0, <1>1, AddedAtCommit
    <3>4. counter[i] = Sum(f, placed)
      BY <1>0 DEF CountersMatchOrders
    <3> HIDE DEF f
    <3>5. Sum(f, placed \cup {p}) = Sum(f, placed) + f[p]
      <4>1. \A q \in placed : f[q] \in Int
        BY <1>6, <3>2
      <4>2. f[p] \in Int
        BY <3>2
      <4> QED BY <1>1, <1>6, <4>1, <4>2, SumAdd
    <3>6. counter'[i] = Sum(f, placed')
      <4>1. i \in Rows
        BY DEF Rows
      <4>2. counter'[i] = Sum(f, placed \cup {p})
        BY <1>5, <3>3, <3>4, <3>5, <4>1
      <4> QED BY <1>1, <4>2, Zenon
    <3> QED BY <3>1, <3>6
  <2> QED BY <2>1, <2>2 DEF CountersMatchOrders
<1> QED BY <1>2, <1>3, <1>4, <1>7 DEF PlacementInv

\* Every step keeps the copies, the owners and the counters sound.
LEMMA PlacementStepInv ==
  PlacementInv /\ [PlacementNext]_placementVars => PlacementInv'
<1> SUFFICES ASSUME PlacementInv, [PlacementNext]_placementVars PROVE PlacementInv'
  OBVIOUS
<1>0. /\ PlacementTypeOK /\ PlacementTypeOK' /\ CountersMatchOrders
      /\ \A q \in Requests, r \in Rows : OwnsOnlyCounted(q, r) /\ CopySound(q, r)
      /\ \A q \in Requests : q \in placed <=> pc[q] = "placed"
      /\ NoOne \notin Requests
  BY PlacementTypeStep, PlacementAssumption DEF PlacementInv
<1>1. ASSUME NEW p \in Requests, CheckRestaurant(p) PROVE PlacementInv'
  <2>1. /\ pc[p] = "open" /\ pc'[p] \in {"refused", "item"}
        /\ UNCHANGED <<counter, placed, owner, cart, mem>>
        /\ \A q \in Requests \ {p} : pc'[q] = pc[q] /\ line'[q] = line[q]
    BY <1>0, <1>1 DEF CheckRestaurant, At, Goto, PlacementTypeOK
  <2>2. ASSUME NEW q \in Requests \ {p}, NEW r \in Rows
        PROVE  OwnsOnlyCounted(q, r)' /\ CopySound(q, r)'
    BY <1>0, <2>1, Bystander
  <2>3. ASSUME NEW r \in Rows PROVE OwnsOnlyCounted(p, r)' /\ CopySound(p, r)'
    <3>1. owner[r] # p
      BY <1>0, <2>1 DEF OwnsOnlyCounted
    <3> QED BY <2>1, <3>1 DEF OwnsOnlyCounted, CopySound
  <2>4. (\A q \in Requests : q \in placed <=> pc[q] = "placed")' /\ CountersMatchOrders'
    BY <1>0, <2>1, CountersKept
  <2> QED BY <1>0, <2>2, <2>3, <2>4 DEF PlacementInv
<1>2. ASSUME NEW p \in Requests, ReadItem(p) PROVE PlacementInv'
  <2>1. /\ pc[p] = "item"
        /\ pc'[p] = "item" \/ (pc'[p] = "count" /\ line'[p] = 1)
        /\ UNCHANGED <<counter, placed, owner, cart, mem>>
        /\ \A q \in Requests \ {p} : pc'[q] = pc[q] /\ line'[q] = line[q]
    BY <1>0, <1>2 DEF ReadItem, At, Goto, PlacementTypeOK
  <2>2. ASSUME NEW q \in Requests \ {p}, NEW r \in Rows
        PROVE  OwnsOnlyCounted(q, r)' /\ CopySound(q, r)'
    BY <1>0, <2>1, Bystander
  <2>3. ASSUME NEW r \in Rows PROVE OwnsOnlyCounted(p, r)' /\ CopySound(p, r)'
    <3>1. owner[r] # p
      BY <1>0, <2>1 DEF OwnsOnlyCounted
    <3>2. OwnsOnlyCounted(p, r)'
      BY <2>1, <3>1 DEF OwnsOnlyCounted
    <3>3. CASE pc'[p] = "item"
      BY <3>2, <3>3 DEF CopySound
    <3>4. CASE pc'[p] = "count" /\ line'[p] = 1
      <4>1. Added(p, r)' = IF r = Restaurant THEN 0 ELSE Sum(Units(cart[p], r), 1..(1 - 1))
        BY <2>1, <3>4 DEF Added, Counted
      <4>2. 1 - 1 = 0 /\ Sum(Units(cart[p], r), 1..0) = 0
        BY <1>0, NextRowType, UnitsSum
      <4>3. Added(p, r)' = 0
        BY <4>1, <4>2
      <4> QED BY <2>1, <3>1, <3>2, <4>3 DEF CopySound
    <3> QED BY <2>1, <3>3, <3>4
  <2>4. (\A q \in Requests : q \in placed <=> pc[q] = "placed")' /\ CountersMatchOrders'
    BY <1>0, <2>1, CountersKept
  <2> QED BY <1>0, <2>2, <2>3, <2>4 DEF PlacementInv
<1>3. ASSUME NEW p \in Requests, RollBack(p), pc[p] # "placed" PROVE PlacementInv'
  <2>1. /\ pc'[p] = "refused"
        /\ UNCHANGED <<counter, placed, cart, mem>>
        /\ \A q \in Requests \ {p} : pc'[q] = pc[q] /\ line'[q] = line[q]
        /\ \A r \in Rows : owner'[r] = IF owner[r] = p THEN NoOne ELSE owner[r]
    BY <1>0, <1>3 DEF RollBack, Goto, Released, PlacementTypeOK
  <2>2. ASSUME NEW q \in Requests \ {p}, NEW r \in Rows
        PROVE  OwnsOnlyCounted(q, r)' /\ CopySound(q, r)'
    <3>1. owner'[r] = q <=> owner[r] = q
      BY <1>0, <2>1
    <3> QED BY <1>0, <2>1, <3>1, Bystander
  <2>3. ASSUME NEW r \in Rows PROVE OwnsOnlyCounted(p, r)' /\ CopySound(p, r)'
    BY <1>0, <2>1 DEF OwnsOnlyCounted, CopySound
  <2>4. (\A q \in Requests : q \in placed <=> pc[q] = "placed")' /\ CountersMatchOrders'
    BY <1>0, <1>3, <2>1, CountersKept
  <2> QED BY <1>0, <2>2, <2>3, <2>4 DEF PlacementInv
<1>4. ASSUME NEW p \in Requests, Increment(p) PROVE PlacementInv'
  BY <1>0, <1>4, IncrementInv
<1>5. ASSUME NEW p \in Requests, Commit(p) PROVE PlacementInv'
  BY <1>0, <1>5, CommitInv
<1>6. CASE \/ UNCHANGED placementVars \/ ToggleOpen \/ \E i \in Items : SetAvailable(i)
  <2>1. UNCHANGED <<counter, placed, owner, cart, pc, line, mem>>
    BY <1>6 DEF placementVars, ToggleOpen, SetAvailable
  <2>2. ASSUME NEW q \in Requests, NEW r \in Rows
        PROVE  OwnsOnlyCounted(q, r)' /\ CopySound(q, r)'
    BY <1>0, <2>1, Bystander
  <2> QED BY <1>0, <2>1, <2>2, CountersKept DEF PlacementInv
<1>7. ASSUME NEW p \in Requests, RefuseItem(p) \/ Abort(p) \/ Victim(p)
      PROVE  RollBack(p) /\ pc[p] # "placed"
  BY <1>7 DEF RefuseItem, Abort, Victim, Cycle, WaitsFor, At
<1> QED
  BY <1>1, <1>2, <1>3, <1>4, <1>5, <1>6, <1>7 DEF PlacementNext, Statement

\* The invariant holds in every behaviour of placements.
LEMMA PlacementInvariant == PlacementSpec => []PlacementInv
BY PlacementInitInv, PlacementStepInv, PTL DEF PlacementSpec

\* The rows, the locks and what a placement of create() holds have their types.
THEOREM PlacementTyped == PlacementSpec => []PlacementTypeOK
<1>1. PlacementInv => PlacementTypeOK
  BY DEF PlacementInv
<1> QED BY <1>1, PlacementInvariant, PTL

\* The sales counters are the sums over the committed orders, for any number
\* of requests, items and lines.
THEOREM PlacementCountersMatchOrders == PlacementSpec => []CountersMatchOrders
<1>1. PlacementInv => CountersMatchOrders
  BY DEF PlacementInv
<1> QED BY <1>1, PlacementInvariant, PTL

\* Of two transactions with sorted carts that are in a cycle the one that is
\* waited for waits for a later item, and none waits for the restaurant.
LEMMA WaitsUpward ==
  ASSUME PlacementInv, NEW S \in SUBSET Requests, Cycle(S),
         NEW p \in S, NEW q \in S, WaitsFor(p, q), Sorted(q)
  PROVE  NextRow(p) \in Nat /\ NextRow(q) \in Nat /\ NextRow(p) < NextRow(q)
<1>0. PlacementTypeOK /\ \A u \in Requests, r \in Rows : OwnsOnlyCounted(u, r)
  BY DEF PlacementInv
<1>1. ASSUME NEW u \in S
      PROVE  /\ u \in Requests /\ pc[u] = "count" /\ NextRow(u) \in Items
             /\ line[u] <= Len(cart[u])
             /\ \E v \in S : v # u /\ owner[NextRow(u)] = v
  <2>1. PICK v \in S : WaitsFor(u, v)
    BY DEF Cycle
  <2>2. /\ u \in Requests /\ v \in Requests /\ pc[u] = "count" /\ v # u
        /\ owner[NextRow(u)] = v
    BY <2>1 DEF WaitsFor, At
  <2>3. PICK w \in S : WaitsFor(v, w)
    BY DEF Cycle
  <2>4. pc[v] = "count"
    BY <2>3 DEF WaitsFor, At
  <2>5. NextRow(u) \in Rows
    BY <1>0, <2>2, NextRowType
  <2>6. NextRow(u) # Restaurant
    BY <1>0, <2>2, <2>4, <2>5 DEF OwnsOnlyCounted
  <2>7. ~(line[u] > Len(cart[u])) /\ Len(cart[u]) \in Nat /\ line[u] \in Nat
    BY <1>0, <2>2, <2>6, NextRowType
  <2> QED BY <2>2, <2>5, <2>6, <2>7 DEF Rows
<1>2. /\ pc[q] = "count" /\ owner[NextRow(p)] = q
      /\ NextRow(p) \in Items /\ NextRow(q) \in Items /\ owner[NextRow(q)] # q
  BY <1>1 DEF WaitsFor
<1>3. PICK k \in 1..(line[q] - 1) : cart[q][k].item = NextRow(p)
  <2>1. q \in Requests /\ NextRow(p) \in Rows
    BY <1>1, <1>2 DEF Rows
  <2>2. OwnsOnlyCounted(q, NextRow(p))
    BY <1>0, <2>1
  <2> QED BY <1>2, <2>2 DEF OwnsOnlyCounted
<1>4. /\ line[q] \in 1..Len(cart[q]) /\ NextRow(q) = cart[q][line[q]].item
      /\ DOMAIN cart[q] = 1..Len(cart[q]) /\ Len(cart[q]) \in Nat
  <2>1. q \in Requests /\ line[q] <= Len(cart[q])
    BY <1>1
  <2> QED BY <1>0, <2>1, NextRowType
<1>5. k \in DOMAIN cart[q] /\ line[q] \in DOMAIN cart[q] /\ k < line[q]
  BY <1>3, <1>4
<1>6. cart[q][k].item <= cart[q][line[q]].item
  BY <1>5 DEF Sorted
<1>7. /\ NextRow(p) \in Nat /\ NextRow(q) \in Nat
      /\ NextRow(p) <= NextRow(q) /\ NextRow(p) # NextRow(q)
  <2>1. NextRow(p) \in Nat /\ NextRow(q) \in Nat
    BY <1>2, PlacementAssumption
  <2> QED BY <1>2, <1>3, <1>4, <1>6, <2>1
<1> HIDE DEF NextRow
<1> QED BY <1>7

\* Deadlocks need carts that name items in different orders.  Otherwise the
\* transaction of a cycle that waits for the last item of all would wait for
\* one that waits for a later one.
THEOREM PlacementOnlyUnsortedCartsDeadlock == PlacementSpec => []OnlyUnsortedCartsDeadlock
<1>1. PlacementInv => OnlyUnsortedCartsDeadlock
  <2> SUFFICES ASSUME PlacementInv, \A p \in Requests : Sorted(p),
                      NEW S \in SUBSET Requests, S # {}, Cycle(S)
               PROVE  FALSE
    BY DEF OnlyUnsortedCartsDeadlock
  <2> DEFINE next == [p \in S |-> NextRow(p)]
             room == {Sum(next, S) - next[p] : p \in S}
  <2>1. ASSUME NEW p \in S
        PROVE  \E q \in S : /\ next[p] \in Nat /\ next[q] \in Nat /\ next[p] < next[q]
    <3>1. PICK q \in S : WaitsFor(p, q)
      BY DEF Cycle
    <3>2. Sorted(q)
      OBVIOUS
    <3>3. NextRow(p) \in Nat /\ NextRow(q) \in Nat /\ NextRow(p) < NextRow(q)
      BY <3>1, <3>2, WaitsUpward
    <3> QED BY <3>3
  <2>2. IsFiniteSet(S)
    BY PlacementAssumption, FS_Subset
  <2> HIDE DEF next
  <2>3. Sum(next, S) \in Nat /\ \A p \in S : next[p] \in Nat /\ next[p] <= Sum(next, S)
    BY <2>1, <2>2, SumNat
  <2>4. room \in SUBSET Nat /\ room # {}
    BY <2>3
  <2>5. PICK m \in room : \A l \in room : m <= l
    BY <2>4, LeastNatural
  <2>6. PICK p \in S : m = Sum(next, S) - next[p]
    BY <2>5
  <2>7. PICK q \in S : next[p] < next[q]
    BY <2>1
  <2>8. Sum(next, S) - next[p] <= Sum(next, S) - next[q]
    BY <2>5, <2>6
  <2>9. Sum(next, S) \in Nat /\ next[p] \in Nat /\ next[q] \in Nat
    BY <2>3
  <2> QED BY <2>7, <2>8, <2>9
<1> QED BY <1>1, PlacementInvariant, PTL
=============================================================================
