----------------------------- MODULE RidesProofs -----------------------------
(***************************************************************************)
(* Theorems about Rides, for any rides, drivers, slots and calls: first    *)
(* whatever overlaps and fails, then, where the requests about one ride do *)
(* not overlap, what ties the two databases together and the refinement of *)
(* Dispatch.                                                               *)
(***************************************************************************)
EXTENDS Rides, TLAPS

\* Every PATCH is one the apps send: a ride is not put back by hand.
NoRewind == \A c \in Calls : c.op = "patch" => c.to \notin {"NONE", "REQUESTED", "MATCHED"}

\* What a slot holds is a driver when it is about to offer a ride, or to mark
\* the driver it offered it to, or is serving a rejection.
Engages(j) == \/ j.step \in {"offer", "occupy"}
              \/ j.step \in {"write", "settle"} /\ j.call.op = "reject"

HoldsDriver == \A s \in Slots : Engages(job[s]) => job[s].held \in Drivers

\* A slot only ever carries a call the clients may send, or a POST /rides; the
\* latter goes straight to the matching task.
JobCarriesCall ==
  \A s \in Slots : job[s].step \in {"write", "settle"} => job[s].call \in Calls

Inv == TypeOK /\ HoldsDriver /\ JobCarriesCall /\ (NoRewind => StatusFitsDriver)

\* What a handler saves is a ride row.
LEMMA WrittenType ==
  ASSUME NEW c \in CallType, c.op # "create", NEW row \in RideRow,
         c.op = "accept" => c.driver \in Drivers
  PROVE  Written(c, row) \in RideRow
<1>1. c.op \in {"accept", "reject", "patch", "cancel", "sos"}
  BY DEF CallType
<1>2. c.to \in Status /\ c.driver \in Holders
  BY DEF CallType
<1> QED
  BY <1>1, <1>2 DEF Written, Closes, RideRow, Holders, Status, Over

\* No handler clears the SOS flag of the row it saves over.
LEMMA WrittenKeepsSos ==
  ASSUME NEW c \in Calls, c.op \in {"accept", "reject", "patch", "cancel", "sos"},
         NEW row \in RideRow, row.sos = TRUE
  PROVE  Written(c, row).sos = TRUE
<1>1. CASE c.op = "accept"
  BY <1>1 DEF Written, RideRow
<1>2. CASE c.op = "reject"
  BY <1>2 DEF Written, RideRow
<1>3. CASE c.op = "patch"
  BY <1>3 DEF Written, RideRow, Closes
<1>4. CASE c.op = "cancel"
  BY <1>4 DEF Written, RideRow, Closes
<1>5. CASE c.op = "sos"
  BY <1>5 DEF Written, RideRow, Closes
<1> QED
  BY <1>1, <1>2, <1>3, <1>4, <1>5

\* What a handler writes keeps the two columns in agreement.
LEMMA WrittenFits ==
  ASSUME NoRewind, NEW c \in Calls, NEW row \in RideRow,
         row.status \in {"NONE", "REQUESTED"} => row.driver = NoDriver,
         row.status = "MATCHED" => row.driver \in Drivers
  PROVE  /\ Written(c, row).status \in {"NONE", "REQUESTED"}
              => Written(c, row).driver = NoDriver
         /\ Written(c, row).status = "MATCHED" => Written(c, row).driver \in Drivers
<1>1. c.op \in {"accept", "reject", "patch", "cancel", "sos"}
  BY RidesAssumption DEF CallType
<1>2. c.op = "accept" => c.driver \in Drivers
  BY RidesAssumption
<1>3. c.op = "patch" => c.to \notin {"NONE", "REQUESTED", "MATCHED"}
  BY DEF NoRewind
<1> QED
  BY <1>1, <1>2, <1>3 DEF Written, Closes, RideRow, Over

\* No ride, all drivers offline and no call: the invariant holds.
LEMMA InitInv == Init => Inv
  BY RidesAssumption DEF Init, Engages, Inv, TypeOK, HoldsDriver, JobCarriesCall,
     StatusFitsDriver, RideRow, Unborn, Idle, Status, Holders

\* What a step does to one slot, to the rides and to the drivers can be
\* looked at apart.
JobInv == /\ job \in [Slots -> Job \cup {Idle}]
          /\ HoldsDriver
          /\ JobCarriesCall

RowFits(row) ==
  NoRewind => /\ row.status \in {"NONE", "REQUESTED"} => row.driver = NoDriver
              /\ row.status = "MATCHED" => row.driver \in Drivers

\* The invariant, as one part for each variable.
LEMMA InvParts ==
  Inv <=> /\ ride \in [Rides -> RideRow]
          /\ \A r \in Rides : RowFits(ride[r])
          /\ driver \in [Drivers -> {"OFFLINE", "ONLINE", "BUSY"}]
          /\ JobInv
  BY DEF Inv, TypeOK, JobInv, StatusFitsDriver, RowFits

\* The same, of the next state.
LEMMA InvPartsPrime ==
  Inv' <=> /\ ride' \in [Rides -> RideRow]
           /\ \A r \in Rides : RowFits(ride'[r])
           /\ driver' \in [Drivers -> {"OFFLINE", "ONLINE", "BUSY"}]
           /\ JobInv'
  BY DEF Inv, TypeOK, JobInv, StatusFitsDriver, RowFits

\* A slot may take any job that holds the driver it engages.
LEMMA JobStep ==
  ASSUME JobInv, NEW s \in Slots, NEW j \in Job \cup {Idle},
         job' = [job EXCEPT ![s] = j],
         Engages(j) => j.held \in Drivers,
         j.step \in {"write", "settle"} => j.call \in Calls
  PROVE  JobInv'
  BY DEF JobInv, HoldsDriver, JobCarriesCall

\* A slot may always become idle.
LEMMA IdleStep ==
  ASSUME JobInv, NEW s \in Slots, job' = [job EXCEPT ![s] = Idle]
  PROVE  JobInv'
  BY JobStep DEF Idle, Engages

\* A slot that is not idle holds a job, whose parts have these types.
LEMMA BusySlot ==
  ASSUME JobInv, NEW s \in Slots, job[s].step # "idle"
  PROVE  /\ job[s] \in Job
         /\ job[s].call \in CallType
         /\ job[s].call.ride \in Rides
         /\ job[s].held \in Holders
         /\ job[s].excluded \in SUBSET Drivers
<1>1. job[s] \in Job
  BY DEF JobInv, Idle
<1> QED
  BY <1>1 DEF Job, CallType

\* Every step of a handler, of the matching task and of a driver keeps it.
LEMMA StepInv == Inv /\ [Next]_vars => Inv'
<1> SUFFICES ASSUME Inv, [Next]_vars PROVE Inv'
  OBVIOUS
<1> USE RidesAssumption
<1>0. /\ ride \in [Rides -> RideRow] /\ \A r \in Rides : RowFits(ride[r])
      /\ driver \in [Drivers -> {"OFFLINE", "ONLINE", "BUSY"}]
      /\ JobInv
  BY InvParts
<1> USE InvPartsPrime
<1>1. ASSUME NEW s \in Slots, NEW r \in Rides, Create(s, r) PROVE Inv'
  <2> DEFINE c == [op |-> "create", ride |-> r, driver |-> NoDriver, to |-> "NONE"]
  <2>1. ride' \in [Rides -> RideRow] /\ \A q \in Rides : RowFits(ride'[q])
    BY <1>0, <1>1 DEF Create, RideRow, RowFits, Status
  <2>2. Start("rank", c, ride'[r], NoDriver) \in Job
    BY <2>1 DEF Start, Job, CallType, Holders, Status
  <2>3. JobInv'
    BY <1>0, <1>1, <2>2, JobStep DEF Create, Start, Engages
  <2> QED
    BY <1>0, <1>1, <2>1, <2>3 DEF Create
<1>2. ASSUME NEW s \in Slots, NEW c \in Calls, Read(s, c) PROVE Inv'
  <2> DEFINE d == IF c.op \in {"accept", "reject"} THEN c.driver ELSE ride[c.ride].driver
  <2>1. c \in CallType /\ c.ride \in Rides /\ c.driver \in Holders
    BY DEF CallType
  <2>2. ride[c.ride] \in RideRow /\ d \in Holders
    BY <1>0, <2>1 DEF RideRow
  <2>3. Start("write", c, ride[c.ride], d) \in Job
    BY <2>1, <2>2 DEF Start, Job
  <2>4. job' = [job EXCEPT ![s] = Start("write", c, ride[c.ride], d)]
    BY <1>2 DEF Read
  <2>5. JobInv'
    BY <1>0, <2>3, <2>4, JobStep DEF Start, Engages
  <2> QED
    BY <1>0, <1>2, <2>5 DEF Read
<1>3. ASSUME NEW s \in Slots, Write(s) PROVE Inv'
  <2> DEFINE c == job[s].call
             j == IF Settles(c, job[s].held) THEN [job[s] EXCEPT !.step = "settle"]
                  ELSE Idle
  <2>1. job[s].step = "write" /\ job[s] \in Job /\ c \in CallType /\ c.ride \in Rides
    BY <1>0, <1>3, BusySlot DEF Write, At
  <2>2. c \in Calls /\ c.op # "create" /\ (c.op = "accept" => c.driver \in Drivers)
    BY <1>0, <2>1 DEF JobInv, JobCarriesCall
  <2>3. j \in Job \cup {Idle}
    BY <2>1 DEF Job
  <2>4. /\ Engages(j) => j.held \in Drivers
        /\ j.step \in {"write", "settle"} => j.call \in Calls
    BY <1>0, <2>1, <2>2 DEF Idle, Job, Engages, JobInv, HoldsDriver
  <2>5. job' = [job EXCEPT ![s] = j]
    BY <1>3 DEF Write
  <2>6. JobInv'
    BY <1>0, <2>3, <2>4, <2>5, JobStep
  <2> HIDE DEF c, j
  <2>7. ride' = [ride EXCEPT ![c.ride] = Written(c, ride[c.ride])]
    BY <1>3 DEF Write, c
  <2>8. Written(c, ride[c.ride]) \in RideRow /\ RowFits(Written(c, ride[c.ride]))
    BY <1>0, <2>1, <2>2, WrittenType, WrittenFits DEF RowFits
  <2>9. ride' \in [Rides -> RideRow] /\ \A q \in Rides : RowFits(ride'[q])
    BY <1>0, <2>1, <2>7, <2>8
  <2> QED
    BY <1>0, <1>3, <2>6, <2>9 DEF Write
<1>4. ASSUME NEW s \in Slots, Settle(s) PROVE Inv'
  <2> DEFINE d == job[s].held
             j == IF job[s].call.op = "reject"
                  THEN [job[s] EXCEPT !.step = "rank", !.row = ride[job[s].call.ride],
                                      !.held = NoDriver, !.excluded = {d}]
                  ELSE Idle
  <2>1. job[s].step = "settle" /\ job[s] \in Job /\ ride[job[s].call.ride] \in RideRow
    BY <1>0, <1>4, BusySlot DEF Settle, At
  <2>2. job[s].call.op = "reject" => d \in Drivers
    BY <1>0, <2>1 DEF JobInv, HoldsDriver, Engages
  <2>3. j \in Job \cup {Idle}
    BY <2>1, <2>2 DEF Job, Holders
  <2>4. /\ Engages(j) => j.held \in Drivers
        /\ j.step \in {"write", "settle"} => j.call \in Calls
    BY <2>1 DEF Idle, Job, Engages
  <2>5. job' = [job EXCEPT ![s] = j]
    BY <1>4 DEF Settle
  <2>6. JobInv'
    BY <1>0, <2>3, <2>4, <2>5, JobStep
  <2>7. ride' = ride /\ driver' \in [Drivers -> {"OFFLINE", "ONLINE", "BUSY"}]
    BY <1>0, <1>4 DEF Settle
  <2> QED
    BY <1>0, <2>6, <2>7
<1>5. ASSUME NEW s \in Slots, Rank(s) PROVE Inv'
  <2>1. job[s] \in Job /\ job[s].step = "rank"
    BY <1>0, <1>5, BusySlot DEF Rank, At
  <2>2. CASE job' = [job EXCEPT ![s] = Idle]
    BY <1>0, <1>5, <2>2, IdleStep DEF Rank
  <2>3. ASSUME NEW d \in Drivers, job' = [job EXCEPT ![s].step = "offer", ![s].held = d]
        PROVE  Inv'
    <3> DEFINE j == [job[s] EXCEPT !.step = "offer", !.held = d]
    <3>1. j \in Job /\ j.step = "offer" /\ j.held \in Drivers
      BY <2>1 DEF Job, Holders
    <3>2. job' = [job EXCEPT ![s] = j]
      BY <1>0, <2>1, <2>3 DEF JobInv, Job
    <3>3. JobInv'
      BY <1>0, <3>1, <3>2, JobStep DEF Engages
    <3> QED
      BY <1>0, <1>5, <3>3 DEF Rank
  <2> QED
    BY <1>5, <2>2, <2>3 DEF Rank, Eligible
<1>6. ASSUME NEW s \in Slots, Offer(s) PROVE Inv'
  <2> DEFINE j == [job[s] EXCEPT !.step = "occupy"]
             r == job[s].call.ride
  <2>1. job[s] \in Job /\ job[s].step = "offer" /\ r \in Rides
    BY <1>0, <1>6, BusySlot DEF Offer, At
  <2>2. job[s].held \in Drivers
    BY <1>0, <2>1 DEF JobInv, HoldsDriver, Engages
  <2>3. j \in Job /\ j.step = "occupy" /\ j.held \in Drivers
    BY <2>1, <2>2 DEF Job
  <2>4. job' = [job EXCEPT ![s] = j]
    BY <1>0, <1>6, <2>1 DEF Offer, JobInv, Job
  <2>5. JobInv'
    BY <1>0, <2>3, <2>4, JobStep DEF Engages
  <2> HIDE DEF j, r
  <2>6. ride' = [ride EXCEPT ![r].status = "MATCHED", ![r].driver = job[s].held]
    BY <1>6 DEF Offer, Target, r
  <2> DEFINE row == [ride[r] EXCEPT !.status = "MATCHED", !.driver = job[s].held]
  <2>7. row \in RideRow /\ RowFits(row)
    BY <1>0, <2>1, <2>2 DEF RideRow, RowFits, Status, Holders
  <2>8. ride' = [ride EXCEPT ![r] = row]
    BY <1>0, <2>1, <2>6 DEF RideRow
  <2> HIDE DEF row
  <2>9. ride' \in [Rides -> RideRow] /\ \A q \in Rides : RowFits(ride'[q])
    BY <1>0, <2>1, <2>7, <2>8
  <2> QED
    BY <1>0, <1>6, <2>5, <2>9 DEF Offer
<1>7. ASSUME NEW s \in Slots, Occupy(s) PROVE Inv'
  <2>1. JobInv'
    BY <1>0, <1>7, IdleStep DEF Occupy
  <2> QED
    BY <1>0, <1>7, <2>1 DEF Occupy
<1>8. ASSUME NEW s \in Slots, Abandon(s) PROVE Inv'
  <2>1. JobInv'
    BY <1>0, <1>8, IdleStep DEF Abandon
  <2> QED
    BY <1>0, <1>8, <2>1 DEF Abandon
<1>9. ASSUME NEW d \in Drivers, GoOnline(d) \/ GoOffline(d) \/ Ping(d) PROVE Inv'
  <2>1. JobInv'
    BY <1>0, <1>9 DEF GoOnline, GoOffline, Ping, JobInv, HoldsDriver, JobCarriesCall, Engages
  <2> QED
    BY <1>0, <1>9, <2>1 DEF GoOnline, GoOffline, Ping
<1>10. CASE UNCHANGED vars
  <2>1. JobInv'
    BY <1>0, <1>10 DEF vars, JobInv, HoldsDriver, JobCarriesCall, Engages
  <2> QED
    BY <1>0, <1>10, <2>1 DEF vars
<1> QED
  BY <1>1, <1>2, <1>3, <1>4, <1>5, <1>6, <1>7, <1>8, <1>9, <1>10 DEF Next, Continue

\* Whatever the clients send, however requests overlap and wherever they break
\* off, every variable keeps its type.
THEOREM RidesTypeCorrect == Spec => []TypeOK
<1>1. Init => Inv
  BY InitInv
<1>2. Inv /\ [Next]_vars => Inv'
  BY StepInv
<1>3. Inv => TypeOK
  BY DEF Inv
<1> QED
  BY <1>1, <1>2, <1>3, PTL DEF Spec

\* A waiting ride has no driver and a matched ride has one: the UPDATEs of
\* acceptRide, rejectRide and matchDriver keep status and driver_id together.
THEOREM RidesStatusFitsDriver == NoRewind => (Spec => []StatusFitsDriver)
<1> SUFFICES ASSUME NoRewind PROVE Spec => []StatusFitsDriver
  OBVIOUS
<1>1. Init => Inv
  BY InitInv
<1>2. Inv /\ [Next]_vars => Inv'
  BY StepInv
<1>3. Inv => StatusFitsDriver
  BY DEF Inv
<1> QED
  BY <1>1, <1>2, <1>3, PTL DEF Spec

\* No write of an older copy of a ride takes an SOS back.
THEOREM RidesSosNeverLost == Spec => SosNeverLost
<1>1. Init => Inv
  BY InitInv
<1>2. Inv /\ [Next]_vars => Inv'
  BY StepInv
<1>3. Inv /\ [Next]_vars => [\A r \in Rides : ride[r].sos => ride'[r].sos]_vars
  <2> SUFFICES ASSUME Inv, [Next]_vars, NEW r \in Rides, ride[r].sos PROVE ride'[r].sos
    OBVIOUS
  <2>0. ride \in [Rides -> RideRow] /\ JobInv
    BY InvParts
  <2>1. CASE UNCHANGED ride
    BY <2>1
  <2>2. ASSUME NEW s \in Slots, NEW q \in Rides, Create(s, q) PROVE ride'[r].sos
    BY <2>0, <2>2 DEF Create, RideRow
  <2>3. ASSUME NEW s \in Slots, Write(s) PROVE ride'[r].sos
    <3> DEFINE c == job[s].call
    <3>0. c \in Calls
      BY <2>0, <2>3 DEF Write, At, JobInv, JobCarriesCall
    <3>1. c.op \in {"accept", "reject", "patch", "cancel", "sos"}
      BY <3>0, RidesAssumption DEF CallType
    <3> HIDE DEF c
    <3>2. ride' = [ride EXCEPT ![c.ride] = Written(c, ride[c.ride])]
      BY <2>3 DEF Write, c
    <3>3. Written(c, ride[r]).sos
      <4>1. ride[r] \in RideRow
        BY <2>0
      <4>2. ride[r].sos = TRUE
        BY <4>1, Zenon DEF RideRow
      <4>3. Written(c, ride[r]).sos = TRUE
        BY <3>0, <3>1, <4>1, <4>2, WrittenKeepsSos
      <4> QED
        BY <4>3
    <3> QED
      BY <2>0, <3>2, <3>3
  <2>4. ASSUME NEW s \in Slots, Offer(s) PROVE ride'[r].sos
    BY <2>0, <2>4 DEF Offer, RideRow
  <2> QED
    BY <2>1, <2>2, <2>3, <2>4
    DEF Next, vars, Continue, Read, Settle, Rank, Occupy, Abandon, GoOnline, GoOffline, Ping
<1> QED
  BY <1>1, <1>2, <1>3, PTL DEF Spec, SosNeverLost
-----------------------------------------------------------------------------
(* Requests about one ride do not overlap; those about different rides do, *)
(* in as many slots as there are, and drivers do what they please.  What   *)
(* overlap about one ride and failures take away is said in the README.    *)

\* The circumstances.  A PATCH reports what a driver reports and does not
\* appoint a driver.
ServedApart ==
  /\ Apart /\ ~Faults
  /\ \A c \in Calls : c.op = "patch" =>
       c.to \in {"PICKUP", "IN_PROGRESS", "COMPLETED"} /\ c.driver = NoDriver

Waiting(row) == row.status = "REQUESTED" /\ row.driver = NoDriver

\* What a job relies on at each of its steps, now being the row of its ride: the
\* entity it read is still what the table has until it writes.
Fits(j, now) ==
  /\ now.status # "NONE"
  /\ j.step \in {"write", "settle"} =>
       /\ j.row.status # "NONE" /\ ~Refused(j.call, j.row)
       /\ j.held = IF j.call.op \in {"accept", "reject"} THEN j.call.driver ELSE j.row.driver
  /\ j.step = "write" => now = j.row
  /\ j.step = "settle" => now = Written(j.call, j.row) /\ Settles(j.call, j.held)
  /\ j.step \in {"rank", "offer", "occupy"} => Waiting(j.row)
  /\ j.step \in {"rank", "offer"} => Waiting(now)
  /\ j.step = "rank" => j.held = NoDriver
  /\ j.step = "occupy" => now.status = "MATCHED" /\ now.driver = j.held

Alone ==
  \A s, t \in Slots : /\ job[s].step # "idle" /\ job[t].step # "idle"
                      /\ job[s].call.ride = job[t].call.ride
                      => s = t

AllFit == \A s \in Slots : job[s].step # "idle" => Fits(job[s], ride[job[s].call.ride])

ApartInv == Inv /\ Alone /\ AllFit /\ BusyOnlyWhenRiding

\* Slot s is the one that deals with ride r, or may begin to.
Serves(s, r) == IF job[s].step = "idle" THEN About(r) = {} ELSE job[s].call.ride = r

\* What dispatch sees of a ride, from the job about it and its row.
TripOf(j, now) == Columns(IF j.step \in {"settle", "occupy"} THEN j.row ELSE now)
SearchOf(j) == IF j.step \in {"rank", "offer", "occupy"}
               THEN {[pick |-> j.held, without |-> j.excluded]} ELSE {}

-----------------------------------------------------------------------------
(* Lemmas.                                                                 *)

\* Reports put no ride back by hand.
LEMMA ApartNoRewind == ServedApart => NoRewind
  BY DEF ServedApart, NoRewind

\* What a handler does to the columns of its ride.
LEMMA WrittenColumns ==
  ASSUME ServedApart, NEW c \in Calls, NEW row \in RideRow
  PROVE  /\ c.op = "accept" => /\ Written(c, row).status = "MATCHED"
                               /\ Written(c, row).driver = c.driver
         /\ c.op = "reject" => /\ Written(c, row).status = "REQUESTED"
                               /\ Written(c, row).driver = NoDriver
         /\ c.op = "cancel" => /\ Written(c, row).status = "CANCELLED"
                               /\ Written(c, row).driver = row.driver
         /\ c.op = "patch"  => /\ Written(c, row).status = c.to
                               /\ Written(c, row).driver = row.driver
         /\ c.op = "sos"    => /\ Written(c, row).status = row.status
                               /\ Written(c, row).driver = row.driver
  <1>1. c.op = "patch" => c.driver = NoDriver
    BY DEF ServedApart
  <1>2. CASE c.op = "patch"
    BY <1>1, <1>2 DEF Written, Closes, RideRow
  <1>3. CASE c.op = "cancel"
    BY <1>3 DEF Written, Closes, RideRow
  <1>4. CASE c.op \in {"accept", "reject", "sos"}
    BY <1>4 DEF Written, Closes, RideRow
  <1> QED
    BY <1>2, <1>3, <1>4

\* Of a ride nobody deals with, and of the ride a slot deals with, dispatch sees
\* what that slot and the row of the ride tell.
LEMMA ViewValue ==
  Alone => \A s \in Slots, r \in Rides : Serves(s, r) =>
             Trip[r] = TripOf(job[s], ride[r]) /\ Search[r] = SearchOf(job[s])
  <1> SUFFICES ASSUME Alone, NEW s \in Slots, NEW r \in Rides, Serves(s, r)
               PROVE  Trip[r] = TripOf(job[s], ride[r]) /\ Search[r] = SearchOf(job[s])
    OBVIOUS
  <1>1. \A t \in Slots : t # s => t \notin Settling(r) /\ t \notin Matching(r)
    BY DEF Alone, Serves, About, At, Target, Settling, Matching
  <1>2. Settling(r) = IF job[s].step \in {"settle", "occupy"} THEN {s} ELSE {}
    BY <1>1 DEF Settling, Serves, Target
  <1>3. Matching(r) = IF job[s].step \in {"rank", "offer", "occupy"} THEN {s} ELSE {}
    BY <1>1 DEF Matching, Serves, Target
  <1>4. Trip[r] = TripOf(job[s], ride[r])
    BY <1>2 DEF Trip, TripOf
  <1>5. Search[r] = SearchOf(job[s])
    BY <1>3 DEF Search, SearchOf
  <1> QED
    BY <1>4, <1>5

\* The same, of the next state.
LEMMA ViewValuePrime ==
  (Alone => \A s \in Slots, r \in Rides : Serves(s, r) =>
              Trip[r] = TripOf(job[s], ride[r]) /\ Search[r] = SearchOf(job[s]))'
  BY ViewValue, PTL

\* One step of the slot that deals with a ride: no other slot comes to deal with
\* that ride, and the other rides and slots are as they were.
LEMMA SlotStep ==
  ASSUME ApartInv, NEW s \in Slots, NEW r \in Rides, Serves(s, r),
         \A t \in Slots : t # s => job'[t] = job[t],
         \A q \in Rides : q # r => ride'[q] = ride[q],
         job'[s].step # "idle" => job'[s].call.ride = r /\ Fits(job'[s], ride'[r])
  PROVE  /\ Alone' /\ AllFit'
         /\ Trip[r] = TripOf(job[s], ride[r]) /\ Search[r] = SearchOf(job[s])
         /\ Trip' = [Trip EXCEPT ![r] = TripOf(job'[s], ride'[r])]
         /\ Search' = [Search EXCEPT ![r] = SearchOf(job'[s])]
  <1>1. ASSUME NEW t \in Slots, t # s, job[t].step # "idle" PROVE job[t].call.ride \in Rides \ {r}
    BY <1>1, InvParts, BusySlot DEF ApartInv, Alone, Serves, About, At, Target
  <1>2. Alone'
    BY <1>1 DEF ApartInv, Alone
  <1>3. AllFit'
    BY <1>1 DEF ApartInv, AllFit
  <1>4. Trip[r] = TripOf(job[s], ride[r]) /\ Search[r] = SearchOf(job[s])
    BY ViewValue DEF ApartInv
  <1>5. Serves(s, r)'
    BY <1>1 DEF Serves, About, At, Target
  <1>6. Trip'[r] = TripOf(job'[s], ride'[r]) /\ Search'[r] = SearchOf(job'[s])
    BY <1>2, <1>5, ViewValuePrime
  <1>7. ASSUME NEW q \in Rides, q # r PROVE Trip'[q] = Trip[q] /\ Search'[q] = Search[q]
    <2>1. \A t \in Slots : t \in Settling(q)' <=> t \in Settling(q)
      BY <1>7 DEF Settling, Target, Serves
    <2>2. \A t \in Slots : t \in Matching(q)' <=> t \in Matching(q)
      BY <1>7 DEF Matching, Target, Serves
    <2>3. Settling(q)' = Settling(q) /\ s \notin Settling(q) /\ Settling(q) \subseteq Slots
      BY <1>7, <2>1 DEF Settling, Target, Serves
    <2>4. Matching(q)' = Matching(q) /\ s \notin Matching(q) /\ Matching(q) \subseteq Slots
      BY <1>7, <2>2 DEF Matching, Target, Serves
    <2>5. Trip'[q] = Trip[q]
      BY <1>7, <2>3 DEF Trip
    <2>6. Search'[q] = Search[q]
      BY <2>4 DEF Search
    <2> QED
      BY <2>5, <2>6
  <1>8. Trip' = [Trip EXCEPT ![r] = TripOf(job'[s], ride'[r])]
    BY <1>6, <1>7 DEF Trip
  <1>9. Search' = [Search EXCEPT ![r] = SearchOf(job'[s])]
    BY <1>6, <1>7 DEF Search
  <1> QED
    BY <1>2, <1>3, <1>4, <1>8, <1>9

\* What SlotStep leaves to show of the invariant.
Facts == Alone /\ AllFit /\ BusyOnlyWhenRiding

\* A step of dispatch, or none.
Moves == Abstract!Next \/ UNCHANGED <<Trip, driver, Search>>

\* A ride that dispatch sees as before is no step of dispatch.
LEMMA Unseen ==
  ASSUME NEW r \in Rides, Trip' = [Trip EXCEPT ![r] = Trip[r]],
         Search' = [Search EXCEPT ![r] = Search[r]]
  PROVE  Trip' = Trip /\ Search' = Search
  BY DEF Trip, Search

\* Setting the status of one driver, as dispatch says it.
LEMMA SetDriver ==
  ASSUME ApartInv, NEW d, NEW st
  PROVE  /\ [driver EXCEPT ![d] = st] = Abstract!Set(d, st)
         /\ d \notin Drivers => driver = Abstract!Set(d, st)
  BY InvParts DEF ApartInv, Abstract!Set

\* What a slot knows at its step.
LEMMA SlotFacts ==
  ASSUME ServedApart, ApartInv, NEW s \in Slots, job[s].step # "idle"
  PROVE  /\ job[s] \in Job /\ job[s].call \in CallType /\ job[s].call.ride \in Rides
         /\ job[s].row \in RideRow /\ job[s].held \in Holders
         /\ ride[job[s].call.ride] \in RideRow
         /\ Serves(s, job[s].call.ride)
         /\ Fits(job[s], ride[job[s].call.ride])
         /\ Engages(job[s]) => job[s].held \in Drivers
         /\ job[s].step \in {"write", "settle"} =>
              /\ job[s].call \in Calls
              /\ job[s].call.op \in {"accept", "reject", "patch", "cancel", "sos"}
              /\ job[s].call.op = "accept" => job[s].call.driver \in Drivers
  <1>1. /\ job[s] \in Job /\ job[s].call \in CallType /\ job[s].call.ride \in Rides
        /\ job[s].row \in RideRow /\ job[s].held \in Holders
        /\ ride[job[s].call.ride] \in RideRow
    BY InvParts, BusySlot DEF ApartInv, Job
  <1>2. Fits(job[s], ride[job[s].call.ride])
    BY DEF ApartInv, AllFit
  <1>3. Engages(job[s]) => job[s].held \in Drivers
    BY InvParts DEF ApartInv, JobInv, HoldsDriver
  <1>4. job[s].step \in {"write", "settle"} => job[s].call \in Calls
    BY InvParts DEF ApartInv, JobInv, JobCarriesCall
  <1>5. job[s].call \in Calls =>
          /\ job[s].call.op \in {"accept", "reject", "patch", "cancel", "sos"}
          /\ job[s].call.op = "accept" => job[s].call.driver \in Drivers
    BY RidesAssumption DEF CallType
  <1> QED
    BY <1>1, <1>2, <1>3, <1>4, <1>5 DEF Serves

\* Nobody becomes BUSY and nobody BUSY loses a ride: nobody is left BUSY.
LEMMA NobodyStranded ==
  ASSUME BusyOnlyWhenRiding,
         \A d \in Drivers : driver'[d] = "BUSY" => driver[d] = "BUSY",
         \A d \in Drivers, r \in Rides : driver'[d] = "BUSY" /\ Carries(d, r) =>
            \/ \E q \in Rides : Carries(d, q)'
            \/ \E s \in Slots : At(s, "settle")' /\ job'[s].held = d,
         \A s \in Slots : At(s, "settle") /\ driver'[job[s].held] = "BUSY" => job'[s] = job[s]
  PROVE  BusyOnlyWhenRiding'
  BY DEF BusyOnlyWhenRiding, At

-----------------------------------------------------------------------------
(* The steps.                                                              *)

\* No ride, nobody busy; dispatch begins.
LEMMA ApartInit == ServedApart /\ Init => ApartInv /\ Abstract!Init
  <1>1. SUFFICES ASSUME ServedApart, Init PROVE ApartInv /\ Abstract!Init
    OBVIOUS
  <1>2. \A s \in Slots : job[s].step = "idle"
    BY <1>1 DEF Init, Idle
  <1>3. Alone /\ AllFit /\ BusyOnlyWhenRiding
    BY <1>1, <1>2 DEF Alone, AllFit, BusyOnlyWhenRiding, Init
  <1>4. \A r \in Rides : Settling(r) = {} /\ Matching(r) = {}
    BY <1>2 DEF Settling, Matching
  <1>5. Trip = [r \in Rides |-> [status |-> "NONE", driver |-> NoDriver]]
    BY <1>1, <1>4 DEF Trip, Columns, Init, Unborn
  <1>6. Search = [r \in Rides |-> {}]
    BY <1>4 DEF Search
  <1> QED
    BY <1>1, <1>3, <1>5, <1>6, InitInv DEF ApartInv, Abstract!Init, Init

\* POST /rides.
LEMMA CreateApart ==
  ASSUME ServedApart, ApartInv, NEW s \in Slots, NEW r \in Rides, Create(s, r)
  PROVE  Facts' /\ Moves
  <1>1. /\ ride \in [Rides -> RideRow] /\ ride[r].status = "NONE" /\ ride[r].driver = NoDriver
        /\ job[s].step = "idle" /\ driver' = driver
    BY InvParts, ApartNoRewind DEF ApartInv, Create, At, RowFits
  <1>2. /\ \A q \in Rides : q # r => ride'[q] = ride[q]
        /\ ride'[r].status = "REQUESTED" /\ ride'[r].driver = NoDriver
    BY <1>1 DEF Create, RideRow
  <1>3. /\ \A t \in Slots : t # s => job'[t] = job[t]
        /\ job'[s].step = "rank" /\ job'[s].call.ride = r /\ job'[s].row = ride'[r]
        /\ job'[s].held = NoDriver /\ job'[s].excluded = {}
    BY InvParts DEF ApartInv, JobInv, Create, Start
  <1>4. Serves(s, r)
    BY <1>1 DEF Serves, About, At, Target, ApartInv, AllFit, Fits
  <1>5. Fits(job'[s], ride'[r])
    BY <1>2, <1>3 DEF Fits, Waiting
  <1>6. /\ Alone' /\ AllFit'
        /\ Trip[r] = TripOf(job[s], ride[r]) /\ Search[r] = SearchOf(job[s])
        /\ Trip' = [Trip EXCEPT ![r] = TripOf(job'[s], ride'[r])]
        /\ Search' = [Search EXCEPT ![r] = SearchOf(job'[s])]
    BY <1>2, <1>3, <1>4, <1>5, SlotStep
  <1>7. BusyOnlyWhenRiding'
    BY <1>1, <1>2, <1>3, NobodyStranded DEF ApartInv, Carries, Active, At
  <1>8. Abstract!Request(r)
    <2>1. Trip[r] = [status |-> "NONE", driver |-> NoDriver]
      BY <1>1, <1>6 DEF TripOf, Columns
    <2>2. TripOf(job'[s], ride'[r]) = [status |-> "REQUESTED", driver |-> NoDriver]
      BY <1>2, <1>3 DEF TripOf, Columns
    <2>3. Trip' = [Trip EXCEPT ![r].status = "REQUESTED"]
      <3>1. [Trip[r] EXCEPT !.status = "REQUESTED"]
              = [status |-> "REQUESTED", driver |-> NoDriver]
        BY <2>1
      <3> QED
        BY <1>6, <2>2, <3>1
    <2>4. Search' = [Search EXCEPT ![r] = {Abstract!Nobody({})}]
      BY <1>3, <1>6 DEF SearchOf, Abstract!Nobody
    <2> QED
      BY <1>1, <2>1, <2>3, <2>4 DEF Abstract!Request
  <1> QED
    BY <1>6, <1>7, <1>8 DEF Facts, Moves, Abstract!Next

\* The findById() of a handler and its checks.
LEMMA ReadApart ==
  ASSUME ServedApart, ApartInv, NEW s \in Slots, NEW c \in Calls, Read(s, c)
  PROVE  Facts' /\ Moves
  <1>1. PICK r, row : r = c.ride /\ row = ride[r]
    OBVIOUS
  <1>2. /\ r \in Rides /\ UNCHANGED <<ride, driver>> /\ job[s].step = "idle"
        /\ row.status # "NONE" /\ ~Refused(c, row) /\ About(r) = {}
    BY <1>1, RidesAssumption DEF Read, At, ServedApart, CallType
  <1>3. /\ \A t \in Slots : t # s => job'[t] = job[t]
        /\ job'[s].step = "write" /\ job'[s].call = c /\ job'[s].row = row
        /\ job'[s].held = IF c.op \in {"accept", "reject"} THEN c.driver ELSE row.driver
    BY <1>1, InvParts DEF ApartInv, JobInv, Read, Start
  <1>4. Fits(job'[s], ride'[r])
    BY <1>1, <1>2, <1>3 DEF Fits
  <1>5. /\ Alone' /\ AllFit'
        /\ Trip[r] = TripOf(job[s], ride[r]) /\ Search[r] = SearchOf(job[s])
        /\ Trip' = [Trip EXCEPT ![r] = TripOf(job'[s], ride'[r])]
        /\ Search' = [Search EXCEPT ![r] = SearchOf(job'[s])]
    BY <1>1, <1>2, <1>3, <1>4, SlotStep DEF Serves
  <1>6. BusyOnlyWhenRiding'
    BY <1>2, <1>3, NobodyStranded DEF ApartInv, Carries, At
  <1>7. Trip' = Trip /\ Search' = Search
    <2>1. TripOf(job'[s], ride'[r]) = Trip[r] /\ SearchOf(job'[s]) = Search[r]
      BY <1>2, <1>3, <1>5 DEF TripOf, SearchOf
    <2> QED
      BY <1>2, <1>5, <2>1, Unseen
  <1> QED
    BY <1>2, <1>5, <1>6, <1>7 DEF Facts, Moves

\* The UPDATE of a handler.  Where a driver's status is still to be set, dispatch
\* sees nothing yet; otherwise it sees the whole request.
LEMMA WriteApart ==
  ASSUME ServedApart, ApartInv, NEW s \in Slots, Write(s)
  PROVE  Facts' /\ Moves
  <1>0. PICK c, d, row, r : /\ c = job[s].call /\ d = job[s].held /\ row = job[s].row
                            /\ r = c.ride
    OBVIOUS
  <1>1. job[s].step = "write" /\ driver' = driver
    BY DEF Write, At
  <1>2. /\ r \in Rides /\ row \in RideRow /\ c \in Calls /\ Serves(s, r)
        /\ c.op \in {"accept", "reject", "patch", "cancel", "sos"} /\ job[s] \in Job
    BY <1>0, <1>1, SlotFacts
  <1>3. /\ ride[r] = row /\ row.status # "NONE" /\ ~Refused(c, row)
        /\ d = IF c.op \in {"accept", "reject"} THEN c.driver ELSE row.driver
    BY <1>0, <1>1, SlotFacts DEF Fits
  <1>4. PICK new : new = Written(c, row)
    OBVIOUS
  <1>5. ride'[r] = new /\ \A q \in Rides : q # r => ride'[q] = ride[q]
    BY <1>0, <1>2, <1>3, <1>4, InvParts DEF ApartInv, Write
  <1>6. /\ \A t \in Slots : t # s => job'[t] = job[t]
        /\ job'[s] = IF Settles(c, d) THEN [job[s] EXCEPT !.step = "settle"] ELSE Idle
    BY <1>0, InvParts DEF ApartInv, JobInv, Write
  <1>7. /\ c.op = "accept" => new.status = "MATCHED" /\ new.driver = c.driver
        /\ c.op = "reject" => new.status = "REQUESTED" /\ new.driver = NoDriver
        /\ c.op = "cancel" => new.status = "CANCELLED" /\ new.driver = row.driver
        /\ c.op = "patch"  => new.status = c.to /\ new.driver = row.driver
        /\ c.op = "sos"    => new.status = row.status /\ new.driver = row.driver
    BY <1>2, <1>4, WrittenColumns
  <1>8. c.op = "patch" => c.to \in {"PICKUP", "IN_PROGRESS", "COMPLETED"}
    BY <1>2 DEF ServedApart
  <1>9. Settles(c, d) =>
          /\ job'[s].step = "settle" /\ job'[s].call = c /\ job'[s].row = row
          /\ job'[s].held = d
    BY <1>0, <1>2, <1>6 DEF Job
  <1>10. job'[s].step # "idle" => job'[s].call.ride = r /\ Fits(job'[s], ride'[r])
    <2>1. CASE Settles(c, d)
      <3>1. new.status # "NONE"
        BY <1>2, <1>3, <1>7, <1>8
      <3> QED
        BY <1>0, <1>3, <1>4, <1>5, <1>9, <2>1, <3>1 DEF Fits
    <2>2. CASE ~Settles(c, d)
      BY <1>6, <2>2 DEF Idle
    <2> QED
      BY <2>1, <2>2
  <1>11. /\ Alone' /\ AllFit'
         /\ Trip[r] = TripOf(job[s], ride[r]) /\ Search[r] = SearchOf(job[s])
         /\ Trip' = [Trip EXCEPT ![r] = TripOf(job'[s], ride'[r])]
         /\ Search' = [Search EXCEPT ![r] = SearchOf(job'[s])]
    BY <1>2, <1>5, <1>6, <1>10, SlotStep
  <1>12. BusyOnlyWhenRiding'
    <2>1. ASSUME NEW e \in Drivers, NEW q \in Rides, Carries(e, q)
          PROVE  \/ \E p \in Rides : Carries(e, p)'
                 \/ \E t \in Slots : At(t, "settle")' /\ job'[t].held = e
      <3>1. CASE q # r
        BY <1>5, <2>1, <3>1 DEF Carries
      <3>2. CASE q = r
        <4>1. row.driver = e /\ row.status \in Active /\ e # NoDriver
          BY <1>3, <2>1, <3>2, RidesAssumption DEF Carries
        <4>2. CASE Settles(c, d) /\ d = e
          BY <1>9, <4>2 DEF At
        <4>3. CASE ~(Settles(c, d) /\ d = e)
          <5>1. c.op \notin {"accept", "reject", "cancel"}
            BY <1>3, <4>1, <4>3 DEF Refused, Settles, Closes
          <5>2. c.op = "patch" => c.to \in Active
            BY <1>3, <1>8, <4>1, <4>3 DEF Settles, Closes, Over, Active
          <5>3. Carries(e, r)'
            BY <1>2, <1>5, <1>7, <4>1, <5>1, <5>2 DEF Carries
          <5> QED
            BY <1>2, <5>3
        <4> QED
          BY <4>2, <4>3
      <3> QED
        BY <3>1, <3>2
    <2> QED
      BY <1>1, <1>6, <2>1, NobodyStranded DEF ApartInv, At
  <1>13. TripOf(job[s], ride[r]) = Columns(row) /\ SearchOf(job[s]) = {}
    BY <1>1, <1>3 DEF TripOf, SearchOf
  <1>14. Search' = Search
    <2>1. SearchOf(job'[s]) = {}
      BY <1>6, <1>9 DEF SearchOf, Idle
    <2> QED
      BY <1>11, <1>13, <2>1 DEF Search
  <1>15. CASE Settles(c, d)
    <2>1. TripOf(job'[s], ride'[r]) = Columns(row)
      BY <1>9, <1>15 DEF TripOf
    <2>2. Trip' = Trip
      BY <1>2, <1>11, <1>13, <2>1 DEF Trip
    <2> QED
      BY <1>1, <1>11, <1>12, <1>14, <2>2 DEF Facts, Moves
  <1>16. CASE ~Settles(c, d)
    <2>1. TripOf(job'[s], ride'[r]) = [status |-> new.status, driver |-> new.driver]
      BY <1>5, <1>6, <1>16 DEF TripOf, Idle, Columns
    <2>2. Trip[r] = [status |-> row.status, driver |-> row.driver] /\ Search[r] = {}
      BY <1>11, <1>13 DEF Columns
    <2>3. new.driver = row.driver
      BY <1>2, <1>7, <1>16 DEF Settles
    <2>4. [Trip[r] EXCEPT !.status = new.status] = [status |-> new.status, driver |-> row.driver]
      BY <2>2
    <2>5. Trip' = [Trip EXCEPT ![r].status = new.status]
      BY <1>11, <2>1, <2>3, <2>4
    <2>6. CASE c.op = "sos"
      <3>1. TripOf(job'[s], ride'[r]) = Trip[r]
        BY <1>7, <2>1, <2>2, <2>6
      <3>2. Trip' = Trip
        BY <1>2, <1>11, <3>1 DEF Trip
      <3> QED
        BY <1>1, <1>11, <1>12, <1>14, <3>2 DEF Facts, Moves
    <2>7. CASE c.op = "patch" /\ c.to \in {"PICKUP", "IN_PROGRESS"}
      <3>1. Abstract!Report(r, new.status)
        BY <1>1, <1>3, <1>14, <2>2, <2>5 DEF Abstract!Report
      <3> QED
        BY <1>2, <1>7, <1>11, <1>12, <2>7, <3>1 DEF Facts, Moves, Abstract!Next
    <2>8. CASE c.op = "cancel" \/ (c.op = "patch" /\ c.to = "COMPLETED")
      <3>1. row.driver = NoDriver
        BY <1>3, <1>16, <2>8 DEF Settles, Closes, Over
      <3>2. driver' = Abstract!Set(row.driver, "ONLINE")
        BY <1>1, <3>1, SetDriver, RidesAssumption
      <3>3. new.status = "CANCELLED" => row.status # "COMPLETED"
        BY <1>3, <1>7, <2>8 DEF Refused
      <3>4. Abstract!End(r, new.status)
        BY <1>3, <1>14, <2>2, <2>5, <3>2, <3>3 DEF Abstract!End
      <3> QED
        BY <1>2, <1>7, <1>11, <1>12, <2>8, <3>4 DEF Facts, Moves, Abstract!Next
    <2> QED
      BY <1>2, <1>8, <1>16, <2>6, <2>7, <2>8 DEF Settles
  <1> QED
    BY <1>15, <1>16

\* setDriverStatus() of a handler: the request is done, as dispatch sees it.
LEMMA SettleApart ==
  ASSUME ServedApart, ApartInv, NEW s \in Slots, Settle(s)
  PROVE  Facts' /\ Moves
  <1>0. PICK c, d, row, r, now : /\ c = job[s].call /\ d = job[s].held /\ row = job[s].row
                                 /\ r = c.ride /\ now = ride[r]
    OBVIOUS
  <1>1. job[s].step = "settle" /\ ride' = ride
    BY DEF Settle, At
  <1>2. /\ r \in Rides /\ row \in RideRow /\ c \in Calls /\ Serves(s, r)
        /\ c.op \in {"accept", "reject", "patch", "cancel", "sos"} /\ job[s] \in Job
        /\ c.op = "accept" => c.driver \in Drivers
    BY <1>0, <1>1, SlotFacts
  <1>3. /\ now = Written(c, row) /\ Settles(c, d) /\ row.status # "NONE" /\ ~Refused(c, row)
        /\ d = IF c.op \in {"accept", "reject"} THEN c.driver ELSE row.driver
        /\ now.status # "NONE"
    BY <1>0, <1>1, SlotFacts DEF Fits
  <1>4. d \in Drivers
    BY <1>2, <1>3, RidesAssumption DEF Settles, RideRow, Holders
  <1>5. driver' = Abstract!Set(d, IF c.op = "accept" THEN "BUSY" ELSE "ONLINE")
    BY <1>0, SetDriver DEF Settle
  <1>6. /\ \A t \in Slots : t # s => job'[t] = job[t]
        /\ c.op = "reject" => /\ job'[s].step = "rank" /\ job'[s].call = c
                              /\ job'[s].row = now /\ job'[s].held = NoDriver
                              /\ job'[s].excluded = {d}
        /\ c.op # "reject" => job'[s] = Idle
    BY <1>0, <1>2, InvParts DEF ApartInv, JobInv, Job, Settle
  <1>7. /\ c.op = "accept" => now.status = "MATCHED" /\ now.driver = c.driver
        /\ c.op = "reject" => now.status = "REQUESTED" /\ now.driver = NoDriver
        /\ c.op = "cancel" => now.status = "CANCELLED" /\ now.driver = row.driver
        /\ c.op = "patch"  => now.status = c.to /\ now.driver = row.driver
    BY <1>2, <1>3, WrittenColumns
  <1>8. job'[s].step # "idle" => job'[s].call.ride = r /\ Fits(job'[s], ride'[r])
    BY <1>0, <1>1, <1>6, <1>7 DEF Fits, Waiting, Idle
  <1>9. /\ Alone' /\ AllFit'
        /\ Trip[r] = TripOf(job[s], ride[r]) /\ Search[r] = SearchOf(job[s])
        /\ Trip' = [Trip EXCEPT ![r] = TripOf(job'[s], ride'[r])]
        /\ Search' = [Search EXCEPT ![r] = SearchOf(job'[s])]
    BY <1>1, <1>2, <1>6, <1>8, SlotStep
  <1>10. BusyOnlyWhenRiding'
    <2>1. \A e \in Drivers : driver'[e] = IF e = d THEN (IF c.op = "accept" THEN "BUSY" ELSE "ONLINE")
                                           ELSE driver[e]
      BY <1>5 DEF Abstract!Set
    <2>2. ASSUME NEW e \in Drivers, e # d, driver'[e] = "BUSY"
          PROVE  \/ \E q \in Rides : Carries(e, q)'
                 \/ \E t \in Slots : At(t, "settle")' /\ job'[t].held = e
      <3>1. CASE \E q \in Rides : Carries(e, q)
        BY <1>1, <3>1 DEF Carries
      <3>2. ASSUME NEW t \in Slots, At(t, "settle"), job[t].held = e
            PROVE  At(t, "settle")' /\ job'[t].held = e
        BY <1>0, <1>6, <2>2, <3>2 DEF At
      <3> QED
        BY <2>1, <2>2, <3>1, <3>2 DEF ApartInv, BusyOnlyWhenRiding
    <2>3. c.op = "accept" => Carries(d, r)'
      BY <1>0, <1>1, <1>3, <1>7 DEF Carries, Active
    <2> QED
      BY <1>2, <1>4, <2>1, <2>2, <2>3 DEF BusyOnlyWhenRiding
  <1>11. Trip[r] = [status |-> row.status, driver |-> row.driver] /\ Search[r] = {}
    BY <1>0, <1>1, <1>9 DEF TripOf, SearchOf, Columns
  <1>12. TripOf(job'[s], ride'[r]) = [status |-> now.status, driver |-> now.driver]
    BY <1>0, <1>1, <1>6 DEF TripOf, Idle, Columns
  <1>13. ASSUME c.op # "reject" PROVE Search' = Search
    <2>1. SearchOf(job'[s]) = {}
      BY <1>6, <1>13 DEF SearchOf, Idle
    <2> QED
      BY <1>9, <1>11, <2>1 DEF Search
  <1>14. CASE c.op = "accept"
    <2>1. Trip' = [Trip EXCEPT ![r] = [status |-> "MATCHED", driver |-> d]]
      BY <1>3, <1>7, <1>9, <1>12, <1>14
    <2>2. row.status \in {"REQUESTED", "MATCHED"} /\ row.driver \in {NoDriver, d}
      BY <1>3, <1>14 DEF Refused
    <2>3. Abstract!Accept(r, d)
      BY <1>5, <1>11, <1>13, <1>14, <2>1, <2>2 DEF Abstract!Accept
    <2> QED
      BY <1>2, <1>4, <1>9, <1>10, <2>3 DEF Facts, Moves, Abstract!Next
  <1>15. CASE c.op = "reject"
    <2>1. Trip' = [Trip EXCEPT ![r] = [status |-> "REQUESTED", driver |-> NoDriver]]
      BY <1>7, <1>9, <1>12, <1>15
    <2>2. Search' = [Search EXCEPT ![r] = {Abstract!Nobody({d})}]
      BY <1>6, <1>9, <1>15 DEF SearchOf, Abstract!Nobody
    <2>3. row.driver = d
      BY <1>3, <1>15 DEF Refused
    <2>4. Abstract!Decline(r, d)
      BY <1>5, <1>11, <1>15, <2>1, <2>2, <2>3 DEF Abstract!Decline
    <2> QED
      BY <1>2, <1>4, <1>9, <1>10, <2>4 DEF Facts, Moves, Abstract!Next
  <1>16. CASE c.op \in {"cancel", "patch"}
    <2>1. now.driver = row.driver /\ d = row.driver
      BY <1>3, <1>7, <1>16
    <2>2. [Trip[r] EXCEPT !.status = now.status] = [status |-> now.status, driver |-> row.driver]
      BY <1>11
    <2>3. Trip' = [Trip EXCEPT ![r].status = now.status]
      BY <1>9, <1>12, <2>1, <2>2
    <2>4. /\ now.status \in {"COMPLETED", "CANCELLED"}
          /\ now.status = "CANCELLED" => row.status # "COMPLETED"
      BY <1>2, <1>3, <1>7, <1>16 DEF ServedApart, Settles, Closes, Refused, Over
    <2>5. Abstract!End(r, now.status)
      BY <1>3, <1>5, <1>11, <1>13, <1>16, <2>1, <2>3, <2>4 DEF Abstract!End
    <2> QED
      BY <1>2, <1>9, <1>10, <2>4, <2>5 DEF Facts, Moves, Abstract!Next
  <1> QED
    BY <1>2, <1>3, <1>14, <1>15, <1>16 DEF Settles, Closes

\* findBestDriver() finds somebody who is ONLINE, or nobody.
LEMMA RankApart ==
  ASSUME ServedApart, ApartInv, NEW s \in Slots, Rank(s)
  PROVE  Facts' /\ Moves
  <1>0. PICK r, x : r = job[s].call.ride /\ x = job[s].excluded
    OBVIOUS
  <1>1. job[s].step = "rank" /\ ride' = ride /\ driver' = driver
    BY DEF Rank, At
  <1>2. r \in Rides /\ job[s] \in Job /\ Serves(s, r) /\ Fits(job[s], ride[r])
    BY <1>0, <1>1, SlotFacts
  <1>3. /\ \A t \in Slots : t # s => job'[t] = job[t]
        /\ \/ job'[s] = Idle
           \/ \E d \in Eligible(s) : /\ job'[s].step = "offer" /\ job'[s].call = job[s].call
                                      /\ job'[s].held = d /\ job'[s].excluded = x
                                      /\ job'[s].row = job[s].row
    <2>1. CASE job' = [job EXCEPT ![s] = Idle]
      BY <2>1, InvParts DEF ApartInv, JobInv
    <2>2. ASSUME NEW d \in Eligible(s), job' = [job EXCEPT ![s].step = "offer", ![s].held = d]
          PROVE  /\ \A t \in Slots : t # s => job'[t] = job[t]
                 /\ job'[s].step = "offer" /\ job'[s].call = job[s].call
                 /\ job'[s].held = d /\ job'[s].excluded = x /\ job'[s].row = job[s].row
      BY <1>0, <1>2, <2>2, InvParts DEF ApartInv, JobInv, Job
    <2> QED
      BY <2>1, <2>2 DEF Rank
  <1>4. job'[s].step # "idle" => job'[s].call.ride = r /\ Fits(job'[s], ride'[r])
    BY <1>0, <1>1, <1>2, <1>3 DEF Fits, Idle
  <1>5. /\ Alone' /\ AllFit'
        /\ Trip[r] = TripOf(job[s], ride[r]) /\ Search[r] = SearchOf(job[s])
        /\ Trip' = [Trip EXCEPT ![r] = TripOf(job'[s], ride'[r])]
        /\ Search' = [Search EXCEPT ![r] = SearchOf(job'[s])]
    BY <1>1, <1>2, <1>3, <1>4, SlotStep
  <1>6. BusyOnlyWhenRiding'
    BY <1>1, <1>3, NobodyStranded DEF ApartInv, Carries, At
  <1>7. Search[r] = {[pick |-> NoDriver, without |-> x]}
    BY <1>0, <1>1, <1>2, <1>5 DEF SearchOf, Fits
  <1>8. Trip' = Trip
    <2>1. TripOf(job'[s], ride'[r]) = Trip[r]
      BY <1>1, <1>3, <1>5 DEF TripOf, Idle
    <2> QED
      BY <1>2, <1>5, <2>1 DEF Trip
  <1>9. CASE job'[s] = Idle
    <2>1. Search' = [Search EXCEPT ![r] = {}]
      BY <1>5, <1>9 DEF SearchOf, Idle
    <2>2. Abstract!GiveUp(r)
      BY <1>1, <1>7, <1>8, <2>1 DEF Abstract!GiveUp
    <2> QED
      BY <1>2, <1>5, <1>6, <2>2 DEF Facts, Moves, Abstract!Next
  <1>10. ASSUME NEW d \in Eligible(s), job'[s].step = "offer", job'[s].held = d,
                job'[s].excluded = x
         PROVE  Facts' /\ Moves
    <2>1. d \in Drivers /\ d \notin x /\ driver[d] = "ONLINE"
      BY <1>0, <1>10 DEF Eligible
    <2>2. PICK l : l = [pick |-> NoDriver, without |-> x]
      OBVIOUS
    <2>3. l \in Search[r] /\ l.pick = NoDriver /\ d \notin l.without
      BY <1>7, <2>1, <2>2
    <2>4. [l EXCEPT !.pick = d] = [pick |-> d, without |-> x]
      BY <2>2
    <2>5. Search' = [Search EXCEPT ![r] = {[l EXCEPT !.pick = d]}]
      BY <1>5, <1>10, <2>4 DEF SearchOf
    <2>6. Abstract!Pick(r, d)
      BY <1>1, <1>8, <2>1, <2>3, <2>5 DEF Abstract!Pick
    <2> QED
      BY <1>2, <1>5, <1>6, <2>1, <2>6 DEF Facts, Moves, Abstract!Next
  <1> QED
    BY <1>3, <1>9, <1>10

\* The UPDATE of the matching task, of which dispatch sees nothing yet.
LEMMA OfferApart ==
  ASSUME ServedApart, ApartInv, NEW s \in Slots, Offer(s)
  PROVE  Facts' /\ Moves
  <1>0. PICK r, d : r = job[s].call.ride /\ d = job[s].held
    OBVIOUS
  <1>1. job[s].step = "offer" /\ driver' = driver
    BY DEF Offer, At
  <1>2. r \in Rides /\ job[s] \in Job /\ Serves(s, r) /\ Fits(job[s], ride[r])
    BY <1>0, <1>1, SlotFacts
  <1>3. /\ \A q \in Rides : q # r => ride'[q] = ride[q]
        /\ ride'[r].status = "MATCHED" /\ ride'[r].driver = d
    BY <1>0, <1>2, InvParts DEF ApartInv, Offer, Target, RideRow
  <1>4. /\ \A t \in Slots : t # s => job'[t] = job[t]
        /\ job'[s].step = "occupy" /\ job'[s].call = job[s].call /\ job'[s].held = d
        /\ job'[s].row = job[s].row /\ job'[s].excluded = job[s].excluded
    BY <1>0, <1>2, InvParts DEF ApartInv, JobInv, Job, Offer
  <1>5. job'[s].call.ride = r /\ Fits(job'[s], ride'[r])
    BY <1>0, <1>1, <1>2, <1>3, <1>4 DEF Fits
  <1>6. /\ Alone' /\ AllFit'
        /\ Trip[r] = TripOf(job[s], ride[r]) /\ Search[r] = SearchOf(job[s])
        /\ Trip' = [Trip EXCEPT ![r] = TripOf(job'[s], ride'[r])]
        /\ Search' = [Search EXCEPT ![r] = SearchOf(job'[s])]
    BY <1>2, <1>3, <1>4, <1>5, SlotStep
  <1>7. BusyOnlyWhenRiding'
    <2>1. ride[r].status = "REQUESTED"
      BY <1>1, <1>2 DEF Fits, Waiting
    <2>2. \A e \in Drivers, q \in Rides : Carries(e, q) => Carries(e, q)'
      BY <1>3, <2>1 DEF Carries, Active
    <2> QED
      BY <1>1, <1>4, <2>2, NobodyStranded DEF ApartInv, At
  <1>8. TripOf(job'[s], ride'[r]) = Trip[r] /\ SearchOf(job'[s]) = Search[r]
    BY <1>0, <1>1, <1>2, <1>4, <1>6 DEF TripOf, SearchOf, Columns, Fits, Waiting
  <1>9. Trip' = Trip /\ Search' = Search
    BY <1>2, <1>6, <1>8, Unseen
  <1> QED
    BY <1>1, <1>6, <1>7, <1>9 DEF Facts, Moves

\* The matching task marks the driver, and dispatch sees the assignment.
LEMMA OccupyApart ==
  ASSUME ServedApart, ApartInv, NEW s \in Slots, Occupy(s)
  PROVE  Facts' /\ Moves
  <1>0. PICK r, d : r = job[s].call.ride /\ d = job[s].held
    OBVIOUS
  <1>1. job[s].step = "occupy" /\ ride' = ride
    BY DEF Occupy, At
  <1>2. r \in Rides /\ job[s] \in Job /\ Serves(s, r) /\ Fits(job[s], ride[r]) /\ d \in Drivers
    BY <1>0, <1>1, SlotFacts DEF Engages
  <1>3. /\ \A t \in Slots : t # s => job'[t] = job[t]
        /\ job'[s] = Idle
    BY InvParts DEF ApartInv, JobInv, Occupy
  <1>4. /\ Alone' /\ AllFit'
        /\ Trip[r] = TripOf(job[s], ride[r]) /\ Search[r] = SearchOf(job[s])
        /\ Trip' = [Trip EXCEPT ![r] = TripOf(job'[s], ride'[r])]
        /\ Search' = [Search EXCEPT ![r] = SearchOf(job'[s])]
    BY <1>1, <1>2, <1>3, SlotStep DEF Idle
  <1>5. driver' = Abstract!Set(d, "BUSY")
    BY <1>0, SetDriver DEF Occupy
  <1>6. ride[r].status = "MATCHED" /\ ride[r].driver = d /\ Waiting(job[s].row)
    BY <1>0, <1>1, <1>2 DEF Fits
  <1>7. BusyOnlyWhenRiding'
    <2>1. \A e \in Drivers : e # d => driver'[e] = driver[e]
      BY <1>5 DEF Abstract!Set
    <2>2. Carries(d, r)'
      BY <1>1, <1>6 DEF Carries, Active
    <2>3. \A e \in Drivers, q \in Rides : Carries(e, q)' <=> Carries(e, q)
      BY <1>1 DEF Carries
    <2>4. \A t \in Slots : At(t, "settle") => At(t, "settle")' /\ job'[t].held = job[t].held
      BY <1>1, <1>3 DEF At
    <2> QED
      BY <1>2, <2>1, <2>2, <2>3, <2>4 DEF ApartInv, BusyOnlyWhenRiding
  <1>8. Trip[r] = [status |-> "REQUESTED", driver |-> NoDriver]
    BY <1>1, <1>4, <1>6 DEF TripOf, Columns, Waiting
  <1>9. Search[r] = {[pick |-> d, without |-> job[s].excluded]}
    BY <1>0, <1>1, <1>4 DEF SearchOf
  <1>10. Trip' = [Trip EXCEPT ![r] = [status |-> "MATCHED", driver |-> d]]
    <2>1. TripOf(job'[s], ride'[r]) = [status |-> "MATCHED", driver |-> d]
      BY <1>1, <1>3, <1>6 DEF TripOf, Columns, Idle
    <2> QED
      BY <1>4, <2>1
  <1>11. Search' = [Search EXCEPT ![r] = {}]
    BY <1>3, <1>4 DEF SearchOf, Idle
  <1>12. Abstract!Assign(r, d)
    BY <1>5, <1>8, <1>9, <1>10, <1>11 DEF Abstract!Assign
  <1> QED
    BY <1>2, <1>4, <1>7, <1>12 DEF Facts, Moves, Abstract!Next

\* A driver goes on or off shift, on a ride or not.
LEMMA ShiftApart ==
  ASSUME ApartInv, NEW d \in Drivers, GoOnline(d) \/ GoOffline(d) \/ Ping(d)
  PROVE  Facts' /\ Moves
  <1>1. UNCHANGED <<ride, job>>
    BY DEF GoOnline, GoOffline, Ping
  <1>2. PICK st \in {"ONLINE", "OFFLINE"} : driver' = [driver EXCEPT ![d] = st]
    BY DEF GoOnline, GoOffline, Ping
  <1>3. driver' = Abstract!Set(d, st)
    BY <1>2, SetDriver
  <1>4. BusyOnlyWhenRiding'
    <2>1. \A e \in Drivers : driver'[e] = "BUSY" => driver[e] = "BUSY"
      BY <1>2, InvParts DEF ApartInv
    <2> QED
      BY <1>1, <2>1, NobodyStranded DEF ApartInv, Carries, At
  <1>5. Alone' /\ AllFit'
    BY <1>1 DEF ApartInv, Alone, AllFit
  <1>6. Trip' = Trip /\ Search' = Search
    BY <1>1 DEF Trip, Search, Settling, Matching, Target
  <1>7. Abstract!Change(d, st)
    BY <1>3, <1>6 DEF Abstract!Change
  <1> QED
    BY <1>4, <1>5, <1>7 DEF Facts, Moves, Abstract!Next

-----------------------------------------------------------------------------
\* No step leaves the invariant, and each is one of dispatch or none.
LEMMA ApartStep == ServedApart /\ ApartInv /\ [Next]_vars => ApartInv' /\ Moves
  <1>1. SUFFICES ASSUME ServedApart, ApartInv, [Next]_vars PROVE Facts' /\ Moves
    BY StepInv DEF ApartInv, Facts
  <1>2. ASSUME NEW s \in Slots, Continue(s) PROVE Facts' /\ Moves
    BY <1>1, <1>2, WriteApart, SettleApart, RankApart, OfferApart, OccupyApart DEF Continue
  <1>3. ASSUME NEW s \in Slots, NEW r \in Rides, Create(s, r) PROVE Facts' /\ Moves
    BY <1>1, <1>3, CreateApart
  <1>4. ASSUME NEW s \in Slots, NEW c \in Calls, Read(s, c) PROVE Facts' /\ Moves
    BY <1>1, <1>4, ReadApart
  <1>5. ASSUME NEW s \in Slots, Abandon(s) PROVE Facts' /\ Moves
    BY <1>1, <1>5 DEF Abandon, ServedApart
  <1>6. ASSUME NEW d \in Drivers, GoOnline(d) \/ GoOffline(d) \/ Ping(d) PROVE Facts' /\ Moves
    BY <1>1, <1>6, ShiftApart
  <1>7. CASE UNCHANGED vars
    <2>1. Facts'
      BY <1>1, <1>7 DEF vars, ApartInv, Facts, Alone, AllFit, BusyOnlyWhenRiding, Carries, At
    <2>2. Moves
      BY <1>7 DEF vars, Moves, Trip, Search, Settling, Matching, Target
    <2> QED
      BY <2>1, <2>2
  <1> QED
    BY <1>1, <1>2, <1>3, <1>4, <1>5, <1>6, <1>7 DEF Next

\* The invariant holds in every state of every behaviour.
LEMMA ApartAlways == ServedApart => (Spec => []ApartInv)
  <1> SUFFICES ASSUME ServedApart PROVE Spec => []ApartInv
    OBVIOUS
  <1>1. Init => ApartInv
    BY ApartInit
  <1>2. ApartInv /\ [Next]_vars => ApartInv'
    BY ApartStep
  <1> QED
    BY <1>1, <1>2, PTL DEF Spec

\* Nobody is left BUSY in MongoDB without a ride under way in PostgreSQL, however
\* the requests about different rides of one driver interleave.
THEOREM ApartBusyOnlyWhenRiding == ServedApart => (Spec => []BusyOnlyWhenRiding)
  <1> SUFFICES ASSUME ServedApart PROVE Spec => []BusyOnlyWhenRiding
    OBVIOUS
  <1>1. ApartInv => BusyOnlyWhenRiding
    BY DEF ApartInv
  <1> QED
    BY <1>1, ApartAlways, PTL

\* The handlers of rides.service.ts and the matching task implement dispatch:
\* each request is one step on both databases.
THEOREM ApartImplementsDispatch == ServedApart => (Spec => ImplementsDispatch)
  <1> SUFFICES ASSUME ServedApart PROVE Spec => ImplementsDispatch
    OBVIOUS
  <1>1. Init => Abstract!Init
    BY ApartInit
  <1>2. ApartInv /\ [Next]_vars => [Abstract!Next]_<<Trip, driver, Search>>
    BY ApartStep DEF Moves
  <1> QED
    BY <1>1, <1>2, ApartAlways, PTL DEF Spec, ImplementsDispatch, Abstract!Spec

\* acceptRide(): a ride is never handed from one driver to another without a
\* rejection in between.
THEOREM ApartDriverNeverReplaced == ServedApart => (Spec => DriverNeverReplaced)
  <1> SUFFICES ASSUME ServedApart PROVE Spec => DriverNeverReplaced
    OBVIOUS
  <1>1. ApartInv /\ [Next]_vars =>
          [\A r \in Rides : ride[r].driver # NoDriver =>
                              ride'[r].driver \in {ride[r].driver, NoDriver}]_vars
    <2> SUFFICES ASSUME ApartInv, [Next]_vars, NEW r \in Rides, ride[r].driver # NoDriver
                 PROVE  ride'[r].driver \in {ride[r].driver, NoDriver}
      OBVIOUS
    <2>0. ride \in [Rides -> RideRow]
      BY InvParts DEF ApartInv
    <2>1. CASE UNCHANGED ride
      BY <2>1
    <2>2. ASSUME NEW s \in Slots, NEW q \in Rides, Create(s, q)
          PROVE  ride'[r].driver = ride[r].driver
      BY <2>0, <2>2 DEF Create, RideRow
    <2>3. ASSUME NEW s \in Slots, Write(s)
          PROVE  ride'[r].driver \in {ride[r].driver, NoDriver}
      <3>1. PICK c, row : c = job[s].call /\ row = job[s].row
        OBVIOUS
      <3>2. /\ c \in Calls /\ row \in RideRow /\ ride[c.ride] = row /\ ~Refused(c, row)
            /\ c.op \in {"accept", "reject", "patch", "cancel", "sos"} /\ c.ride \in Rides
        BY <2>3, <3>1, SlotFacts DEF Write, At, Fits
      <3>3. ride' = [ride EXCEPT ![c.ride] = Written(c, row)]
        BY <2>3, <3>1, <3>2 DEF Write
      <3>4. CASE c.ride = r
        <4>1. Written(c, row).driver \in {row.driver, NoDriver}
          BY <2>0, <3>2, <3>4, WrittenColumns DEF Refused
        <4> QED
          BY <2>0, <3>2, <3>3, <3>4, <4>1
      <3>5. CASE c.ride # r
        BY <2>0, <3>3, <3>5
      <3> QED
        BY <3>4, <3>5
    <2>4. ASSUME NEW s \in Slots, Offer(s)
          PROVE  ride'[r].driver = ride[r].driver
      <3>1. Waiting(ride[Target(s)])
        BY <2>4, SlotFacts DEF Offer, At, Fits, Target
      <3> QED
        BY <2>0, <2>4, <3>1 DEF Offer, Waiting, RideRow
    <2> QED
      BY <2>1, <2>2, <2>3, <2>4
      DEF Next, vars, Continue, Read, Settle, Rank, Occupy, Abandon, GoOnline, GoOffline, Ping
  <1> QED
    BY <1>1, ApartAlways, PTL DEF Spec, DriverNeverReplaced
=============================================================================
