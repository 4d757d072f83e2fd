-------------------------------- MODULE Rides --------------------------------
(***************************************************************************)
(* ride-service: rides in PostgreSQL (src/rides/rides.service.ts), driver  *)
(* statuses in MongoDB (src/drivers/drivers.service.ts), and the matching  *)
(* task that create() and rejectRide() start without awaiting it.          *)
(*                                                                         *)
(* Nothing is transactional: a handler reads the ride, checks it, updates  *)
(* the ride, then updates the driver, and at each of these awaits any      *)
(* other handler or matching task may run, or the await may throw.  A slot *)
(* is one chain of awaits: a request's handler and, after it, the matching *)
(* task it spawned.  It is reused when the chain has ended, so the number  *)
(* of slots bounds what overlaps and not how many requests are served.     *)
(***************************************************************************)
EXTENDS FiniteSets

CONSTANTS
  Rides,     \* the rides that may be requested
  Drivers,   \* the drivers
  NoDriver,  \* the NULL of column driver_id
  Slots,     \* the chains of awaits that can be under way at once
  Calls,     \* the requests about an existing ride that clients may send
  Apart,     \* a request about a ride waits for those before it, see Read
  Pings,     \* driver apps stream their location
  Faults     \* an await may throw, or the process restart

Status  == {"NONE", "REQUESTED", "MATCHED", "PICKUP", "IN_PROGRESS",
            "COMPLETED", "CANCELLED"}
Active  == {"MATCHED", "PICKUP", "IN_PROGRESS"}
Over    == {"COMPLETED", "CANCELLED"}
Holders == Drivers \cup {NoDriver}

\* to is the status of a PATCH and "NONE" in the other calls; driver is the
\* driverId of accept and reject and the optional driver_id of a PATCH.
CallType == [op : {"create", "accept", "reject", "patch", "cancel", "sos"},
             ride : Rides, driver : Holders, to : Status]

ASSUME RidesAssumption ==
  /\ NoDriver \notin Drivers
  /\ Calls \subseteq CallType
  /\ \A c \in Calls : c.op # "create"
  /\ \A c \in Calls : c.op \in {"accept", "reject"} => c.driver \in Drivers
  /\ {Apart, Pings, Faults} \subseteq BOOLEAN

VARIABLES
  ride,    \* table rides
  driver,  \* collection driver_locations: each driver's status
  job      \* what each slot is doing

vars == <<ride, driver, job>>

Unborn == [status |-> "NONE", driver |-> NoDriver, sos |-> FALSE]
RideRow == [status : Status, driver : Holders, sos : BOOLEAN]

\* row is the entity the handler read, or gave to the matching task; held the
\* driver the slot will set the status of next; excluded the excludeDriverIds
\* of its matching task.
Job  == [step : {"write", "settle", "rank", "offer", "occupy"}, call : CallType,
         row : RideRow, held : Holders, excluded : SUBSET Drivers]
Idle == [step |-> "idle"]

Start(step, c, row, d) ==
  [step |-> step, call |-> c, row |-> row, held |-> d, excluded |-> {}]

Init ==
  /\ ride = [r \in Rides |-> Unborn]
  /\ driver = [d \in Drivers |-> "OFFLINE"]
  /\ job = [s \in Slots |-> Idle]

At(s, st)   == job[s].step = st
Target(s)   == job[s].call.ride
About(r)    == {s \in Slots : ~At(s, "idle") /\ Target(s) = r}

-----------------------------------------------------------------------------
(* Handlers                                                                *)

\* POST /rides: the row is saved and the matching task starts, with nobody
\* excluded.  The surge multiplier read before it is data.
Create(s, r) ==
  /\ At(s, "idle")
  /\ ride[r].status = "NONE"
  /\ ride' = [ride EXCEPT ![r].status = "REQUESTED"]
  /\ job' = [job EXCEPT ![s] =
       Start("rank", [op |-> "create", ride |-> r, driver |-> NoDriver,
                      to |-> "NONE"], ride'[r], NoDriver)]
  /\ UNCHANGED driver

\* Mutant: acceptRide() does not look at the driver the ride has.
RefusedByStatusOnly(c, row) ==
  CASE c.op = "accept" -> row.status \notin {"REQUESTED", "MATCHED"}
    [] c.op = "reject" -> row.driver # c.driver
    [] c.op = "cancel" -> row.status = "COMPLETED"
    [] OTHER           -> FALSE

\* What the handlers check on the row they read.  updateStatus and
\* triggerSos check nothing.
Refused(c, row) ==
  CASE c.op = "accept" -> \/ row.status \notin {"REQUESTED", "MATCHED"}
                          \/ row.driver \notin {NoDriver, c.driver}
    [] c.op = "reject" -> row.driver # c.driver
    [] c.op = "cancel" -> row.status = "COMPLETED"
    [] OTHER           -> FALSE

\* The findById() a handler begins with, and its checks.  Nothing in the
\* clients narrows what is sent: ride:new_request goes to every driver's app,
\* which shows it in any state, and nobody asks whether the driver is free.
\* Apart is a circumstance and no check of the code: nothing else is under way
\* about this ride; requests about other rides are, in the other slots.
Read(s, c) ==
  LET row == ride[c.ride] IN
  /\ At(s, "idle")
  /\ Apart => About(c.ride) = {}
  /\ row.status # "NONE"
  /\ ~Refused(c, row)
  /\ job' = [job EXCEPT ![s] =
       Start("write", c, row, IF c.op \in {"accept", "reject"} THEN c.driver
                              ELSE row.driver)]
  /\ UNCHANGED <<ride, driver>>

Closes(c) == c.op = "cancel" \/ (c.op = "patch" /\ c.to \in Over)

\* Mutant: rejectRide() leaves driver_id as it is.
WrittenKeepingDriver(c, row) ==
  CASE c.op = "accept" -> [row EXCEPT !.driver = c.driver, !.status = "MATCHED"]
    [] c.op = "reject" -> [row EXCEPT !.status = "REQUESTED"]
    [] Closes(c)       -> [row EXCEPT !.status = IF c.op = "patch" THEN c.to
                                                 ELSE "CANCELLED"]
    [] c.op = "patch"  -> [row EXCEPT !.status = c.to]
    [] c.op = "sos"    -> [row EXCEPT !.sos = TRUE]

\* Mutant: acceptRide() saves a new entity instead of updating three columns.
WrittenAsNew(c, row) ==
  CASE c.op = "accept" -> [Unborn EXCEPT !.driver = c.driver, !.status = "MATCHED"]
    [] c.op = "reject" -> [row EXCEPT !.driver = NoDriver, !.status = "REQUESTED"]
    [] Closes(c)       -> [row EXCEPT !.status = IF c.op = "patch" THEN c.to
                                                 ELSE "CANCELLED"]
    [] c.op = "patch"  -> [row EXCEPT !.status = c.to]
    [] c.op = "sos"    -> [row EXCEPT !.sos = TRUE]

\* The columns a handler's UPDATE sets; it leaves the others as they are now.
Written(c, row) ==
  CASE c.op = "accept" -> [row EXCEPT !.driver = c.driver, !.status = "MATCHED"]
    [] c.op = "reject" -> [row EXCEPT !.driver = NoDriver, !.status = "REQUESTED"]
    [] Closes(c)       -> [row EXCEPT !.status = IF c.op = "patch" THEN c.to
                                                 ELSE "CANCELLED"]
    [] c.op = "patch"  -> [row EXCEPT !.status = c.to,
                                      !.driver = IF c.driver = NoDriver THEN @
                                                 ELSE c.driver]
    [] c.op = "sos"    -> [row EXCEPT !.sos = TRUE]

\* Mutants: cancelling a ride, or completing it, does not free the driver.
SettlesButCancel(c, d)   == \/ c.op \in {"accept", "reject"}
                            \/ c.op = "patch" /\ Closes(c) /\ d # NoDriver
SettlesButComplete(c, d) == \/ c.op \in {"accept", "reject"}
                            \/ c.op = "cancel" /\ d # NoDriver

\* Whether the handler goes on to set a driver's status.
Settles(c, d) == c.op \in {"accept", "reject"} \/ (Closes(c) /\ d # NoDriver)

Write(s) ==
  LET c == job[s].call IN
  /\ At(s, "write")
  /\ ride' = [ride EXCEPT ![c.ride] = Written(c, @)]
  /\ job' = [job EXCEPT ![s] = IF Settles(c, job[s].held)
                               THEN [@ EXCEPT !.step = "settle"] ELSE Idle]
  /\ UNCHANGED driver

\* setDriverStatus() of the driver the handler was told of, or saw.  After a
\* rejection the matching task follows, without that driver.
Settle(s) ==
  LET c == job[s].call  d == job[s].held IN
  /\ At(s, "settle")
  /\ driver' = [driver EXCEPT ![d] = IF c.op = "accept" THEN "BUSY" ELSE "ONLINE"]
  /\ job' = [job EXCEPT ![s] =
       IF c.op = "reject"
       THEN [@ EXCEPT !.step = "rank", !.row = ride[c.ride], !.held = NoDriver,
                      !.excluded = {d}]
       ELSE Idle]
  /\ UNCHANGED ride

-----------------------------------------------------------------------------
(* The matching task                                                       *)

\* Mutant: the query does not filter on status.
EligibleAnyStatus(s) == Drivers \ job[s].excluded

\* findBestDriver() picks the best score among the ONLINE drivers nearby;
\* any of them may be the best, and all may be out of the search radius.
Eligible(s) == {d \in Drivers \ job[s].excluded : driver[d] = "ONLINE"}

Rank(s) ==
  /\ At(s, "rank")
  /\ \/ \E d \in Eligible(s) :
          job' = [job EXCEPT ![s].step = "offer", ![s].held = d]
     \/ job' = [job EXCEPT ![s] = Idle]
  /\ UNCHANGED <<ride, driver>>

Offer(s) ==
  /\ At(s, "offer")
  /\ ride' = [ride EXCEPT ![Target(s)].status = "MATCHED",
                          ![Target(s)].driver = job[s].held]
  /\ job' = [job EXCEPT ![s].step = "occupy"]
  /\ UNCHANGED driver

Occupy(s) ==
  /\ At(s, "occupy")
  /\ driver' = [driver EXCEPT ![job[s].held] = "BUSY"]
  /\ job' = [job EXCEPT ![s] = Idle]
  /\ UNCHANGED ride

-----------------------------------------------------------------------------
(* Drivers and failures                                                    *)

\* POST /drivers/online
GoOnline(d) ==
  /\ driver' = [driver EXCEPT ![d] = "ONLINE"]
  /\ UNCHANGED <<ride, job>>

\* POST /drivers/offline
GoOffline(d) ==
  /\ driver' = [driver EXCEPT ![d] = "OFFLINE"]
  /\ UNCHANGED <<ride, job>>

\* POST /drivers/location, which the app sends every two seconds of a shift:
\* the controller passes ONLINE whatever the driver is doing.
Ping(d) ==
  /\ Pings
  /\ driver' = [driver EXCEPT ![d] = "ONLINE"]
  /\ UNCHANGED <<ride, job>>

\* A query throws or the process goes down: what was written stays, the rest
\* of the chain is not run and nobody takes it up again.
Abandon(s) ==
  /\ Faults
  /\ ~At(s, "idle")
  /\ job' = [job EXCEPT ![s] = Idle]
  /\ UNCHANGED <<ride, driver>>

Continue(s) == Write(s) \/ Settle(s) \/ Rank(s) \/ Offer(s) \/ Occupy(s)

Next ==
  \/ \E s \in Slots : \/ Continue(s) \/ Abandon(s)
                      \/ \E r \in Rides : Create(s, r)
                      \/ \E c \in Calls : Read(s, c)
  \/ \E d \in Drivers : Ping(d) \/ GoOnline(d) \/ GoOffline(d)

Spec == Init /\ [][Next]_vars

\* The event loop and the databases answer every await.  Clients are free.
FairSpec == Spec /\ \A s \in Slots : WF_vars(Continue(s))

-----------------------------------------------------------------------------
(* Properties                                                              *)

\* Type correctness.
TypeOK ==
  /\ ride \in [Rides -> RideRow]
  /\ driver \in [Drivers -> {"OFFLINE", "ONLINE", "BUSY"}]
  /\ job \in [Slots -> Job \cup {Idle}]

\* However handlers and matching tasks overlap, and wherever they break off:
\* the two columns a ride's state is made of agree.  A ride waiting for a
\* driver has none, a matched ride has one (accept, reject and the matching
\* task each write both columns in one UPDATE).
StatusFitsDriver ==
  \A r \in Rides :
    /\ ride[r].status \in {"NONE", "REQUESTED"} => ride[r].driver = NoDriver
    /\ ride[r].status = "MATCHED" => ride[r].driver \in Drivers

\* An SOS is never lost, whatever handler with an older copy of the ride
\* writes after it: each UPDATE names only the columns it means to set.
SosNeverLost == [][\A r \in Rides : ride[r].sos => ride'[r].sos]_vars

Carries(d, r) == ride[r].driver = d /\ ride[r].status \in Active

\* No driver has two rides under way (docs/RIDE_MATCHING.md: a candidate is
\* "ONLINE and not on an active ride").
OneActiveRide ==
  \A d \in Drivers, q, r \in Rides : Carries(d, q) /\ Carries(d, r) => q = r

\* Where the requests about one ride do not overlap, those about other rides
\* do: nobody is left BUSY in MongoDB without a ride under way in PostgreSQL,
\* except while a handler is about to set that driver's status.
BusyOnlyWhenRiding ==
  \A d \in Drivers : driver[d] = "BUSY" =>
    \/ \E r \in Rides : Carries(d, r)
    \/ \E s \in Slots : At(s, "settle") /\ job[s].held = d

\* A ride is never handed from one driver to another without a rejection in
\* between ('Ride already assigned to another driver').
DriverNeverReplaced ==
  [][\A r \in Rides : ride[r].driver # NoDriver =>
                        ride'[r].driver \in {ride[r].driver, NoDriver}]_vars

\* A ride that ends frees its driver ("Free up the driver"): nobody stays
\* BUSY for ever on account of a ride that is over.
DriverFreed ==
  \A r \in Rides, d \in Drivers :
    (ride[r].driver = d /\ ride[r].status \in Over) ~>
      (driver[d] # "BUSY" \/ \E q \in Rides : Carries(d, q))

\* Where the requests about one ride do not overlap, each of them is one step
\* on both databases, whatever is going on about other rides: the ride changes,
\* as far as dispatch is concerned, when the driver's status does.
Settling(r)  == {s \in Slots : job[s].step \in {"settle", "occupy"} /\ Target(s) = r}
Matching(r)  == {s \in Slots : job[s].step \in {"rank", "offer", "occupy"} /\ Target(s) = r}
Columns(row) == [status |-> row.status, driver |-> row.driver]

Trip == [r \in Rides |-> Columns(IF Settling(r) = {} THEN ride[r]
                                 ELSE job[CHOOSE s \in Settling(r) : TRUE].row)]

Search == [r \in Rides |-> {[pick |-> job[s].held, without |-> job[s].excluded]
                             : s \in Matching(r)}]

Abstract == INSTANCE Dispatch WITH trip <- Trip, shift <- driver, search <- Search
ImplementsDispatch == Abstract!Spec
=============================================================================
