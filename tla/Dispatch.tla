------------------------------ MODULE Dispatch ------------------------------
(***************************************************************************)
(* What ride dispatch promises, without handlers and awaits: a request is  *)
(* one step on the ride and on the status of its driver together, and the  *)
(* search for a driver is two, the choice among those ONLINE and the       *)
(* assignment.  It does not promise that a driver who takes a ride is      *)
(* free: nothing in the code asks for it.                                  *)
(***************************************************************************)
CONSTANTS Rides, Drivers, NoDriver

VARIABLES
  trip,   \* per ride, its status and its driver
  shift,  \* each driver's status
  search  \* per ride, the searches for a driver under way, one at most

Nobody(without) == [pick |-> NoDriver, without |-> without]

Set(d, st) == [e \in Drivers |-> IF e = d THEN st ELSE shift[e]]

Init ==
  /\ trip = [r \in Rides |-> [status |-> "NONE", driver |-> NoDriver]]
  /\ shift = [d \in Drivers |-> "OFFLINE"]
  /\ search = [r \in Rides |-> {}]

Request(r) ==
  /\ trip[r].status = "NONE"
  /\ trip' = [trip EXCEPT ![r].status = "REQUESTED"]
  /\ search' = [search EXCEPT ![r] = {Nobody({})}]
  /\ UNCHANGED shift

\* The search takes a driver who is ONLINE and has not declined the ride, or
\* ends without one.
Pick(r, d) ==
  /\ shift[d] = "ONLINE"
  /\ \E l \in search[r] : /\ l.pick = NoDriver /\ d \notin l.without
                          /\ search' = [search EXCEPT ![r] = {[l EXCEPT !.pick = d]}]
  /\ UNCHANGED <<trip, shift>>

GiveUp(r) ==
  /\ \E l \in search[r] : l.pick = NoDriver
  /\ search' = [search EXCEPT ![r] = {}]
  /\ UNCHANGED <<trip, shift>>

Assign(r, d) ==
  /\ \E l \in search[r] : l.pick = d
  /\ trip[r].status = "REQUESTED"
  /\ trip' = [trip EXCEPT ![r] = [status |-> "MATCHED", driver |-> d]]
  /\ shift' = Set(d, "BUSY")
  /\ search' = [search EXCEPT ![r] = {}]

\* A driver takes a ride nobody has, or the one it was given.
Accept(r, d) ==
  /\ search[r] = {}
  /\ trip[r].status \in {"REQUESTED", "MATCHED"}
  /\ trip[r].driver \in {NoDriver, d}
  /\ trip' = [trip EXCEPT ![r] = [status |-> "MATCHED", driver |-> d]]
  /\ shift' = Set(d, "BUSY")
  /\ UNCHANGED search

\* Only the ride's driver declines it.  The search begins anew without them.
Decline(r, d) ==
  /\ search[r] = {}
  /\ trip[r].driver = d
  /\ trip' = [trip EXCEPT ![r] = [status |-> "REQUESTED", driver |-> NoDriver]]
  /\ shift' = Set(d, "ONLINE")
  /\ search' = [search EXCEPT ![r] = {Nobody({d})}]

Report(r, st) ==
  /\ search[r] = {} /\ trip[r].status # "NONE"
  /\ trip' = [trip EXCEPT ![r].status = st]
  /\ UNCHANGED <<shift, search>>

\* The end of a ride frees its driver; a completed ride is not cancelled.
End(r, st) ==
  /\ search[r] = {} /\ trip[r].status # "NONE"
  /\ st = "CANCELLED" => trip[r].status # "COMPLETED"
  /\ trip' = [trip EXCEPT ![r].status = st]
  /\ shift' = Set(trip[r].driver, "ONLINE")
  /\ UNCHANGED search

\* Drivers come and go, on a ride or not.
Change(d, st) == shift' = Set(d, st) /\ UNCHANGED <<trip, search>>

Next ==
  \/ \E r \in Rides :
       \/ Request(r) \/ GiveUp(r)
       \/ \E d \in Drivers : Pick(r, d) \/ Assign(r, d) \/ Accept(r, d) \/ Decline(r, d)
       \/ \E st \in {"PICKUP", "IN_PROGRESS"} : Report(r, st)
       \/ \E st \in {"COMPLETED", "CANCELLED"} : End(r, st)
  \/ \E d \in Drivers, st \in {"ONLINE", "OFFLINE"} : Change(d, st)

Spec == Init /\ [][Next]_<<trip, shift, search>>
=============================================================================
