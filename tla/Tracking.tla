------------------------------ MODULE Tracking ------------------------------
(***************************************************************************)
(* The live state of one ride in Redis (ride-service, src/tracking): a     *)
(* JSON value that is read, changed and set whole, and a list of points    *)
(* whose expiry is a command of its own.  Redis runs one command at a      *)
(* time.  Coordinates, fares and times are data.                           *)
(***************************************************************************)
EXTENDS Service

CONSTANTS
  RideStatus,  \* the values of `status`
  MaxPoints    \* bound: the points of a path

ASSUME TrackingAssumption == MaxPoints \in Nat

VARIABLES
  active,   \* key ride:<id>
  path,     \* key ride:path:<id>: its length
  expires,  \* the path has a time to live
  unset     \* the appends that failed after their point was pushed

trackingVars == <<job, active, path, expires, unset>>

Gone == [status |-> "gone"]
ActiveRide == [status : RideStatus, driver : Users \cup {"none"}]

TrackingJob ==
  [step : {"set"}, state : ActiveRide] \cup [step : {"expire"}]

TrackingInit ==
  /\ AllIdle
  /\ active = Gone
  /\ path = 0 /\ expires = FALSE /\ unset = 0

\* setActiveRide(): SET with the ride's time to live.
SetActiveRide(st) ==
  /\ active' = [status |-> st, driver |-> "none"]
  /\ UNCHANGED <<job, path, expires, unset>>

\* updateActiveRideStatus(): GET; a ride that is not there is left alone ...
GetForUpdate(s, st, d) ==
  /\ IsIdle(s)
  /\ active # Gone
  /\ Goto(s, [step |-> "set",
              state |-> [status |-> st,
                         driver |-> IF d = "none" THEN active.driver ELSE d]])
  /\ UNCHANGED <<active, path, expires, unset>>

\* ... and SET of the whole value, whatever was set or deleted in between.
SetUpdated(s) ==
  /\ At(s, "set")
  /\ active' = job[s].state
  /\ Return(s)
  /\ UNCHANGED <<path, expires, unset>>

\* deleteActiveRide(), or the ride's time to live has passed.
DeleteActiveRide ==
  /\ active # Gone
  /\ active' = Gone
  /\ UNCHANGED <<job, path, expires, unset>>

-----------------------------------------------------------------------------
(* The path.                                                               *)

\* appendRidePathPoint(): RPUSH creates the list without a time to live ...
PushPoint(s) ==
  /\ IsIdle(s)
  /\ path < MaxPoints
  /\ path' = path + 1
  /\ Goto(s, [step |-> "expire"])
  /\ UNCHANGED <<active, expires, unset>>

\* Mutant: the expiry is set only for the first point.
ExpireFirst(s) ==
  /\ At(s, "expire")
  /\ expires' = (path = 1 \/ expires)
  /\ Return(s)
  /\ UNCHANGED <<active, path, unset>>

\* ... EXPIRE gives it one, if the key still exists.
ExpirePath(s) ==
  /\ At(s, "expire")
  /\ expires' = (path > 0)
  /\ Return(s)
  /\ UNCHANGED <<active, path, unset>>

\* clearRidePath(), or the time to live of the path has passed.
ClearPath ==
  /\ path > 0
  /\ path' = 0 /\ expires' = FALSE /\ unset' = 0
  /\ UNCHANGED <<job, active>>

\* The command fails or the process stops.
AbandonTracking(s) ==
  /\ ~IsIdle(s)
  /\ Return(s)
  /\ unset' = IF At(s, "expire") /\ path > 0 /\ unset < MaxPoints THEN unset + 1 ELSE unset
  /\ UNCHANGED <<active, path, expires>>

TrackingNext ==
  \/ DeleteActiveRide \/ ClearPath
  \/ \E st \in RideStatus : SetActiveRide(st)
  \/ \E s \in Slots :
       \/ \E st \in RideStatus, d \in Users \cup {"none"} : GetForUpdate(s, st, d)
       \/ SetUpdated(s) \/ PushPoint(s) \/ ExpirePath(s) \/ AbandonTracking(s)

TrackingSpec == TrackingInit /\ [][TrackingNext]_trackingVars

-----------------------------------------------------------------------------
(* Properties.                                                             *)

\* The keys in Redis and the locals of the handlers have their types.
TrackingTypeOK ==
  /\ active \in ActiveRide \cup {Gone}
  /\ path \in 0..MaxPoints /\ unset \in 0..MaxPoints /\ expires \in BOOLEAN
  /\ job \in [Slots -> TrackingJob \cup {Idle}]

\* A path never stays in Redis for good: one without a time to live has an
\* append under way that will set it, or one that failed in between.
PathExpires ==
  path > 0 /\ ~expires => unset > 0 \/ \E s \in Slots : At(s, "expire")
=============================================================================
