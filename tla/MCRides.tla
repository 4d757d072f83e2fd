------------------------------- MODULE MCRides -------------------------------
(***************************************************************************)
(* Instances of Rides for TLC.                                             *)
(***************************************************************************)
EXTENDS Rides, TLC

CONSTANTS
  Ops,      \* which handlers are called, besides POST /rides
  Patches   \* the statuses PATCH /rides/:id/status is called with

CallsOf(op) ==
  CASE op \in {"accept", "reject"} ->
         [op : {op}, ride : Rides, driver : Drivers, to : {"NONE"}]
    [] op = "patch" -> [op : {op}, ride : Rides, driver : {NoDriver}, to : Patches]
    [] OTHER        -> [op : {op}, ride : Rides, driver : {NoDriver}, to : {"NONE"}]

MCCalls == UNION {CallsOf(op) : op \in Ops}

\* Rides and drivers are told apart by nothing but their state.
Symmetry == Permutations(Rides) \cup Permutations(Drivers) \cup Permutations(Slots)
=============================================================================
