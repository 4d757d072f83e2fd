SPECIFICATION Spec
CONSTANTS
  Rides = {r1}
  Drivers = {d1, d2}
  NoDriver = NoDriver
  Slots = {s1, s2}
  Apart = FALSE
  Pings = TRUE
  Faults = TRUE
  Ops = {"accept", "reject", "patch", "cancel", "sos"}
  Patches = {"PICKUP", "IN_PROGRESS", "COMPLETED", "CANCELLED"}
  Calls <- MCCalls
SYMMETRY Symmetry
INVARIANT StatusFitsDriver
PROPERTY SosNeverLost
