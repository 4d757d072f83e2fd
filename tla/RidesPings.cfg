SPECIFICATION Spec
CONSTANTS
  Rides = {r1, r2}
  Drivers = {d1}
  NoDriver = NoDriver
  Slots = {s1}
  Apart = TRUE
  Pings = TRUE
  Faults = FALSE
  Ops = {}
  Patches = {}
  Calls <- MCCalls
INVARIANT OneActiveRide
