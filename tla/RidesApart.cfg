SPECIFICATION FairSpec
CONSTANTS
  Rides = {r1, r2}
  Drivers = {d1, d2}
  NoDriver = NoDriver
  Slots = {s1, s2}
  Apart = TRUE
  Pings = TRUE
  Faults = FALSE
  Ops = {"accept", "reject", "patch", "cancel"}
  Patches = {"IN_PROGRESS", "COMPLETED"}
  Calls <- MCCalls
INVARIANT BusyOnlyWhenRiding
PROPERTIES DriverNeverReplaced ImplementsDispatch DriverFreed
