\* Calls and fallbacks shorter than the cooldown: the defaults' 3 s timeout
\* against 5 s of cooldown, in units of 1 and 3.
CONSTANTS
  Callers = {c1, c2, c3}
  Idle = Idle
  Timeout = 1
  FallbackTime = 1
  HalfOpenAfter = 3
  Window = 2
  VolumeThreshold = 2
  ErrorThresholdPct = 50
  MaxRecords = 4
SPECIFICATION Spec
SYMMETRY Symmetry
INVARIANTS ProbeInFlight SingleProbe
