\* A fallback as long as the cooldown.
CONSTANTS
  Callers = {c1, c2, c3}
  Idle = Idle
  Timeout = 1
  FallbackTime = 3
  HalfOpenAfter = 3
  Window = 2
  VolumeThreshold = 2
  ErrorThresholdPct = 50
  MaxRecords = 4
SPECIFICATION Spec
SYMMETRY Symmetry
INVARIANT SingleProbe
