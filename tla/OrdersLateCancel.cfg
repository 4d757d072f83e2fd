SPECIFICATION Spec
CONSTANTS
  Orders = {o1}
  Drivers = {d1}
  NoDriver = NoDriver
  Slots = {s1, s2}
INVARIANT PickedUpNotCancelled
