\* Three updates of an order that overlap, or two placements with carts of at
\* most two lines.
CONSTANTS
  Orders = {o1}
  Drivers = {d1}
  NoDriver = NoDriver
  Slots = {s1, s2, s3}
  Items = {1, 2}
  Restaurant = Restaurant
  Requests = {p1, p2}
  MaxLines = 2
  Quantities = {1, 2}
  Carts <- MCCarts
  TooSmall <- MCTooSmall
  NoOne = NoOne
SPECIFICATION MCSpec
INVARIANTS MilestonesComplete PaidIffDelivered CountersMatchOrders OnlyUnsortedCartsDeadlock
PROPERTY EveryOrderAnswered
