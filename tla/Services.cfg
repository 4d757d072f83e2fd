\* Two handlers that overlap, and what they read and write.
CONSTANTS
  Users = {u1, u2}
  Slots = {s1, s2}
  Codes = {c1}
  Terms <- MCTerms
  PoolSize = 2
  References = {r1, r2}
  Targets = {t1}
  Scores = {four, five}
  four = four
  five = five
  Reviews = {v1}
  Rooms = {m1, m2, m3}
  MaxMessages = 2
  Addresses = {a1, a2, a3}
  MaxWrites = 3
  Categories = {g1, g2}
  Items = {i1}
  RideStatus = {"ACCEPTED", "IN_PROGRESS"}
  MaxPoints = 3
  Keys = {k1}
  PushTokens = {p1}
  MaxTries = 2
  MaxStalls = 1
  MaxRequests = 2
  MaxFailedAttempts = 3
  MaxOtps = 2
  MaxOtpAttempts = 2
  Rows = {w1, w2, w3}
  MaxSeconds = 2
  Limit = 2
  WindowMs = 3
  MaxLapses = 2
  Trips = {333, 12345}
  MaxDemand = 2
  Types = {b1, b2}
  Hours = {9, 10}
  Restaurants = {z1, z2}
  PageSize = 3
  TopCount = 1
  Earlier = 1
  MaxLive = 1
  Entries = {e1, e2}
  Queries = {1, 2}
SPECIFICATION Spec
SYMMETRY Symmetry
INVARIANTS ServicesTypeOK UsesWithinOverlap AggregateWithinRatings UnreadWithinMessages DuplicatesWithinOverlap UntouchedItemsShownOnce CopiesBounded GuessesLimited ExchangesWithinRows RunsBounded AtMostTwiceLimit PathExpires RoundedSumsClose 
CHECK_DEADLOCK FALSE
