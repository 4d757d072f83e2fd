SPECIFICATION FairSpec
CONSTANTS
  Users = {1, 2}
  Requests = {p, q, r}
  Existing = {1}
  Opening = 2
  Amounts = {1}
  CallKinds = {"getBalance", "topUp", "transfer", "withdraw", "freeze"}
  Calls <- MCCalls
  NoOne = NoOne
INVARIANT LocksInOrder
PROPERTIES EveryRequestAnswered
