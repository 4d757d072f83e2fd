SPECIFICATION Spec
CONSTANTS
  Users = {1, 2, 3}
  Requests = {p, q}
  Existing = {1, 2}
  Opening = 2
  Amounts = {1}
  CallKinds = {"transfer"}
  Calls <- MCCalls
  NoOne = NoOne
SYMMETRY SymRequests
INVARIANTS TotalConserved
