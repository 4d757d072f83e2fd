SPECIFICATION Spec
CONSTANTS
  Users = {1, 2}
  Requests = {p, q, r}
  Existing = {1, 2}
  Opening = 2
  Amounts = {2}
  CallKinds = {"topUp", "deduct", "credit", "transfer", "withdraw", "freeze", "unfreeze"}
  Calls <- MCCalls
  NoOne = NoOne
SYMMETRY SymRequests
INVARIANTS LedgerMatchesBalance TotalConserved NoOverdraft
PROPERTIES FrozenOnlyCredited ImplementsBank
