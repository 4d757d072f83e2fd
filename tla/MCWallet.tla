------------------------------ MODULE MCWallet ------------------------------
(***************************************************************************)
(* Small instances of Wallet: the calls of the runs.                       *)
(***************************************************************************)
EXTENDS Wallet, TLC

CONSTANTS
  Amounts,    \* the amounts of the calls
  CallKinds   \* the methods that are called

\* Every call of these kinds and amounts, transfers to oneself included.
MCCalls ==
  {c \in [op : CallKinds, user : Users, peer : Users, amount : Amounts] :
     c.op # "transfer" => c.peer = c.user}

SymRequests == Permutations(Requests)
=============================================================================
