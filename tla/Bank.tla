-------------------------------- MODULE Bank --------------------------------
(***************************************************************************)
(* What the wallet methods promise, seen from outside: each call takes     *)
(* effect in one indivisible step on the balances of that moment, or not   *)
(* at all.  Wallet implements it as long as no wallet is created while two *)
(* requests use it.                                                        *)
(***************************************************************************)
EXTENDS Integers

CONSTANTS Users, Amounts, Opening

VARIABLES balance, pending, frozen

bank == <<balance, pending, frozen>>

Init ==
  /\ balance = [u \in Users |-> Opening[u]]
  /\ pending = [u \in Users |-> 0]
  /\ frozen = [u \in Users |-> FALSE]

\* Money enters an account that is not frozen.
TopUp(u, a) ==
  /\ ~frozen[u]
  /\ balance' = [balance EXCEPT ![u] = @ + a]
  /\ UNCHANGED <<pending, frozen>>

\* A refund or a payout enters an account even when it is frozen.
Credit(u, a) ==
  /\ balance' = [balance EXCEPT ![u] = @ + a]
  /\ UNCHANGED <<pending, frozen>>

\* A payment needs the money to be there.
Deduct(u, a) ==
  /\ ~frozen[u] /\ balance[u] >= a
  /\ balance' = [balance EXCEPT ![u] = @ - a]
  /\ UNCHANGED <<pending, frozen>>

\* A withdrawal sets the money aside until the bank has paid it out.
Withdraw(u, a) ==
  /\ ~frozen[u] /\ balance[u] >= a
  /\ balance' = [balance EXCEPT ![u] = @ - a]
  /\ pending' = [pending EXCEPT ![u] = @ + a]
  /\ UNCHANGED frozen

\* Money changes hands between two accounts that are not frozen.
Transfer(u, v, a) ==
  /\ u # v /\ ~frozen[u] /\ ~frozen[v] /\ balance[u] >= a
  /\ balance' = [balance EXCEPT ![u] = @ - a, ![v] = @ + a]
  /\ UNCHANGED <<pending, frozen>>

SetFrozen(u, flag) ==
  /\ frozen' = [frozen EXCEPT ![u] = flag]
  /\ UNCHANGED <<balance, pending>>

Next ==
  \/ \E u \in Users, a \in Amounts :
       \/ TopUp(u, a) \/ Credit(u, a) \/ Deduct(u, a) \/ Withdraw(u, a)
       \/ \E v \in Users : Transfer(u, v, a)
  \/ \E u \in Users, flag \in BOOLEAN : SetFrozen(u, flag)

Spec == Init /\ [][Next]_bank
=============================================================================
