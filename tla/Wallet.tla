------------------------------- MODULE Wallet -------------------------------
(***************************************************************************)
(* The wallet of payment-service (src/wallet/wallet.service.ts): every     *)
(* HTTP request is a process that runs one service method, statement by    *)
(* statement, against PostgreSQL at READ COMMITTED.  Between two `await`s  *)
(* any other request may run.                                              *)
(*                                                                         *)
(* A statement that needs a row lock held by another transaction waits.    *)
(* What a transaction has written and not committed is visible only to     *)
(* itself: it lives in mem, next to the entities the code holds, and       *)
(* reaches row and ledger at COMMIT.                                       *)
(***************************************************************************)
EXTENDS Integers, Sequences, FiniteSets, Sums

CONSTANTS
  Users,     \* wallet owners; numbers, because transfer() sorts the ids
  Requests,  \* the HTTP requests of a behaviour, one process each
  Calls,     \* the calls a request may be
  Existing,  \* the users whose wallet row exists at the start
  Opening,   \* the balance those wallets start with
  NoOne      \* the owner of a row nobody has locked

Ops == {"getBalance", "topUp", "deduct", "credit", "transfer", "withdraw",
        "freeze", "unfreeze"}

\* A call names the wallet it is about and, for a transfer, the payee; the
\* other methods have one wallet, so peer = user there.
CallType == [op : Ops, user : Users, peer : Users, amount : Nat]

ASSUME WalletAssumption ==
  /\ Users \subseteq Nat /\ IsFiniteSet(Users)
  /\ Existing \subseteq Users
  /\ Opening \in Nat
  /\ Calls \subseteq CallType
  /\ \A c \in Calls : c.op # "transfer" => c.peer = c.user
  /\ NoOne \notin Requests

VARIABLES
  row,     \* the committed rows of table wallets
  ledger,  \* the committed rows of table transactions, by user, oldest first
  owner,   \* the transaction that holds a wallet's row lock or its unique key
  call,    \* what each request is
  pc,      \* the statement each request runs next
  todo,    \* the wallets a request has still to fetch
  mem      \* the WalletEntity objects a request holds

vars == <<row, ledger, owner, call, pc, todo, mem>>

Absent == [exists |-> FALSE, balance |-> 0, pending |-> 0, frozen |-> FALSE]
Fresh  == [exists |-> TRUE,  balance |-> 0, pending |-> 0, frozen |-> FALSE]

Wallets(c) == {c.user, c.peer}

\* The methods that run inside dataSource.transaction().
InTransaction(c) == c.op \notin {"getBalance", "freeze", "unfreeze"}

\* The first statement of a call.  A transfer to oneself is refused at once.
EntryPoint(c) ==
  CASE c.op = "transfer" /\ c.user = c.peer -> "failed"
    [] c.op \in {"freeze", "unfreeze"}      -> "flag"
    [] c.op = "getBalance"                  -> "read"
    [] OTHER                                -> "find"

Init ==
  /\ row = [u \in Users |-> IF u \in Existing
                            THEN [Fresh EXCEPT !.balance = Opening] ELSE Absent]
  /\ ledger = [u \in Users |-> <<>>]
  /\ owner = [u \in Users |-> NoOne]
  /\ call \in [Requests -> Calls]
  /\ pc = [p \in Requests |-> EntryPoint(call[p])]
  /\ todo = [p \in Requests |-> Wallets(call[p])]
  /\ mem = [p \in Requests |-> [u \in Users |-> Absent]]

\* Mutant: the two ids are locked as they come, not sorted.
CurrentUnsorted(p, u) == u \in todo[p]

\* The wallet being fetched: ids are sorted, the smaller one is locked first.
Current(p, u) == u \in todo[p] /\ \A v \in todo[p] : u <= v

Free(u) == owner[u] = NoOne

Goto(p, l) == pc' = [pc EXCEPT ![p] = l]

\* COMMIT and ROLLBACK let go of every row the transaction holds.
Released(p) == [u \in Users |-> IF owner[u] = p THEN NoOne ELSE owner[u]]

Fail(p) ==
  /\ Goto(p, "failed")
  /\ owner' = Released(p)
  /\ UNCHANGED <<row, ledger, call, todo, mem>>

\* p has its entity of u, and its row lock: next wallet, or the body.
Fetched(p, u, entity) ==
  /\ owner' = [owner EXCEPT ![u] = p]
  /\ mem' = [mem EXCEPT ![p][u] = entity]
  /\ todo' = [todo EXCEPT ![p] = @ \ {u}]
  /\ Goto(p, IF todo[p] = {u} THEN "check" ELSE "find")
  /\ UNCHANGED <<row, ledger, call>>
-----------------------------------------------------------------------------
\* freeze() and unfreeze(): one UPDATE of the flag, in a transaction of its
\* own; it finds no row to update when the wallet does not exist.
SetFlag(p) ==
  LET u == call[p].user IN
  /\ pc[p] = "flag"
  /\ row[u].exists => Free(u)
  /\ row' = IF row[u].exists
            THEN [row EXCEPT ![u].frozen = (call[p].op = "freeze")] ELSE row
  /\ Goto(p, "read")
  /\ UNCHANGED <<ledger, owner, call, todo, mem>>

\* getOrCreate(): findOne without a lock.
Read(p) ==
  /\ pc[p] = "read"
  /\ Goto(p, IF row[call[p].user].exists THEN "done" ELSE "probe")
  /\ UNCHANGED <<row, ledger, owner, call, todo, mem>>

\* Mutant: findOne without lock: pessimistic_write.
LockRowUnlocked(p) ==
  /\ pc[p] = "find"
  /\ \E u \in Users :
       /\ Current(p, u) /\ row[u].exists
       /\ mem' = [mem EXCEPT ![p][u] = row[u]]
       /\ todo' = [todo EXCEPT ![p] = @ \ {u}]
       /\ Goto(p, IF todo[p] = {u} THEN "check" ELSE "find")
       /\ UNCHANGED <<row, ledger, owner, call>>

\* getOrCreateForUpdate(): SELECT ... FOR UPDATE locks and reads the row...
LockRow(p) ==
  /\ pc[p] = "find"
  /\ \E u \in Users :
       /\ Current(p, u) /\ row[u].exists /\ Free(u)
       /\ Fetched(p, u, row[u])

\* ... and returns nothing, without waiting, when no row is committed.
FindNone(p) ==
  /\ pc[p] = "find"
  /\ \E u \in Users : Current(p, u) /\ ~row[u].exists
  /\ Goto(p, "probe")
  /\ UNCHANGED <<row, ledger, owner, call, todo, mem>>

\* save() of the new entity looks its key up again, and decides by what it
\* sees between an INSERT and an UPDATE.
Probe(p) ==
  /\ pc[p] = "probe"
  /\ \E u \in Users :
       Current(p, u) /\ Goto(p, IF row[u].exists THEN "reset" ELSE "insert")
  /\ UNCHANGED <<row, ledger, owner, call, todo, mem>>

\* The new entity's write.  Inside transaction() it stays uncommitted;
\* getOrCreate() commits it at once.
WriteNew(p, u) ==
  IF InTransaction(call[p])
  THEN Fetched(p, u, Fresh)
  ELSE /\ row' = [row EXCEPT ![u] = [Fresh EXCEPT !.frozen = row[u].frozen]]
       /\ Goto(p, "done")
       /\ UNCHANGED <<ledger, owner, call, todo, mem>>

\* INSERT of a zero wallet; it waits for another uncommitted INSERT of the
\* key and fails on the primary key if a row is there by then.
Insert(p) ==
  /\ pc[p] = "insert"
  /\ \E u \in Users :
       /\ Current(p, u)
       /\ \/ row[u].exists /\ Fail(p)
          \/ ~row[u].exists /\ Free(u) /\ WriteNew(p, u)

\* UPDATE of a row another request created meanwhile, to the zeros of the
\* new entity (balance and pendingBalance; frozen is not in the entity).
Reset(p) ==
  /\ pc[p] = "reset"
  /\ \E u \in Users : Current(p, u) /\ Free(u) /\ WriteNew(p, u)

\* Mutant: the payee of a transfer is debited too.
DeltaBothDebited(c, u) ==
  IF c.op \in {"topUp", "credit"} THEN c.amount ELSE -c.amount

\* The signed amount of the row a call adds to the ledger of wallet u.
Delta(c, u) ==
  IF c.op \in {"topUp", "credit"} \/ (c.op = "transfer" /\ u = c.peer)
  THEN c.amount ELSE -c.amount

\* Mutant: the frozen flag is not checked.
RejectedFrozenIgnored(p) ==
  LET c == call[p] IN /\ c.op \in {"deduct", "withdraw", "transfer"}
                      /\ mem[p][c.user].balance < c.amount

\* Mutant: withdraw() does not check the balance.
RejectedOverdraft(p) ==
  LET c == call[p] IN
  \/ c.op # "credit" /\ \E u \in Wallets(c) : mem[p][u].frozen
  \/ /\ c.op \in {"deduct", "transfer"}
     /\ mem[p][c.user].balance < c.amount

\* The exceptions thrown once the wallets are fetched; credit() has none.
Rejected(p) ==
  LET c == call[p] IN
  \/ c.op # "credit" /\ \E u \in Wallets(c) : mem[p][u].frozen
  \/ /\ c.op \in {"deduct", "withdraw", "transfer"}
     /\ mem[p][c.user].balance < c.amount

Reject(p) == pc[p] = "check" /\ Rejected(p) /\ Fail(p)

\* The new balances, computed on the entities and saved.
Save(p) ==
  LET c == call[p] IN
  /\ pc[p] = "check"
  /\ ~Rejected(p)
  /\ mem' = [mem EXCEPT ![p] = [u \in Users |->
               IF u \notin Wallets(c) THEN mem[p][u] ELSE
               [mem[p][u] EXCEPT !.balance = @ + Delta(c, u),
                                 !.pending = IF c.op = "withdraw"
                                             THEN @ + c.amount ELSE @]]]
  /\ Goto(p, "saved")
  /\ UNCHANGED <<row, ledger, owner, call, todo>>

EntryTypes == {"TOP_UP", "PAYMENT", "CREDIT", "WITHDRAW", "TRANSFER_OUT", "TRANSFER_IN"}

EntryType(c, u) ==
  CASE c.op = "topUp"    -> "TOP_UP"
    [] c.op = "deduct"   -> "PAYMENT"
    [] c.op = "credit"   -> "CREDIT"
    [] c.op = "withdraw" -> "WITHDRAW"
    [] OTHER -> IF u = c.user THEN "TRANSFER_OUT" ELSE "TRANSFER_IN"

Entry(p, u) ==
  [type |-> EntryType(call[p], u), amount |-> Delta(call[p], u),
   balanceAfter |-> mem[p][u].balance]

\* The row of u once p has committed.  No statement of these transactions
\* writes frozen, so the flag of the row stays.
Written(p, u) == [mem[p][u] EXCEPT !.frozen = row[u].frozen]

\* The ledger rows are inserted and the transaction commits.
Commit(p) ==
  LET c == call[p] IN
  /\ pc[p] = "saved"
  /\ row' = [u \in Users |-> IF u \in Wallets(c) THEN Written(p, u) ELSE row[u]]
  /\ ledger' = [u \in Users |-> IF u \in Wallets(c)
                  THEN Append(ledger[u], Entry(p, u)) ELSE ledger[u]]
  /\ owner' = Released(p)
  /\ Goto(p, "done")
  /\ UNCHANGED <<call, todo, mem>>

\* A statement fails or the connection is lost: the exception reaches
\* dataSource.transaction(), which rolls back.
Abort(p) == pc[p] \notin {"done", "failed"} /\ Fail(p)

Step(p) ==
  \/ SetFlag(p) \/ Read(p) \/ LockRow(p) \/ FindNone(p) \/ Probe(p)
  \/ Insert(p) \/ Reset(p) \/ Reject(p) \/ Save(p) \/ Commit(p)

AllAnswered == \A p \in Requests : pc[p] \in {"done", "failed"}

Finished == AllAnswered /\ UNCHANGED vars

Next == (\E p \in Requests : Step(p) \/ Abort(p)) \/ Finished

Spec == Init /\ [][Next]_vars

\* Node runs every request whose statement has been answered and the
\* database grants a lock whose holder has ended; nothing forces an Abort.
FairSpec == Spec /\ \A p \in Requests : WF_vars(Step(p))
-----------------------------------------------------------------------------
WalletRow == [exists : BOOLEAN, balance : Int, pending : Int, frozen : BOOLEAN]
LedgerRow == [type : EntryTypes, amount : Int, balanceAfter : Int]
Labels == {"flag", "read", "find", "probe", "insert", "reset", "check",
           "saved", "done", "failed"}

\* Every variable keeps its type.
TypeOK ==
  /\ row \in [Users -> WalletRow]
  /\ ledger \in [Users -> Seq(LedgerRow)]
  /\ owner \in [Users -> Requests \cup {NoOne}]
  /\ call \in [Requests -> Calls]
  /\ pc \in [Requests -> Labels]
  /\ todo \in [Requests -> SUBSET Users]
  /\ mem \in [Requests -> [Users -> WalletRow]]

\* A request that computes or writes new balances holds the row of every
\* wallet it changes: getOrCreateForUpdate() never returns an unlocked one.
LocksHeld ==
  \A p \in Requests : pc[p] \in {"check", "saved"} =>
    \A u \in Wallets(call[p]) : owner[u] = p

\* "lock wallets in deterministic order (smaller userId first)": whoever
\* still waits for a wallet only holds smaller ones, so no cycle of
\* transfers, in whatever directions, can wait for itself.
LocksInOrder ==
  \A p \in Requests : \A u \in todo[p], v \in Users : owner[v] = p => v < u

\* No balance and no pending amount is ever negative, whatever runs together.
NoOverdraft == \A u \in Users : row[u].balance >= 0 /\ row[u].pending >= 0

OpeningOf(u) == IF u \in Existing THEN Opening ELSE 0

\* The balance before the i-th ledger row of u.
Before(u, i) == IF i = 1 THEN OpeningOf(u) ELSE ledger[u][i - 1].balanceAfter

\* The ledger of u reads as an account: each row continues from the
\* balanceAfter of the one before it, and the wallet's balance is where the
\* last one left it.  A lost update breaks it.
AccountBalanced(u) ==
  /\ \A i \in 1..Len(ledger[u]) :
       ledger[u][i].balanceAfter = Before(u, i) + ledger[u][i].amount
  /\ row[u].balance = Before(u, Len(ledger[u]) + 1)

\* No update of a wallet that exists is ever lost, in whatever way its
\* requests interleave, fail, or create other wallets.
LedgerMatchesBalance == \A u \in Existing : AccountBalanced(u)

\* The amounts of ledger rows that stand for money coming from, or going to,
\* the outside.
External(e) == IF e.type \in {"TOP_UP", "CREDIT", "PAYMENT"} THEN e.amount ELSE 0

Brought(entries) ==
  Sum([i \in DOMAIN entries |-> External(entries[i])], DOMAIN entries)

\* "total must be unchanged": transfers move money and withdrawals set it
\* aside, so all balances and pending amounts together are the opening ones
\* plus what topUp, credit and deduct brought in or took out.
TotalConserved ==
  Sum([u \in Users |-> row[u].balance + row[u].pending], Users)
    = Sum([u \in Users |-> OpeningOf(u) + Brought(ledger[u])], Users)

\* While a wallet that exists is frozen, credit() is the only method whose
\* commit changes its balance: the check of the flag, made on an entity read
\* statements earlier, is still right when the money moves.
FrozenOnlyCredited ==
  [][\A u \in Existing :
       row[u].frozen /\ row'[u].balance # row[u].balance =>
         \E p \in Requests : /\ call[p].op = "credit" /\ call[p].user = u
                             /\ pc[p] = "saved" /\ pc'[p] = "done"]_vars

\* Every request is answered: nobody waits for a lock for ever.
EveryRequestAnswered == <>AllAnswered

\* Each call takes effect at its COMMIT, in one step of Bank.
Abstract == INSTANCE Bank WITH
  Amounts <- {c.amount : c \in Calls},
  Opening <- [u \in Users |-> OpeningOf(u)],
  balance <- [u \in Users |-> row[u].balance],
  pending <- [u \in Users |-> row[u].pending],
  frozen  <- [u \in Users |-> row[u].frozen]

ImplementsBank == Abstract!Spec
=============================================================================
