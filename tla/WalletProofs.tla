---------------------------- MODULE WalletProofs ----------------------------
(***************************************************************************)
(* Theorems of Wallet, for every set of users, requests and calls.         *)
(***************************************************************************)
EXTENDS Wallet, SumTheorems, TLAPS

\* A call's wallets are users, and its amount a natural number.
LEMMA CallFacts ==
  ASSUME NEW c \in Calls
  PROVE  /\ c \in CallType
         /\ Wallets(c) \subseteq Users
         /\ c.user \in Users /\ c.peer \in Users /\ c.amount \in Nat
         /\ c.op \in Ops
         /\ c.op # "transfer" => c.peer = c.user
  BY WalletAssumption DEF Wallets, CallType

\* The rows the code writes are rows.
LEMMA RowFacts ==
  /\ Absent \in WalletRow /\ Fresh \in WalletRow
  /\ \A r \in WalletRow, b \in Int : [r EXCEPT !.balance = b] \in WalletRow
  /\ \A r \in WalletRow, b, d \in Int :
       [r EXCEPT !.balance = b, !.pending = d] \in WalletRow
  /\ \A r \in WalletRow, b \in BOOLEAN : [r EXCEPT !.frozen = b] \in WalletRow
  /\ \A r \in WalletRow : r.frozen \in BOOLEAN /\ r.balance \in Int /\ r.pending \in Int
  <1>1. Absent \in WalletRow /\ Fresh \in WalletRow
    <2>1. 0 \in Int
      OBVIOUS
    <2> QED
      BY <2>1, Zenon DEF Absent, Fresh, WalletRow
  <1>2. \A r \in WalletRow, b \in Int : [r EXCEPT !.balance = b] \in WalletRow
    BY Zenon DEF WalletRow
  <1>3. \A r \in WalletRow, b, d \in Int :
          [r EXCEPT !.balance = b, !.pending = d] \in WalletRow
    BY Zenon DEF WalletRow
  <1>4. \A r \in WalletRow, b \in BOOLEAN : [r EXCEPT !.frozen = b] \in WalletRow
    BY Zenon DEF WalletRow
  <1>5. \A r \in WalletRow : r.frozen \in BOOLEAN /\ r.balance \in Int /\ r.pending \in Int
    BY Zenon DEF WalletRow
  <1> QED
    BY <1>1, <1>2, <1>3, <1>4, <1>5

\* The first state is typed.
LEMMA InitType == Init => TypeOK
  <1> SUFFICES ASSUME Init PROVE TypeOK
    OBVIOUS
  <1>1. row \in [Users -> WalletRow]
    <2>1. Opening \in Int
      BY WalletAssumption
    <2>2. [Fresh EXCEPT !.balance = Opening] \in WalletRow
      BY <2>1, RowFacts
    <2> QED
      BY <2>2, RowFacts DEF Init
  <1>2. ledger \in [Users -> Seq(LedgerRow)] /\ owner \in [Users -> Requests \cup {NoOne}]
    BY DEF Init
  <1>3. call \in [Requests -> Calls]
    BY DEF Init
  <1>4. pc \in [Requests -> Labels]
    BY <1>3 DEF Init, EntryPoint, Labels
  <1>5. todo \in [Requests -> SUBSET Users]
    BY <1>3, CallFacts DEF Init
  <1>6. mem \in [Requests -> [Users -> WalletRow]]
    BY RowFacts DEF Init
  <1> QED
    BY <1>1, <1>2, <1>3, <1>4, <1>5, <1>6 DEF TypeOK

\* Rolling back, and fetching a wallet, keep the types.
LEMMA FailType ==
  ASSUME TypeOK, NEW p \in Requests, Fail(p)
  PROVE  TypeOK'
  BY DEF TypeOK, Fail, Goto, Released, Labels

\* Fetching a row, found or just inserted, keeps the types.
LEMMA FetchedType ==
  ASSUME TypeOK, NEW p \in Requests, NEW u \in Users, NEW e \in WalletRow,
         Fetched(p, u, e)
  PROVE  TypeOK'
  <1>1. mem' \in [Requests -> [Users -> WalletRow]]
    BY DEF TypeOK, Fetched
  <1>2. owner' \in [Users -> Requests \cup {NoOne}] /\ todo' \in [Requests -> SUBSET Users]
    BY DEF TypeOK, Fetched
  <1>3. pc' \in [Requests -> Labels]
    BY DEF TypeOK, Fetched, Goto, Labels
  <1> QED
    BY <1>1, <1>2, <1>3 DEF TypeOK, Fetched

LEMMA WriteNewType ==
  ASSUME TypeOK, NEW p \in Requests, NEW u \in Users, WriteNew(p, u)
  PROVE  TypeOK'
  <1>1. CASE InTransaction(call[p])
    BY <1>1, FetchedType, RowFacts DEF WriteNew
  <1>2. CASE ~InTransaction(call[p])
    <2>1. row[u].frozen \in BOOLEAN
      BY RowFacts DEF TypeOK
    <2>2. [Fresh EXCEPT !.frozen = row[u].frozen] \in WalletRow
      BY <2>1, RowFacts
    <2>3. row' \in [Users -> WalletRow]
      BY <1>2, <2>2 DEF WriteNew, TypeOK
    <2> QED
      BY <1>2, <2>3 DEF WriteNew, TypeOK, Goto, Labels
  <1> QED
    BY <1>1, <1>2

\* The entities after the body of a method are still rows.
LEMMA SaveType ==
  ASSUME TypeOK, NEW p \in Requests, Save(p)
  PROVE  TypeOK'
  <1> DEFINE c == call[p]
             saved(u) == [mem[p][u] EXCEPT !.balance = @ + Delta(c, u),
                            !.pending = IF c.op = "withdraw" THEN @ + c.amount ELSE @]
  <1>1. c \in Calls
    BY DEF TypeOK
  <1>2. \A u \in Users : saved(u) \in WalletRow
    <2> TAKE u \in Users
    <2> DEFINE b == mem[p][u].balance + Delta(c, u)
               d == IF c.op = "withdraw" THEN mem[p][u].pending + c.amount
                    ELSE mem[p][u].pending
    <2>1. mem[p][u] \in WalletRow
      BY DEF TypeOK
    <2>2. c.amount \in Nat /\ Delta(c, u) \in Int
      BY <1>1, CallFacts DEF Delta
    <2>3. mem[p][u].balance \in Int /\ mem[p][u].pending \in Int
      BY <2>1, RowFacts
    <2>4. b \in Int /\ d \in Int
      BY <2>2, <2>3
    <2>5. saved(u) = [mem[p][u] EXCEPT !.balance = b, !.pending = d]
      OBVIOUS
    <2> HIDE DEF b, d
    <2> QED
      BY <2>1, <2>4, <2>5, RowFacts
  <1>3. mem' = [mem EXCEPT ![p] = [u \in Users |->
                  IF u \notin Wallets(c) THEN mem[p][u] ELSE saved(u)]]
    BY DEF Save
  <1> HIDE DEF saved
  <1>4. mem' \in [Requests -> [Users -> WalletRow]]
    BY <1>2, <1>3 DEF TypeOK
  <1> QED
    BY <1>4 DEF Save, TypeOK, Goto, Labels

\* The ledger rows a commit inserts are ledger rows.
LEMMA CommitType ==
  ASSUME TypeOK, NEW p \in Requests, Commit(p)
  PROVE  TypeOK'
  <1>1. call[p] \in Calls
    BY DEF TypeOK
  <1>2. \A u \in Users : Entry(p, u) \in LedgerRow
    <2> TAKE u \in Users
    <2>1. Delta(call[p], u) \in Int
      BY <1>1, CallFacts DEF Delta
    <2>2. EntryType(call[p], u) \in EntryTypes
      BY DEF EntryType, EntryTypes
    <2>3. mem[p][u].balance \in Int
      BY DEF TypeOK, WalletRow
    <2> QED
      BY <2>1, <2>2, <2>3 DEF Entry, LedgerRow
  <1>3. ledger' \in [Users -> Seq(LedgerRow)]
    BY <1>2 DEF Commit, TypeOK
  <1>4. \A u \in Users : Written(p, u) \in WalletRow
    <2> TAKE u \in Users
    <2>1. mem[p][u] \in WalletRow /\ row[u] \in WalletRow
      BY DEF TypeOK
    <2>2. row[u].frozen \in BOOLEAN
      BY <2>1, RowFacts
    <2> QED
      BY <2>1, <2>2, RowFacts DEF Written
  <1>5. row' \in [Users -> WalletRow]
    BY <1>4 DEF Commit, TypeOK
  <1> QED
    BY <1>3, <1>5 DEF Commit, TypeOK, Released, Goto, Labels

\* Every step keeps the types.
LEMMA NextType == TypeOK /\ [Next]_vars => TypeOK'
  <1> SUFFICES ASSUME TypeOK, [Next]_vars PROVE TypeOK'
    OBVIOUS
  <1>1. ASSUME NEW p \in Requests, SetFlag(p) PROVE TypeOK'
    <2> DEFINE u == call[p].user
               flag == (call[p].op = "freeze")
    <2>1. u \in Users
      BY CallFacts DEF TypeOK
    <2>2. flag \in BOOLEAN
      OBVIOUS
    <2> DEFINE flagged == [row[u] EXCEPT !.frozen = flag]
    <2>3. flagged \in WalletRow
      BY <2>1, <2>2, RowFacts DEF TypeOK
    <2>4. row' = row \/ row' = [row EXCEPT ![u] = flagged]
      BY <1>1, Zenon DEF SetFlag
    <2> HIDE DEF flagged
    <2>5. row' \in [Users -> WalletRow]
      BY <2>1, <2>3, <2>4 DEF TypeOK
    <2> QED
      BY <1>1, <2>5 DEF SetFlag, TypeOK, Goto, Labels
  <1>2. ASSUME NEW p \in Requests, Read(p) PROVE TypeOK'
    BY <1>2 DEF Read, TypeOK, Goto, Labels
  <1>3. ASSUME NEW p \in Requests, LockRow(p) PROVE TypeOK'
    BY <1>3, FetchedType DEF LockRow, TypeOK
  <1>4. ASSUME NEW p \in Requests, FindNone(p) PROVE TypeOK'
    BY <1>4 DEF FindNone, TypeOK, Goto, Labels
  <1>5. ASSUME NEW p \in Requests, Probe(p) PROVE TypeOK'
    BY <1>5 DEF Probe, TypeOK, Goto, Labels
  <1>6. ASSUME NEW p \in Requests, Insert(p) PROVE TypeOK'
    BY <1>6, FailType, WriteNewType DEF Insert
  <1>7. ASSUME NEW p \in Requests, Reset(p) PROVE TypeOK'
    BY <1>7, WriteNewType DEF Reset
  <1>8. ASSUME NEW p \in Requests, Reject(p) \/ Abort(p) PROVE TypeOK'
    BY <1>8, FailType DEF Reject, Abort
  <1>9. CASE UNCHANGED vars
    BY <1>9 DEF TypeOK, vars
  <1> QED
    BY <1>1, <1>2, <1>3, <1>4, <1>5, <1>6, <1>7, <1>8, <1>9, SaveType, CommitType
       DEF Next, Step, Finished

\* Every variable of the wallet keeps its type in every behaviour.
THEOREM WalletTypeCorrect == Spec => []TypeOK
  BY InitType, NextType, PTL DEF Spec
-----------------------------------------------------------------------------
\* Where a request can be between its first SELECT and its COMMIT or ROLLBACK.
Open == {"find", "probe", "insert", "reset", "check", "saved"}

\* What is true of one request: how far it has come tells exactly which rows
\* it holds, and it fetched them in increasing order.
RequestInv(p) ==
  /\ todo[p] \subseteq Wallets(call[p])
  /\ pc[p] \in {"flag", "read"} => ~InTransaction(call[p])
  /\ pc[p] \in {"find", "check", "saved"} => InTransaction(call[p])
  /\ pc[p] \in {"check", "saved"} => todo[p] = {}
  /\ \A u \in Users : owner[u] = p =>
       /\ pc[p] \in Open /\ InTransaction(call[p])
       /\ u \in Wallets(call[p]) /\ u \notin todo[p]
       /\ \A v \in todo[p] : u < v
  /\ \A u \in Wallets(call[p]) :
       pc[p] \in Open /\ InTransaction(call[p]) /\ u \notin todo[p] => owner[u] = p

LockInv == \A p \in Requests : RequestInv(p)

\* No request has begun, so no row is locked.
LEMMA InitLock == Init => LockInv
  <1> SUFFICES ASSUME Init, NEW p \in Requests PROVE RequestInv(p)
    BY DEF LockInv
  <1>1. pc[p] = EntryPoint(call[p]) /\ todo[p] = Wallets(call[p])
    BY DEF Init
  <1>2. \A u \in Users : owner[u] # p
    BY WalletAssumption DEF Init
  <1>3. pc[p] \notin {"check", "saved"}
    BY <1>1 DEF EntryPoint
  <1>4. pc[p] = "find" => InTransaction(call[p])
    BY <1>1 DEF EntryPoint, InTransaction
  <1>5. pc[p] \in {"flag", "read"} => ~InTransaction(call[p])
    BY <1>1 DEF EntryPoint, InTransaction
  <1> QED
    BY <1>1, <1>2, <1>3, <1>4, <1>5 DEF RequestInv

\* A ROLLBACK releases every row of its request and no other.
LEMMA FailLock ==
  ASSUME TypeOK, LockInv, NEW p \in Requests, Fail(p)
  PROVE  LockInv'
  <1> SUFFICES ASSUME NEW q \in Requests PROVE RequestInv(q)'
    BY DEF LockInv
  <1>1. RequestInv(q)
    BY DEF LockInv
  <1>2. /\ owner' = [u \in Users |-> IF owner[u] = p THEN NoOne ELSE owner[u]]
        /\ pc' = [pc EXCEPT ![p] = "failed"]
        /\ call' = call /\ todo' = todo
    BY DEF Fail, Goto, Released
  <1>3. Wallets(call[q]) \subseteq Users /\ p # NoOne /\ q # NoOne
    BY CallFacts, WalletAssumption DEF TypeOK
  <1>4. CASE q = p
    BY <1>1, <1>2, <1>3, <1>4 DEF RequestInv, TypeOK, Open, Wallets, InTransaction
  <1>5. CASE q # p
    BY <1>1, <1>2, <1>3, <1>5 DEF RequestInv, TypeOK, Wallets, InTransaction
  <1> QED
    BY <1>4, <1>5

\* A locked fetch takes the smallest row left, and takes it only when free.
LEMMA FetchedLock ==
  ASSUME TypeOK, LockInv, NEW p \in Requests, NEW u \in Users, NEW e,
         Current(p, u), Free(u), pc[p] \in Open, InTransaction(call[p]),
         Fetched(p, u, e)
  PROVE  LockInv'
  <1> SUFFICES ASSUME NEW q \in Requests PROVE RequestInv(q)'
    BY DEF LockInv
  <1>1. RequestInv(q) /\ RequestInv(p)
    BY DEF LockInv
  <1>2. /\ owner' = [owner EXCEPT ![u] = p]
        /\ pc' = [pc EXCEPT ![p] = IF todo[p] = {u} THEN "check" ELSE "find"]
        /\ todo' = [todo EXCEPT ![p] = todo[p] \ {u}]
        /\ call' = call
    BY DEF Fetched, Goto
  <1>3. /\ Wallets(call[q]) \subseteq Users
        /\ owner[u] = NoOne /\ p # NoOne /\ q # NoOne
        /\ u \in todo[p] /\ \A v \in todo[p] : u <= v
        /\ todo[p] \subseteq Nat
    BY CallFacts, WalletAssumption DEF TypeOK, Free, Current
  <1>4. CASE q = p
    <2>1. todo'[p] = todo[p] \ {u} /\ call'[p] = call[p] /\ pc'[p] \in Open
      BY <1>2 DEF TypeOK, Open
    <2>2. pc'[p] \in {"check", "saved"} => todo'[p] = {}
      BY <1>2, <2>1 DEF TypeOK
    <2>3. \A w \in Users : owner'[w] = p => w \in Wallets(call[p]) /\ w \notin todo'[p]
      BY <1>1, <1>2, <1>3, <2>1 DEF RequestInv, TypeOK
    <2>4. \A w \in Users : owner'[w] = p => \A v \in todo'[p] : w < v
      <3> SUFFICES ASSUME NEW w \in Users, owner'[w] = p, NEW v \in todo'[p] PROVE w < v
        OBVIOUS
      <3>1. CASE w = u
        BY <3>1, <2>1, <1>3, WalletAssumption
      <3>2. CASE w # u
        BY <3>2, <2>1, <1>1, <1>2 DEF RequestInv, TypeOK
      <3> QED
        BY <3>1, <3>2
    <2>5. \A w \in Wallets(call[p]) : w \notin todo'[p] => owner'[w] = p
      BY <1>1, <1>2, <1>3, <1>4, <2>1 DEF RequestInv, TypeOK
    <2>6. todo'[p] \subseteq Wallets(call[p])
      BY <1>1, <2>1 DEF RequestInv
    <2>7. pc'[p] \notin {"flag", "read"}
      BY <2>1 DEF Open
    <2> QED
      BY <1>4, <2>1, <2>2, <2>3, <2>4, <2>5, <2>6, <2>7 DEF RequestInv, Wallets, InTransaction
  <1>5. CASE q # p
    <2>1. todo'[q] = todo[q] /\ call'[q] = call[q] /\ pc'[q] = pc[q]
      BY <1>2, <1>5 DEF TypeOK
    <2>2. \A w \in Users : owner'[w] = q <=> owner[w] = q
      BY <1>2, <1>3, <1>5 DEF TypeOK
    <2> QED
      BY <1>1, <1>3, <2>1, <2>2 DEF RequestInv, Wallets, InTransaction
  <1> QED
    BY <1>4, <1>5

\* A step that only moves p's program counter within, before or out of its
\* transaction.
LEMMA MoveLock ==
  ASSUME TypeOK, LockInv, NEW p \in Requests, NEW l \in Labels, Goto(p, l),
         UNCHANGED <<owner, call, todo>>,
         l \in {"find", "check", "saved"} => InTransaction(call[p]),
         l \in {"flag", "read"} => ~InTransaction(call[p]),
         l \in {"check", "saved"} => todo[p] = {},
         pc[p] \in Open /\ InTransaction(call[p]) <=> l \in Open /\ InTransaction(call[p])
  PROVE  LockInv'
  <1> SUFFICES ASSUME NEW q \in Requests PROVE RequestInv(q)'
    BY DEF LockInv
  <1>1. RequestInv(q)
    BY DEF LockInv
  <1>2. /\ owner' = owner /\ call' = call /\ todo' = todo
        /\ pc' = [pc EXCEPT ![p] = l]
    BY DEF Goto
  <1>3. CASE q = p
    BY <1>1, <1>2, <1>3 DEF RequestInv, TypeOK, Wallets, InTransaction
  <1>4. CASE q # p
    BY <1>1, <1>2, <1>4 DEF RequestInv, TypeOK, Wallets, InTransaction
  <1> QED
    BY <1>3, <1>4
\* getOrCreateWallet() locks the row it inserts like one it found.
LEMMA WriteNewLock ==
  ASSUME TypeOK, LockInv, NEW p \in Requests, NEW u \in Users,
         Current(p, u), Free(u), pc[p] \in {"insert", "reset"}, WriteNew(p, u)
  PROVE  LockInv'
  <1>1. CASE InTransaction(call[p])
    <2>1. Fetched(p, u, Fresh) /\ pc[p] \in Open
      BY <1>1 DEF WriteNew, Open
    <2> QED
      BY <1>1, <2>1, FetchedLock
  <1>2. CASE ~InTransaction(call[p])
    <2>1. Goto(p, "done") /\ UNCHANGED <<owner, call, todo>> /\ "done" \in Labels
      BY <1>2 DEF WriteNew, Labels
    <2> QED
      BY <1>2, <2>1, MoveLock
  <1> QED
    BY <1>1, <1>2

\* A COMMIT releases every row of its request and no other.
LEMMA CommitLock ==
  ASSUME TypeOK, LockInv, NEW p \in Requests, Commit(p)
  PROVE  LockInv'
  <1> SUFFICES ASSUME NEW q \in Requests PROVE RequestInv(q)'
    BY DEF LockInv
  <1>1. RequestInv(q)
    BY DEF LockInv
  <1>2. /\ owner' = [u \in Users |-> IF owner[u] = p THEN NoOne ELSE owner[u]]
        /\ pc' = [pc EXCEPT ![p] = "done"]
        /\ call' = call /\ todo' = todo
    BY DEF Commit, Goto, Released
  <1>3. Wallets(call[q]) \subseteq Users /\ p # NoOne /\ q # NoOne
    BY CallFacts, WalletAssumption DEF TypeOK
  <1>4. CASE q = p
    BY <1>1, <1>2, <1>3, <1>4 DEF RequestInv, TypeOK, Open, Wallets, InTransaction
  <1>5. CASE q # p
    BY <1>1, <1>2, <1>3, <1>5 DEF RequestInv, TypeOK, Wallets, InTransaction
  <1> QED
    BY <1>4, <1>5

\* Every step keeps the discipline of the locks.
LEMMA NextLock == TypeOK /\ LockInv /\ [Next]_vars => LockInv'
  <1> SUFFICES ASSUME TypeOK, LockInv, [Next]_vars PROVE LockInv'
    OBVIOUS
  <1>1. ASSUME NEW p \in Requests, SetFlag(p) \/ Read(p) PROVE LockInv'
    <2>1. ~InTransaction(call[p]) /\ UNCHANGED <<owner, call, todo>>
      BY <1>1 DEF LockInv, RequestInv, SetFlag, Read
    <2>2. Goto(p, "read") \/ Goto(p, "done") \/ Goto(p, "probe")
      BY <1>1 DEF SetFlag, Read
    <2> QED
      BY <2>1, <2>2, MoveLock DEF Labels
  <1>2. ASSUME NEW p \in Requests, LockRow(p) PROVE LockInv'
    <2>1. pc[p] = "find" /\ pc[p] \in Open /\ InTransaction(call[p])
      BY <1>2 DEF LockRow, LockInv, RequestInv, Open
    <2> QED
      BY <1>2, <2>1, FetchedLock DEF LockRow
  <1>3. ASSUME NEW p \in Requests, FindNone(p) PROVE LockInv'
    <2>1. pc[p] \in Open /\ "probe" \in Open /\ "probe" \in Labels
      BY <1>3 DEF FindNone, Open, Labels
    <2> QED
      BY <1>3, <2>1, MoveLock DEF FindNone
  <1>4. ASSUME NEW p \in Requests, Probe(p) PROVE LockInv'
    <2>1. pc[p] \in Open /\ {"insert", "reset"} \subseteq Open \cap Labels
      BY <1>4 DEF Probe, Open, Labels
    <2>2. Goto(p, "insert") \/ Goto(p, "reset")
      BY <1>4 DEF Probe
    <2> QED
      BY <1>4, <2>1, <2>2, MoveLock DEF Probe
  <1>5. ASSUME NEW p \in Requests, Insert(p) PROVE LockInv'
    BY <1>5, FailLock, WriteNewLock DEF Insert
  <1>6. ASSUME NEW p \in Requests, Reset(p) PROVE LockInv'
    BY <1>6, WriteNewLock DEF Reset
  <1>7. ASSUME NEW p \in Requests, Reject(p) \/ Abort(p) PROVE LockInv'
    BY <1>7, FailLock DEF Reject, Abort
  <1>8. ASSUME NEW p \in Requests, Save(p) PROVE LockInv'
    <2>1. /\ pc[p] = "check" /\ InTransaction(call[p]) /\ todo[p] = {}
          /\ Goto(p, "saved") /\ UNCHANGED <<owner, call, todo>>
      BY <1>8 DEF Save, LockInv, RequestInv
    <2>2. {"check", "saved"} \subseteq Open /\ "saved" \in Labels
      BY DEF Open, Labels
    <2> QED
      BY <2>1, <2>2, MoveLock
  <1>9. CASE UNCHANGED vars
    BY <1>9 DEF LockInv, RequestInv, vars, Wallets, InTransaction
  <1> QED
    BY <1>1, <1>2, <1>3, <1>4, <1>5, <1>6, <1>7, <1>8, <1>9, CommitLock
       DEF Next, Step, Finished

\* So the types and the lock discipline hold of every behaviour.
LEMMA LockInvariant == Spec => [](TypeOK /\ LockInv)
  <1>1. Init => TypeOK /\ LockInv
    BY InitType, InitLock
  <1>2. TypeOK /\ LockInv /\ [Next]_vars => (TypeOK /\ LockInv)'
    BY NextType, NextLock
  <1> QED
    BY <1>1, <1>2, PTL DEF Spec

\* A request that computes or writes balances holds every wallet it changes.
THEOREM WalletLocksHeld == Spec => []LocksHeld
  <1>1. TypeOK /\ LockInv => LocksHeld
    BY DEF LockInv, RequestInv, LocksHeld, Open
  <1> QED
    BY <1>1, LockInvariant, PTL

\* A request only waits for wallets larger than all those it holds: the
\* order of the locks excludes a deadlock, for any users and requests.
THEOREM WalletLocksInOrder == Spec => []LocksInOrder
  <1>1. TypeOK /\ LockInv => LocksInOrder
    BY DEF LockInv, RequestInv, LocksInOrder
  <1> QED
    BY <1>1, LockInvariant, PTL
-----------------------------------------------------------------------------
\* What a request knows of a wallet u that existed from the start: while it
\* holds the row, its entity is the committed row, and after the body it is
\* that row moved by the amount; a new entity is never written over u.
EntityOf(p, u) ==
  /\ owner[u] = p /\ pc[p] # "saved" => mem[p][u] = row[u]
  /\ owner[u] = p /\ pc[p] = "saved" =>
       /\ mem[p][u].exists
       /\ mem[p][u].balance = row[u].balance + Delta(call[p], u)
       /\ call[p].op # "credit" => ~row[u].frozen
  /\ pc[p] \in {"probe", "insert", "reset"} => ~Current(p, u)

EntityInv ==
  \A u \in Existing : row[u].exists /\ \A p \in Requests : EntityOf(p, u)

\* At the start every entity of an existing wallet is still to be fetched.
LEMMA InitEntity == Init => EntityInv
  <1> SUFFICES ASSUME Init, NEW u \in Existing
               PROVE row[u].exists /\ \A p \in Requests : EntityOf(p, u)
    BY DEF EntityInv
  <1>1. row[u] = [Fresh EXCEPT !.balance = Opening] /\ owner[u] = NoOne
    BY WalletAssumption DEF Init
  <1>2. row[u].exists
    BY <1>1 DEF Fresh
  <1>3. ASSUME NEW p \in Requests PROVE EntityOf(p, u)
    <2>1. pc[p] \notin {"probe", "insert", "reset"}
      BY DEF Init, EntryPoint
    <2> QED
      BY <1>1, <2>1, WalletAssumption DEF EntityOf
  <1> QED
    BY <1>2, <1>3

\* A step of p that leaves every row somebody holds as it is, and does not
\* take p into "saved".
LEMMA QuietEntity ==
  ASSUME TypeOK, EntityInv, NEW p \in Requests, NEW l \in Labels, Goto(p, l),
         UNCHANGED <<call, todo, mem>>,
         owner' = owner \/ owner' = Released(p),
         \A u \in Existing : owner'[u] = p => pc[p] # "saved",
         l # "saved",
         \A u \in Existing : row'[u].exists /\ (owner[u] # NoOne => row'[u] = row[u]),
         l \in {"probe", "insert", "reset"} => \A u \in Existing : ~Current(p, u)
  PROVE  EntityInv'
  <1> SUFFICES ASSUME NEW u \in Existing, NEW q \in Requests
               PROVE row'[u].exists /\ EntityOf(q, u)'
    BY DEF EntityInv
  <1>1. u \in Users /\ p # NoOne /\ q # NoOne
    BY WalletAssumption
  <1>2. EntityOf(q, u)
    BY DEF EntityInv
  <1>3. pc' = [pc EXCEPT ![p] = l] /\ call' = call /\ mem' = mem /\ todo' = todo
    BY DEF Goto
  <1>4. owner'[u] = q => owner[u] = q /\ row'[u] = row[u]
    BY <1>1 DEF Released
  <1>5. CASE q = p
    <2>1. pc'[q] = l
      BY <1>3, <1>5 DEF TypeOK
    <2>2. owner'[u] = q => mem'[q][u] = row'[u]
      BY <1>2, <1>3, <1>4, <1>5 DEF EntityOf
    <2>3. l \in {"probe", "insert", "reset"} => ~Current(q, u)'
      BY <1>3, <1>5 DEF Current
    <2> QED
      BY <2>1, <2>2, <2>3 DEF EntityOf
  <1>6. CASE q # p
    <2>1. pc'[q] = pc[q]
      BY <1>3, <1>6 DEF TypeOK
    <2>2. Current(q, u)' <=> Current(q, u)
      BY <1>3 DEF Current
    <2>3. owner'[u] = q /\ pc'[q] # "saved" => mem'[q][u] = row'[u]
      BY <1>2, <1>3, <1>4, <2>1 DEF EntityOf
    <2>4. owner'[u] = q /\ pc'[q] = "saved" =>
            /\ mem'[q][u].exists
            /\ mem'[q][u].balance = row'[u].balance + Delta(call'[q], u)
            /\ call'[q].op # "credit" => ~row'[u].frozen
      BY <1>2, <1>3, <1>4, <2>1, Zenon DEF EntityOf
    <2> QED
      BY <1>2, <2>1, <2>2, <2>3, <2>4 DEF EntityOf, Delta
  <1> QED
    BY <1>5, <1>6

\* Fetching a wallet that existed gives the committed row.
LEMMA FetchedEntity ==
  ASSUME TypeOK, LockInv, EntityInv, NEW p \in Requests, NEW u \in Users, NEW e,
         Current(p, u), Free(u), Fetched(p, u, e), pc[p] # "saved",
         u \in Existing => e = row[u]
  PROVE  EntityInv'
  <1> SUFFICES ASSUME NEW w \in Existing, NEW q \in Requests
               PROVE row'[w].exists /\ EntityOf(q, w)'
    BY DEF EntityInv
  <1>1. w \in Users /\ p # NoOne /\ q # NoOne
    BY WalletAssumption
  <1>2. EntityOf(q, w) /\ row[w].exists
    BY DEF EntityInv
  <1>3. /\ owner' = [owner EXCEPT ![u] = p] /\ mem' = [mem EXCEPT ![p][u] = e]
        /\ todo' = [todo EXCEPT ![p] = todo[p] \ {u}]
        /\ pc' = [pc EXCEPT ![p] = IF todo[p] = {u} THEN "check" ELSE "find"]
        /\ row' = row /\ call' = call
    BY DEF Fetched, Goto
  <1>4. CASE q = p
    <2>1. pc'[q] \in {"check", "find"}
      BY <1>3, <1>4 DEF TypeOK
    <2>2. owner'[w] = q => mem'[q][w] = row'[w]
      BY <1>1, <1>2, <1>3, <1>4 DEF EntityOf, TypeOK
    <2> QED
      BY <1>2, <1>3, <2>1, <2>2 DEF EntityOf
  <1>5. CASE q # p
    <2>1. pc'[q] = pc[q] /\ mem'[q] = mem[q] /\ todo'[q] = todo[q]
      BY <1>3, <1>5 DEF TypeOK
    <2>2. owner'[w] = q => owner[w] = q
      BY <1>1, <1>3, <1>5 DEF TypeOK
    <2>3. Current(q, w)' <=> Current(q, w)
      BY <2>1 DEF Current
    <2>4. owner'[w] = q /\ pc'[q] = "saved" =>
            /\ mem'[q][w].exists
            /\ mem'[q][w].balance = row'[w].balance + Delta(call'[q], w)
            /\ call'[q].op # "credit" => ~row'[w].frozen
      BY <1>2, <1>3, <2>1, <2>2, Zenon DEF EntityOf
    <2> QED
      BY <1>2, <1>3, <2>1, <2>2, <2>3, <2>4 DEF EntityOf, Delta
  <1> QED
    BY <1>4, <1>5

\* Only a wallet that did not exist at the start is ever inserted.
LEMMA WriteNewEntity ==
  ASSUME TypeOK, LockInv, EntityInv, NEW p \in Requests, NEW u \in Users,
         Current(p, u), Free(u), pc[p] \in {"insert", "reset"}, WriteNew(p, u)
  PROVE  EntityInv'
  <1>1. u \notin Existing
    BY DEF EntityInv, EntityOf
  <1>2. CASE InTransaction(call[p])
    BY <1>1, <1>2, FetchedEntity DEF WriteNew
  <1>3. CASE ~InTransaction(call[p])
    <2>1. /\ row' = [row EXCEPT ![u] = [Fresh EXCEPT !.frozen = row[u].frozen]]
          /\ Goto(p, "done") /\ UNCHANGED <<owner, call, todo, mem>>
      BY <1>3 DEF WriteNew
    <2>2. \A w \in Existing : row'[w] = row[w] /\ row[w].exists
      BY <1>1, <2>1, WalletAssumption DEF TypeOK, EntityInv
    <2> QED
      BY <2>1, <2>2, QuietEntity DEF Labels
  <1> QED
    BY <1>2, <1>3

\* The body of a method moves its entities by the amount, once none of the
\* wallets it takes money from, or tops up, is frozen.
LEMMA SaveEntity ==
  ASSUME TypeOK, LockInv, EntityInv, NEW p \in Requests, Save(p)
  PROVE  EntityInv'
  <1> SUFFICES ASSUME NEW u \in Existing, NEW q \in Requests
               PROVE row'[u].exists /\ EntityOf(q, u)'
    BY DEF EntityInv
  <1>1. u \in Users
    BY WalletAssumption
  <1>2. EntityOf(q, u) /\ row[u].exists
    BY DEF EntityInv
  <1>3. /\ row' = row /\ owner' = owner /\ call' = call /\ todo' = todo
        /\ pc' = [pc EXCEPT ![p] = "saved"] /\ pc[p] = "check"
    BY DEF Save, Goto
  <1>4. CASE q = p /\ owner[u] = p
    <2>1. u \in Wallets(call[p])
      BY <1>1, <1>4 DEF LockInv, RequestInv
    <2>2. mem[p][u] = row[u]
      BY <1>2, <1>3, <1>4 DEF EntityOf
    <2>3. mem'[p][u] = [row[u] EXCEPT !.balance = @ + Delta(call[p], u),
                          !.pending = IF call[p].op = "withdraw"
                                      THEN @ + call[p].amount ELSE @]
      BY <1>1, <2>1, <2>2 DEF Save, TypeOK
    <2>4. row[u] \in WalletRow
      BY <1>1 DEF TypeOK
    <2>5. mem'[p][u].exists
      BY <1>2, <2>3, <2>4, Zenon DEF WalletRow
    <2>6. mem'[p][u].balance = row[u].balance + Delta(call[p], u)
      BY <2>3, <2>4, Zenon DEF WalletRow
    <2>7. call[p].op # "credit" => ~row[u].frozen
      BY <2>1, <2>2 DEF Save, Rejected
    <2>8. pc'[p] = "saved"
      BY <1>3 DEF TypeOK
    <2> QED
      BY <1>2, <1>3, <1>4, <2>5, <2>6, <2>7, <2>8 DEF EntityOf, Delta
  <1>5. CASE q = p /\ owner[u] # p
    <2>1. pc'[p] = "saved"
      BY <1>3 DEF TypeOK
    <2> QED
      BY <1>2, <1>3, <1>5, <2>1 DEF EntityOf
  <1>6. CASE q # p
    <2>1. pc'[q] = pc[q]
      BY <1>3, <1>6 DEF TypeOK
    <2>2. mem'[q] = mem[q]
      BY <1>6 DEF Save, TypeOK
    <2> QED
      BY <1>2, <1>3, <2>1, <2>2, Zenon DEF EntityOf, Current, Delta
  <1> QED
    BY <1>4, <1>5, <1>6

\* A commit writes the rows it holds, and nobody else's.
LEMMA CommitRow ==
  ASSUME TypeOK, LockInv, EntityInv, NEW p \in Requests, Commit(p), NEW u \in Existing
  PROVE  IF u \in Wallets(call[p])
         THEN /\ owner[u] = p
              /\ row'[u].exists
              /\ row'[u].balance = row[u].balance + Delta(call[p], u)
              /\ mem[p][u].balance = row'[u].balance
              /\ call[p].op # "credit" => ~row[u].frozen
         ELSE row'[u] = row[u]
  <1>0. u \in Users
    BY WalletAssumption
  <1>1. u \in Users /\ mem[p][u] \in WalletRow
    BY <1>0 DEF TypeOK
  <1>2. CASE u \in Wallets(call[p])
    <2>1. owner[u] = p /\ pc[p] = "saved"
      BY <1>2 DEF Commit, LockInv, RequestInv, Open
    <2>2. /\ mem[p][u].exists
          /\ mem[p][u].balance = row[u].balance + Delta(call[p], u)
          /\ call[p].op # "credit" => ~row[u].frozen
      BY <2>1, Zenon DEF EntityInv, EntityOf
    <2>3. row'[u] = [mem[p][u] EXCEPT !.frozen = row[u].frozen]
      BY <1>1, <1>2 DEF Commit, Written
    <2>4. row'[u].exists
      BY <1>1, <2>2, <2>3, Zenon DEF WalletRow
    <2>5. row'[u].balance = mem[p][u].balance
      BY <1>1, <2>3, Zenon DEF WalletRow
    <2> QED
      BY <1>2, <2>1, <2>2, <2>4, <2>5
  <1>3. CASE u \notin Wallets(call[p])
    BY <1>1, <1>3 DEF Commit
  <1> QED
    BY <1>2, <1>3

\* A COMMIT writes rows that no other request holds.
LEMMA CommitEntity ==
  ASSUME TypeOK, LockInv, EntityInv, NEW p \in Requests, Commit(p)
  PROVE  EntityInv'
  <1> SUFFICES ASSUME NEW u \in Existing, NEW q \in Requests
               PROVE row'[u].exists /\ EntityOf(q, u)'
    BY DEF EntityInv
  <1>1. u \in Users /\ p # NoOne /\ q # NoOne
    BY WalletAssumption
  <1>2. EntityOf(q, u) /\ row[u].exists
    BY DEF EntityInv
  <1>3. /\ owner' = Released(p) /\ call' = call /\ todo' = todo /\ mem' = mem
        /\ pc' = [pc EXCEPT ![p] = "done"]
    BY DEF Commit, Goto
  <1>4. row'[u].exists
    BY <1>2, CommitRow, Zenon
  <1>5. CASE q = p
    <2>1. pc'[q] = "done" /\ owner'[u] # q
      BY <1>1, <1>3, <1>5 DEF TypeOK, Released
    <2> QED
      BY <1>4, <2>1 DEF EntityOf
  <1>6. CASE q # p
    <2>1. pc'[q] = pc[q]
      BY <1>3, <1>6 DEF TypeOK
    <2>2. owner'[u] = q => owner[u] = q /\ row'[u] = row[u]
      BY <1>1, <1>3, <1>6, CommitRow DEF Released
    <2>3. owner'[u] = q /\ pc'[q] = "saved" =>
            /\ mem'[q][u].exists
            /\ mem'[q][u].balance = row'[u].balance + Delta(call'[q], u)
            /\ call'[q].op # "credit" => ~row'[u].frozen
      BY <1>2, <1>3, <2>1, <2>2, Zenon DEF EntityOf
    <2> QED
      BY <1>2, <1>3, <1>4, <2>1, <2>2, <2>3 DEF EntityOf, Current, Delta
  <1> QED
    BY <1>5, <1>6
\* Every step keeps what requests know of the wallets that existed.
LEMMA NextEntity == TypeOK /\ LockInv /\ EntityInv /\ [Next]_vars => EntityInv'
  <1> SUFFICES ASSUME TypeOK, LockInv, EntityInv, [Next]_vars PROVE EntityInv'
    OBVIOUS
  <1> USE DEF Labels
  <1>1. ASSUME NEW p \in Requests, SetFlag(p) PROVE EntityInv'
    <2> DEFINE v == call[p].user
               flagged == [row[v] EXCEPT !.frozen = (call[p].op = "freeze")]
    <2>1. row' = row \/ (row' = [row EXCEPT ![v] = flagged] /\ (row[v].exists => Free(v)))
      BY <1>1, Zenon DEF SetFlag
    <2>2. v \in Users
      BY CallFacts DEF TypeOK
    <2>3. row[v].exists => flagged.exists
      <3>1. row[v] \in WalletRow
        BY <2>2 DEF TypeOK
      <3> QED
        BY <3>1, Zenon DEF WalletRow
    <2> HIDE DEF flagged, v
    <2>4. \A u \in Existing : row'[u].exists /\ (owner[u] # NoOne => row'[u] = row[u])
      <3> SUFFICES ASSUME NEW u \in Existing
                   PROVE row'[u].exists /\ (owner[u] # NoOne => row'[u] = row[u])
        OBVIOUS
      <3>1. u \in Users /\ row[u].exists
        BY WalletAssumption DEF EntityInv
      <3>2. CASE row' = row
        BY <3>1, <3>2
      <3>3. CASE row' = [row EXCEPT ![v] = flagged] /\ u # v
        BY <3>1, <3>3 DEF TypeOK
      <3>4. CASE row' = [row EXCEPT ![v] = flagged] /\ (row[v].exists => Free(v)) /\ u = v
        <4>1. row'[u] = flagged
          BY <3>1, <3>4 DEF TypeOK
        <4> QED
          BY <3>1, <3>4, <4>1, <2>3, Zenon DEF Free
      <3> QED
        BY <2>1, <3>2, <3>3, <3>4
    <2>5. Goto(p, "read") /\ UNCHANGED <<owner, call, todo, mem>> /\ pc[p] # "saved"
      BY <1>1 DEF SetFlag
    <2> QED
      BY <2>4, <2>5, QuietEntity
  <1>2. ASSUME NEW p \in Requests, Read(p) PROVE EntityInv'
    <2>1. ~row[call[p].user].exists => \A u \in Existing : ~Current(p, u)
      <3>1. ~InTransaction(call[p]) /\ todo[p] \subseteq Wallets(call[p])
        BY <1>2 DEF Read, LockInv, RequestInv
      <3>2. call[p].peer = call[p].user
        BY <3>1, CallFacts DEF TypeOK, InTransaction
      <3> QED
        BY <3>1, <3>2 DEF Current, Wallets, EntityInv
    <2> QED
      BY <1>2, <2>1, QuietEntity DEF Read, EntityInv
  <1>3. ASSUME NEW p \in Requests, LockRow(p) PROVE EntityInv'
    BY <1>3, FetchedEntity DEF LockRow
  <1>4. ASSUME NEW p \in Requests, FindNone(p) PROVE EntityInv'
    <2>1. PICK v \in Users : Current(p, v) /\ ~row[v].exists
      BY <1>4 DEF FindNone
    <2>2. \A u \in Existing : ~Current(p, u)
      <3> SUFFICES ASSUME NEW u \in Existing, Current(p, u) PROVE FALSE
        OBVIOUS
      <3>1. u = v
        BY <2>1, WalletAssumption DEF Current
      <3> QED
        BY <2>1, <3>1 DEF EntityInv
    <2> QED
      BY <1>4, <2>2, QuietEntity DEF FindNone, EntityInv
  <1>5. ASSUME NEW p \in Requests, Probe(p) PROVE EntityInv'
    <2>1. \A u \in Existing : ~Current(p, u)
      BY <1>5 DEF Probe, EntityInv, EntityOf
    <2>2. (Goto(p, "insert") \/ Goto(p, "reset")) /\ pc[p] # "saved"
      BY <1>5 DEF Probe
    <2> QED
      BY <1>5, <2>1, <2>2, QuietEntity DEF Probe, EntityInv
  <1>6. ASSUME NEW p \in Requests, Fail(p) PROVE EntityInv'
    <2>1. \A u \in Existing : owner'[u] # p
      BY <1>6, WalletAssumption DEF Fail, Released
    <2>2. Goto(p, "failed") /\ owner' = Released(p) /\ UNCHANGED <<row, call, todo, mem>>
      BY <1>6 DEF Fail
    <2> QED
      BY <2>1, <2>2, QuietEntity DEF EntityInv
  <1>7. ASSUME NEW p \in Requests, Insert(p) PROVE EntityInv'
    BY <1>6, <1>7, WriteNewEntity DEF Insert
  <1>8. ASSUME NEW p \in Requests, Reset(p) PROVE EntityInv'
    BY <1>8, WriteNewEntity DEF Reset
  <1>9. CASE UNCHANGED vars
    <2>1. row' = row /\ owner' = owner /\ call' = call /\ pc' = pc /\ todo' = todo /\ mem' = mem
      BY <1>9 DEF vars
    <2>2. ASSUME NEW u \in Existing PROVE row'[u].exists
      BY <2>1, <2>2 DEF EntityInv
    <2>3. ASSUME NEW u \in Existing, NEW p \in Requests PROVE EntityOf(p, u)'
      <3>1. EntityOf(p, u)
        BY DEF EntityInv
      <3>2. Current(p, u)' <=> Current(p, u)
        BY <2>1 DEF Current
      <3>3. owner'[u] = p /\ pc'[p] = "saved" =>
              /\ mem'[p][u].exists
              /\ mem'[p][u].balance = row'[u].balance + Delta(call'[p], u)
              /\ call'[p].op # "credit" => ~row'[u].frozen
        BY <2>1, <3>1, Zenon DEF EntityOf
      <3> QED
        BY <2>1, <3>1, <3>2, <3>3 DEF EntityOf, Delta
    <2> QED
      BY <2>2, <2>3 DEF EntityInv
  <1> QED
    BY <1>1, <1>2, <1>3, <1>4, <1>5, <1>6, <1>7, <1>8, <1>9, SaveEntity, CommitEntity
       DEF Next, Step, Finished, Reject, Abort

\* The three invariants together, of every behaviour.
LEMMA WalletInvariant == Spec => [](TypeOK /\ LockInv /\ EntityInv)
  <1>1. Init => EntityInv
    BY InitEntity
  <1>2. TypeOK /\ LockInv /\ EntityInv /\ [Next]_vars => EntityInv'
    BY NextEntity
  <1> QED
    BY <1>1, <1>2, LockInvariant, PTL DEF Spec
-----------------------------------------------------------------------------
\* A step that appends nothing and moves no balance keeps an account balanced.
LEMMA SameAccount ==
  ASSUME NEW u, AccountBalanced(u), ledger'[u] = ledger[u],
         row'[u].balance = row[u].balance
  PROVE  AccountBalanced(u)'
  BY DEF AccountBalanced, Before

\* A commit appends a row that continues the account, and leaves the balance
\* where that row says.
LEMMA CommitAccount ==
  ASSUME TypeOK, LockInv, EntityInv, NEW p \in Requests, Commit(p),
         NEW u \in Existing, AccountBalanced(u)
  PROVE  AccountBalanced(u)'
  <1>1. u \in Users /\ ledger[u] \in Seq(LedgerRow)
    <2>1. u \in Users
      BY WalletAssumption
    <2> QED
      BY <2>1 DEF TypeOK
  <1>2. CASE u \notin Wallets(call[p])
    <2>1. ledger'[u] = ledger[u] /\ row'[u] = row[u]
      BY <1>1, <1>2, CommitRow DEF Commit
    <2> QED
      BY <2>1, SameAccount
  <1>3. CASE u \in Wallets(call[p])
    <2> PICK n \in Nat : n = Len(ledger[u])
      BY <1>1
    <2>1. /\ mem[p][u].balance = row[u].balance + Delta(call[p], u)
          /\ row'[u].balance = mem[p][u].balance
      BY <1>3, CommitRow
    <2>2. ledger'[u] = Append(ledger[u], Entry(p, u))
      BY <1>1, <1>3 DEF Commit
    <2>3. /\ n \in Nat /\ Len(ledger'[u]) = n + 1
          /\ ledger'[u][n + 1] = Entry(p, u)
          /\ \A i \in 1..n : ledger'[u][i] = ledger[u][i]
      BY <1>1, <2>2
    <2>4. \A i \in 1..(n + 1) : Before(u, i)' = Before(u, i)
      BY <2>3 DEF Before, OpeningOf
    <2>5. row[u].balance = Before(u, n + 1)
      BY DEF AccountBalanced
    <2>6. /\ ledger'[u][n + 1].balanceAfter = mem[p][u].balance
          /\ ledger'[u][n + 1].amount = Delta(call[p], u)
      BY <2>3 DEF Entry
    <2>7. \A i \in 1..(n + 1) :
            ledger'[u][i].balanceAfter = Before(u, i)' + ledger'[u][i].amount
      <3> TAKE i \in 1..(n + 1)
      <3>1. CASE i = n + 1
        BY <2>1, <2>4, <2>5, <2>6, <3>1
      <3>2. CASE i \in 1..n
        BY <2>3, <2>4, <3>2 DEF AccountBalanced
      <3> QED
        BY <2>3, <3>1, <3>2
    <2>8. n + 2 # 1 /\ (n + 2) - 1 = n + 1 /\ (n + 1) + 1 = n + 2
      BY <2>3
    <2>9. Before(u, n + 2)' = mem[p][u].balance
      BY <2>6, <2>8 DEF Before
    <2>10. row'[u].balance = Before(u, Len(ledger[u]) + 1)'
      BY <2>1, <2>3, <2>8, <2>9
    <2> QED
      BY <2>3, <2>7, <2>10 DEF AccountBalanced
  <1> QED
    BY <1>2, <1>3

\* A step that is no commit leaves the ledger and the balances of the
\* wallets that existed from the start.
LEMMA OtherSteps ==
  ASSUME TypeOK, LockInv, EntityInv, NEW u \in Existing,
         NEW p \in Requests, Step(p) \/ Abort(p), ~Commit(p)
  PROVE  ledger'[u] = ledger[u] /\ row'[u].balance = row[u].balance
  <1>1. u \in Users
    BY WalletAssumption
  <1>2. CASE SetFlag(p)
    <2> DEFINE v == call[p].user
               flagged == [row[v] EXCEPT !.frozen = (call[p].op = "freeze")]
    <2>1. row' = row \/ row' = [row EXCEPT ![v] = flagged]
      BY <1>2, Zenon DEF SetFlag
    <2>2. v \in Users /\ row[v] \in WalletRow
      BY CallFacts DEF TypeOK
    <2>3. flagged.balance = row[v].balance
      BY <2>2, Zenon DEF WalletRow
    <2> HIDE DEF flagged, v
    <2> QED
      BY <1>1, <1>2, <2>1, <2>3 DEF SetFlag, TypeOK
  <1>3. ASSUME NEW v \in Users, WriteNew(p, v), Current(p, v), pc[p] \in {"insert", "reset"}
        PROVE  ledger'[u] = ledger[u] /\ row'[u].balance = row[u].balance
    <2>1. u # v
      BY <1>3 DEF EntityInv, EntityOf
    <2> QED
      BY <1>1, <1>3, <2>1 DEF WriteNew, Fetched, TypeOK
  <1>4. CASE Read(p) \/ FindNone(p) \/ Probe(p) \/ Save(p) \/ Fail(p)
    BY <1>4 DEF Read, FindNone, Probe, Save, Fail
  <1>5. CASE LockRow(p)
    BY <1>5 DEF LockRow, Fetched
  <1> QED
    BY <1>2, <1>3, <1>4, <1>5 DEF Step, Abort, Reject, Insert, Reset

\* No interleaving, failure or creation of wallets loses an update of a
\* wallet that exists: its ledger stays an account that ends in its balance.
THEOREM WalletLedgerMatchesBalance == Spec => []LedgerMatchesBalance
  <1>1. Init => LedgerMatchesBalance
    <2> SUFFICES ASSUME Init, NEW u \in Existing PROVE AccountBalanced(u)
      BY DEF LedgerMatchesBalance
    <2>1. u \in Users
      BY WalletAssumption
    <2>2. ledger[u] = <<>> /\ row[u] = [Fresh EXCEPT !.balance = Opening]
      BY <2>1 DEF Init
    <2>3. row[u].balance = Opening
      BY <2>2 DEF Fresh
    <2> QED
      BY <2>2, <2>3 DEF AccountBalanced, Before, OpeningOf
  <1>2. TypeOK /\ LockInv /\ EntityInv /\ LedgerMatchesBalance /\ [Next]_vars
          => LedgerMatchesBalance'
    <2> SUFFICES ASSUME TypeOK, LockInv, EntityInv, [Next]_vars,
                        NEW u \in Existing, AccountBalanced(u)
                 PROVE  AccountBalanced(u)'
      BY DEF LedgerMatchesBalance
    <2>1. ASSUME NEW p \in Requests, Commit(p) PROVE AccountBalanced(u)'
      BY <2>1, CommitAccount
    <2>2. ASSUME NEW p \in Requests, Step(p) \/ Abort(p), ~Commit(p)
          PROVE  AccountBalanced(u)'
      BY <2>2, OtherSteps, SameAccount
    <2>3. CASE UNCHANGED vars
      BY <2>3, SameAccount DEF vars
    <2> QED
      BY <2>1, <2>2, <2>3 DEF Next, Finished
  <1> QED
    BY <1>1, <1>2, WalletInvariant, PTL DEF Spec

\* A frozen wallet that exists is only ever credited.
THEOREM WalletFrozenOnlyCredited == Spec => FrozenOnlyCredited
  <1> DEFINE OnlyCredited ==
               \A u \in Existing :
                 row[u].frozen /\ row'[u].balance # row[u].balance =>
                   \E p \in Requests : /\ call[p].op = "credit" /\ call[p].user = u
                                       /\ pc[p] = "saved" /\ pc'[p] = "done"
  <1>1. TypeOK /\ LockInv /\ EntityInv /\ [Next]_vars => [OnlyCredited]_vars
    <2> SUFFICES ASSUME TypeOK, LockInv, EntityInv, Next,
                        NEW u \in Existing, row[u].frozen, row'[u].balance # row[u].balance
                 PROVE  \E p \in Requests : /\ call[p].op = "credit" /\ call[p].user = u
                                            /\ pc[p] = "saved" /\ pc'[p] = "done"
      OBVIOUS
    <2>1. ~UNCHANGED vars
      BY DEF vars
    <2>2. PICK p \in Requests : Commit(p)
      BY <2>1, OtherSteps DEF Next, Finished
    <2>3. u \in Wallets(call[p]) /\ call[p].op = "credit"
      BY <2>2, CommitRow
    <2>4. call[p].user = u
      BY <2>3, CallFacts DEF Wallets, TypeOK
    <2>5. pc[p] = "saved" /\ pc'[p] = "done"
      BY <2>2 DEF Commit, Goto, TypeOK
    <2> QED
      BY <2>3, <2>4, <2>5
  <1>2. TypeOK /\ LockInv /\ EntityInv /\ [Next]_vars => [OnlyCredited]_vars
    BY <1>1
  <1> QED
    BY <1>2, WalletInvariant, PTL DEF Spec, FrozenOnlyCredited
-----------------------------------------------------------------------------
\* Nothing a request has read or computed is negative, and neither is any
\* committed row.
Solvent ==
  /\ \A u \in Users : row[u].balance >= 0 /\ row[u].pending >= 0
  /\ \A p \in Requests, u \in Users : mem[p][u].balance >= 0 /\ mem[p][u].pending >= 0

\* No step makes a balance, committed or in memory, negative.
LEMMA NextSolvent == TypeOK /\ LockInv /\ Solvent /\ [Next]_vars => Solvent'
  <1> SUFFICES ASSUME TypeOK, LockInv, Solvent, [Next]_vars PROVE Solvent'
    OBVIOUS
  <1>1. ASSUME NEW p \in Requests, NEW u \in Users, NEW e \in WalletRow,
               e.balance >= 0, e.pending >= 0, Fetched(p, u, e)
        PROVE  Solvent'
    BY <1>1 DEF Solvent, Fetched, TypeOK
  <1>2. Fresh \in WalletRow /\ Fresh.balance = 0 /\ Fresh.pending = 0
    BY RowFacts DEF Fresh
  <1>3. ASSUME NEW p \in Requests, SetFlag(p) PROVE Solvent'
    <2> DEFINE v == call[p].user
               flagged == [row[v] EXCEPT !.frozen = (call[p].op = "freeze")]
    <2>1. row' = row \/ row' = [row EXCEPT ![v] = flagged]
      BY <1>3, Zenon DEF SetFlag
    <2>2. v \in Users /\ row[v] \in WalletRow
      BY CallFacts DEF TypeOK
    <2>3. flagged.balance = row[v].balance /\ flagged.pending = row[v].pending
      BY <2>2, Zenon DEF WalletRow
    <2> HIDE DEF flagged, v
    <2> QED
      BY <1>3, <2>1, <2>2, <2>3 DEF SetFlag, TypeOK, Solvent
  <1>4. ASSUME NEW p \in Requests, NEW u \in Users, WriteNew(p, u) PROVE Solvent'
    <2>1. CASE InTransaction(call[p])
      BY <1>1, <1>2, <1>4, <2>1 DEF WriteNew
    <2>2. CASE ~InTransaction(call[p])
      <3> DEFINE new == [Fresh EXCEPT !.frozen = row[u].frozen]
      <3>1. row' = [row EXCEPT ![u] = new] /\ mem' = mem
        BY <1>4, <2>2 DEF WriteNew
      <3>2. new.balance = 0 /\ new.pending = 0
        BY <1>2 DEF Fresh
      <3> HIDE DEF new
      <3> QED
        BY <3>1, <3>2 DEF Solvent, TypeOK
    <2> QED
      BY <2>1, <2>2
  <1>5. ASSUME NEW p \in Requests, LockRow(p) PROVE Solvent'
    BY <1>1, <1>5 DEF LockRow, TypeOK, Solvent
  <1>6. ASSUME NEW p \in Requests, Save(p) PROVE Solvent'
    <2> DEFINE c == call[p]
               saved(u) == [mem[p][u] EXCEPT !.balance = @ + Delta(c, u),
                              !.pending = IF c.op = "withdraw" THEN @ + c.amount ELSE @]
    <2>1. ASSUME NEW u \in Users, u \in Wallets(c)
          PROVE  saved(u).balance >= 0 /\ saved(u).pending >= 0
      <3>1. c \in Calls /\ mem[p][u] \in WalletRow
        BY DEF TypeOK
      <3>2. c.amount \in Nat /\ c.op \in Ops /\ (c.op # "transfer" => c.peer = c.user)
        BY <3>1, CallFacts
      <3>3. /\ saved(u).balance = mem[p][u].balance + Delta(c, u)
            /\ saved(u).pending = IF c.op = "withdraw" THEN mem[p][u].pending + c.amount
                                  ELSE mem[p][u].pending
        BY <3>1, Zenon DEF WalletRow
      <3>4. /\ mem[p][u].balance \in Int /\ mem[p][u].pending \in Int
            /\ mem[p][u].balance >= 0 /\ mem[p][u].pending >= 0
        BY <3>1, RowFacts DEF Solvent
      <3>5. InTransaction(c)
        BY <1>6 DEF Save, LockInv, RequestInv
      <3>6. Delta(c, u) = c.amount \/ (Delta(c, u) = -c.amount /\ mem[p][u].balance >= c.amount)
        <4>1. SUFFICES ASSUME Delta(c, u) # c.amount
                       PROVE  Delta(c, u) = -c.amount /\ mem[p][u].balance >= c.amount
          OBVIOUS
        <4>2. c.op \notin {"topUp", "credit"} /\ (c.op = "transfer" => u # c.peer)
          BY <4>1 DEF Delta
        <4>3. c.op \in {"deduct", "withdraw", "transfer"} /\ u = c.user
          BY <2>1, <3>2, <3>5, <4>2 DEF Wallets, Ops, InTransaction
        <4>4. ~(mem[p][u].balance < c.amount)
          BY <1>6, <4>3 DEF Save, Rejected
        <4>5. Delta(c, u) = -c.amount
          BY <4>2 DEF Delta
        <4> QED
          BY <3>2, <3>4, <4>4, <4>5
      <3> HIDE DEF saved
      <3> QED
        BY <3>2, <3>3, <3>4, <3>6
    <2>2. /\ row' = row
          /\ mem' = [mem EXCEPT ![p] = [u \in Users |->
                       IF u \notin Wallets(c) THEN mem[p][u] ELSE saved(u)]]
      BY <1>6 DEF Save
    <2> HIDE DEF saved, c
    <2> QED
      BY <2>1, <2>2 DEF Solvent, TypeOK
  <1>7. ASSUME NEW p \in Requests, Commit(p) PROVE Solvent'
    <2>1. ASSUME NEW u \in Users PROVE row'[u].balance >= 0 /\ row'[u].pending >= 0
      <3>1. mem[p][u] \in WalletRow
        BY DEF TypeOK
      <3>2. Written(p, u).balance = mem[p][u].balance /\ Written(p, u).pending = mem[p][u].pending
        BY <3>1, Zenon DEF Written, WalletRow
      <3> QED
        BY <1>7, <3>2 DEF Commit, Solvent
    <2> QED
      BY <1>7, <2>1 DEF Commit, Solvent
  <1>8. ASSUME NEW p \in Requests, Read(p) \/ FindNone(p) \/ Probe(p) \/ Fail(p)
        PROVE  Solvent'
    BY <1>8 DEF Read, FindNone, Probe, Fail, Solvent
  <1>9. CASE UNCHANGED vars
    BY <1>9 DEF vars, Solvent
  <1> QED
    BY <1>3, <1>4, <1>5, <1>6, <1>7, <1>8, <1>9
       DEF Next, Step, Abort, Reject, Insert, Reset, Finished

\* No wallet is ever overdrawn, not even one two requests create at once.
THEOREM WalletNoOverdraft == Spec => []NoOverdraft
  <1>1. Init => Solvent
    BY WalletAssumption DEF Init, Solvent, Fresh, Absent
  <1>2. Solvent => NoOverdraft
    BY DEF Solvent, NoOverdraft
  <1> QED
    BY <1>1, <1>2, NextSolvent, LockInvariant, PTL DEF Spec
-----------------------------------------------------------------------------
(* The refinement, for wallets that exist.                                 *)

\* A request about to commit has the pending amount its method makes of the
\* committed row, and the money it takes is there.
SavedOf(p, u) ==
  owner[u] = p /\ pc[p] = "saved" =>
    /\ mem[p][u].pending = row[u].pending + (IF call[p].op = "withdraw"
                                             THEN call[p].amount ELSE 0)
    /\ call[p].op \in {"deduct", "withdraw", "transfer"} /\ u = call[p].user =>
         row[u].balance >= call[p].amount

SavedInv == \A u \in Existing, p \in Requests : SavedOf(p, u)

\* A transfer under way has two wallets.
TwoWallets ==
  \A p \in Requests : call[p].op = "transfer" /\ pc[p] # "failed" => call[p].user # call[p].peer

\* What a request other than one that saves just now is about to commit, and
\* the rows it is computed from, do not change while it holds them.
LEMMA HeldFast ==
  ASSUME TypeOK, LockInv, EntityInv, NEW p \in Requests, Step(p) \/ Abort(p), ~Save(p),
         NEW u \in Existing, NEW q \in Requests, owner'[u] = q, pc'[q] = "saved"
  PROVE  /\ owner[u] = q /\ pc[q] = "saved"
         /\ mem'[q][u] = mem[q][u] /\ row'[u] = row[u] /\ call' = call
  <1>1. u \in Users /\ p # NoOne /\ q # NoOne /\ row[u].exists
    BY WalletAssumption DEF EntityInv
  <1>2. CASE SetFlag(p)
    <2> DEFINE v == call[p].user
               flagged == [row[v] EXCEPT !.frozen = (call[p].op = "freeze")]
    <2>1. row' = row \/ (row' = [row EXCEPT ![v] = flagged] /\ (row[v].exists => Free(v)))
      BY <1>2, Zenon DEF SetFlag
    <2> HIDE DEF flagged, v
    <2>2. owner[u] = q /\ pc[q] = "saved" /\ mem' = mem /\ call' = call
      BY <1>2 DEF SetFlag, Goto, TypeOK
    <2>3. row'[u] = row[u]
      BY <1>1, <2>1, <2>2 DEF Free, TypeOK
    <2> QED
      BY <2>2, <2>3
  <1>3. CASE Read(p) \/ FindNone(p) \/ Probe(p)
    BY <1>1, <1>3 DEF Read, FindNone, Probe, Goto, TypeOK
  <1>4. CASE Fail(p)
    BY <1>1, <1>4 DEF Fail, Goto, Released, TypeOK
  <1>5. ASSUME NEW v \in Users, NEW e, Fetched(p, v, e)
        PROVE  /\ owner[u] = q /\ pc[q] = "saved"
               /\ mem'[q][u] = mem[q][u] /\ row'[u] = row[u] /\ call' = call
    <2>1. q # p
      BY <1>5 DEF Fetched, Goto, TypeOK
    <2> QED
      BY <1>1, <1>5, <2>1 DEF Fetched, Goto, TypeOK
  <1>6. ASSUME NEW v \in Users, Current(p, v), pc[p] \in {"insert", "reset"}, WriteNew(p, v)
        PROVE  /\ owner[u] = q /\ pc[q] = "saved"
               /\ mem'[q][u] = mem[q][u] /\ row'[u] = row[u] /\ call' = call
    <2>1. v # u
      BY <1>6 DEF EntityInv, EntityOf
    <2> QED
      BY <1>1, <1>5, <1>6, <2>1 DEF WriteNew, Goto, TypeOK
  <1>7. CASE LockRow(p)
    BY <1>5, <1>7 DEF LockRow
  <1>8. CASE Commit(p)
    <2>1. pc'[p] = "done"
      BY <1>8 DEF Commit, Goto, TypeOK
    <2>2. q # p /\ owner[u] = q /\ pc[q] = "saved" /\ mem' = mem /\ call' = call
      BY <1>1, <1>8, <2>1 DEF Commit, Goto, Released, TypeOK
    <2>3. row'[u] = row[u]
      BY <1>8, <2>2, CommitRow
    <2> QED
      BY <2>2, <2>3
  <1> QED
    BY <1>2, <1>3, <1>4, <1>6, <1>7, <1>8 DEF Step, Abort, Reject, Insert, Reset

\* What the body of a method computes, it computes from the committed row.
LEMMA SaveSaved ==
  ASSUME TypeOK, LockInv, EntityInv, NEW p \in Requests, Save(p), NEW u \in Existing,
         owner[u] = p
  PROVE  SavedOf(p, u)'
  <1>1. u \in Users /\ call[p] \in Calls
    BY WalletAssumption DEF TypeOK
  <1>2. row' = row /\ call' = call /\ pc[p] = "check"
    BY DEF Save
  <1>3. u \in Wallets(call[p]) /\ mem[p][u] = row[u]
    BY <1>1, <1>2 DEF LockInv, RequestInv, EntityInv, EntityOf
  <1>4. mem'[p][u] = [row[u] EXCEPT !.balance = @ + Delta(call[p], u),
                        !.pending = IF call[p].op = "withdraw"
                                    THEN @ + call[p].amount ELSE @]
    BY <1>1, <1>3 DEF Save, TypeOK
  <1>5. row[u] \in WalletRow /\ row[u].pending \in Int /\ row[u].balance \in Int
    <2>1. row[u] \in WalletRow
      BY <1>1 DEF TypeOK
    <2> QED
      BY <2>1, RowFacts
  <1>6. call[p].amount \in Nat
    BY <1>1, CallFacts
  <1>7. mem'[p][u].pending = IF call[p].op = "withdraw" THEN row[u].pending + call[p].amount
                             ELSE row[u].pending
    BY <1>4, <1>5, Zenon DEF WalletRow
  <1>8. call[p].op \in {"deduct", "withdraw", "transfer"} /\ u = call[p].user =>
          row[u].balance >= call[p].amount
    <2>1. ~Rejected(p)
      BY DEF Save
    <2> QED
      BY <1>3, <1>5, <1>6, <2>1 DEF Rejected
  <1> QED
    BY <1>2, <1>5, <1>7, <1>8 DEF SavedOf

\* Every step keeps what is about to be committed right.
LEMMA NextSaved == TypeOK /\ LockInv /\ EntityInv /\ SavedInv /\ [Next]_vars => SavedInv'
  <1> SUFFICES ASSUME TypeOK, LockInv, EntityInv, SavedInv, [Next]_vars,
                      NEW u \in Existing, NEW q \in Requests
               PROVE  SavedOf(q, u)'
    BY DEF SavedInv
  <1>1. SavedOf(q, u)
    BY DEF SavedInv
  <1>2. ASSUME /\ owner'[u] = q /\ pc'[q] = "saved" =>
                    /\ owner[u] = q /\ pc[q] = "saved"
                    /\ mem'[q][u] = mem[q][u] /\ row'[u] = row[u] /\ call' = call
        PROVE  SavedOf(q, u)'
    BY <1>1, <1>2, Zenon DEF SavedOf
  <1>3. ASSUME NEW p \in Requests, Step(p) \/ Abort(p), ~Save(p) PROVE SavedOf(q, u)'
    BY <1>2, <1>3, HeldFast
  <1>4. ASSUME NEW p \in Requests, Save(p) PROVE SavedOf(q, u)'
    <2>1. owner' = owner /\ row' = row /\ call' = call
      BY <1>4 DEF Save
    <2>2. CASE q = p /\ owner[u] = q
      BY <1>4, <2>2, SaveSaved
    <2>3. CASE owner[u] # q
      BY <2>1, <2>3 DEF SavedOf
    <2>4. CASE q # p
      <3>1. pc'[q] = pc[q] /\ mem'[q] = mem[q]
        BY <1>4, <2>4 DEF Save, Goto, TypeOK
      <3> QED
        BY <1>2, <2>1, <3>1
    <2> QED
      BY <2>2, <2>3, <2>4
  <1>5. CASE UNCHANGED vars
    BY <1>2, <1>5 DEF vars
  <1> QED
    BY <1>3, <1>4, <1>5 DEF Next, Finished

\* transfer() refuses two equal wallets before its transaction begins.
LEMMA NextTwoWallets == TypeOK /\ TwoWallets /\ [Next]_vars => TwoWallets'
  <1> SUFFICES ASSUME TypeOK, TwoWallets, [Next]_vars, NEW q \in Requests,
                      call'[q].op = "transfer", pc'[q] # "failed"
               PROVE  call'[q].user # call'[q].peer
    BY DEF TwoWallets
  <1>1. ASSUME call' = call, pc[q] # "failed" PROVE call'[q].user # call'[q].peer
    BY <1>1 DEF TwoWallets
  <1>2. ASSUME NEW p \in Requests, Step(p) \/ Abort(p) PROVE call' = call /\ pc[q] # "failed"
    <2>1. call' = call /\ \E l : pc' = [pc EXCEPT ![p] = l]
      BY <1>2 DEF Step, Abort, SetFlag, Read, LockRow, FindNone, Probe, Insert, Reset,
                  Reject, Save, Commit, Fetched, WriteNew, Fail, Goto
    <2>2. pc[p] # "failed"
      BY <1>2 DEF Step, Abort, SetFlag, Read, LockRow, FindNone, Probe, Insert, Reset,
                  Reject, Save, Commit
    <2> QED
      BY <2>1, <2>2 DEF TypeOK
  <1> QED
    BY <1>1, <1>2 DEF Next, Finished, vars

\* All of it together, of every behaviour.
LEMMA CommitInvariant == Spec => [](TypeOK /\ LockInv /\ EntityInv /\ SavedInv /\ TwoWallets)
  <1>1. Init => SavedInv
    <2> SUFFICES ASSUME Init, NEW u \in Existing, NEW p \in Requests PROVE SavedOf(p, u)
      BY DEF SavedInv
    <2>1. owner[u] # p
      BY WalletAssumption DEF Init
    <2> QED
      BY <2>1 DEF SavedOf
  <1>2. Init => TwoWallets
    BY DEF Init, TwoWallets, EntryPoint
  <1> QED
    BY <1>1, <1>2, NextSaved, NextTwoWallets, WalletInvariant, PTL DEF Spec

\* The columns of the accounts, as Bank sees them.
Balances == [u \in Users |-> row[u].balance]
Pendings == [u \in Users |-> row[u].pending]
Flags == [u \in Users |-> row[u].frozen]

\* What a COMMIT does to each account.
LEMMA CommitAccounts ==
  ASSUME Existing = Users, TypeOK, LockInv, EntityInv, SavedInv,
         NEW p \in Requests, Commit(p), NEW u \in Users
  PROVE  /\ row'[u].frozen = row[u].frozen
         /\ row'[u].balance = IF u \in Wallets(call[p])
                              THEN row[u].balance + Delta(call[p], u) ELSE row[u].balance
         /\ row'[u].pending = IF u \in Wallets(call[p]) /\ call[p].op = "withdraw"
                              THEN row[u].pending + call[p].amount ELSE row[u].pending
  <1>1. CASE u \notin Wallets(call[p])
    BY <1>1, CommitRow
  <1>2. CASE u \in Wallets(call[p])
    <2>1. owner[u] = p /\ pc[p] = "saved" /\ row'[u].balance = row[u].balance + Delta(call[p], u)
      BY <1>2, CommitRow DEF Commit
    <2>2. mem[p][u] \in WalletRow /\ row[u] \in WalletRow
      BY DEF TypeOK
    <2>3. row'[u] = [mem[p][u] EXCEPT !.frozen = row[u].frozen]
      BY <1>2 DEF Commit, Written
    <2>4. row'[u].frozen = row[u].frozen /\ row'[u].pending = mem[p][u].pending
      BY <2>2, <2>3, Zenon DEF WalletRow
    <2>5. mem[p][u].pending = row[u].pending + (IF call[p].op = "withdraw"
                                                THEN call[p].amount ELSE 0)
      BY <2>1, Zenon DEF SavedInv, SavedOf
    <2>6. row[u].pending \in Int
      BY <2>2, RowFacts
    <2> QED
      BY <1>2, <2>1, <2>4, <2>5, <2>6
  <1> QED
    BY <1>1, <1>2

\* A COMMIT is the call's step of Bank.
LEMMA CommitImplements ==
  ASSUME Existing = Users, TypeOK, LockInv, EntityInv, SavedInv, TwoWallets,
         NEW p \in Requests, Commit(p)
  PROVE  Abstract!Next
  <1> DEFINE c == call[p]
  <1>0. PICK u, v, a : u = c.user /\ v = c.peer /\ a = c.amount
    OBVIOUS
  <1>1. /\ c \in Calls /\ u \in Users /\ v \in Users /\ a \in Nat /\ c.op \in Ops
        /\ c.op # "transfer" => v = u
    BY <1>0, CallFacts DEF TypeOK
  <1>2. a \in {d.amount : d \in Calls}
    BY <1>0, <1>1
  <1>3. pc[p] = "saved" /\ InTransaction(c)
    BY DEF Commit, LockInv, RequestInv
  <1>4. c.op \in {"topUp", "deduct", "credit", "transfer", "withdraw"}
    BY <1>1, <1>3 DEF Ops, InTransaction
  <1>5. Wallets(c) = {u, v}
    BY <1>0 DEF Wallets
  <1>6. \A w \in {u, v} : owner[w] = p /\ (c.op # "credit" => ~row[w].frozen)
    BY <1>1, <1>5, CommitRow
  <1>7. c.op \in {"deduct", "withdraw", "transfer"} => row[u].balance >= a
    BY <1>0, <1>1, <1>3, <1>6 DEF SavedInv, SavedOf
  <1>8. c.op = "transfer" => u # v
    BY <1>0, <1>3 DEF TwoWallets
  <1>9. \A w \in Users : row[w].balance \in Int /\ row[w].pending \in Int
    BY RowFacts DEF TypeOK
  <1>10. Flags' = Flags
    BY CommitAccounts DEF Flags
  <1>11. c.op # "withdraw" => Pendings' = Pendings
    BY CommitAccounts DEF Pendings
  <1>12. \A w \in Users :
           row'[w].balance = IF w \in {u, v} THEN row[w].balance + Delta(c, w) ELSE row[w].balance
    BY <1>5, CommitAccounts
  <1> HIDE DEF c
  <1>13. CASE c.op = "topUp"
    <2>1. Balances' = [Balances EXCEPT ![u] = @ + a]
      BY <1>0, <1>1, <1>12, <1>13 DEF Balances, Delta
    <2>2. Abstract!TopUp(u, a)
      BY <1>1, <1>6, <1>10, <1>11, <1>13, <2>1
         DEF Abstract!TopUp, Balances, Pendings, Flags
    <2> QED
      BY <1>1, <1>2, <2>2 DEF Abstract!Next
  <1>14. CASE c.op = "credit"
    <2>1. Balances' = [Balances EXCEPT ![u] = @ + a]
      BY <1>0, <1>1, <1>12, <1>14 DEF Balances, Delta
    <2>2. Abstract!Credit(u, a)
      BY <1>10, <1>11, <1>14, <2>1 DEF Abstract!Credit, Balances, Pendings, Flags
    <2> QED
      BY <1>1, <1>2, <2>2 DEF Abstract!Next
  <1>15. CASE c.op = "deduct"
    <2>1. Balances' = [Balances EXCEPT ![u] = @ - a]
      BY <1>0, <1>1, <1>9, <1>12, <1>15 DEF Balances, Delta
    <2>2. Abstract!Deduct(u, a)
      BY <1>1, <1>6, <1>7, <1>10, <1>11, <1>15, <2>1
         DEF Abstract!Deduct, Balances, Pendings, Flags
    <2> QED
      BY <1>1, <1>2, <2>2 DEF Abstract!Next
  <1>16. CASE c.op = "withdraw"
    <2>1. Balances' = [Balances EXCEPT ![u] = @ - a]
      BY <1>0, <1>1, <1>9, <1>12, <1>16 DEF Balances, Delta
    <2>2. Pendings' = [Pendings EXCEPT ![u] = @ + a]
      BY <1>0, <1>1, <1>5, <1>16, CommitAccounts DEF Pendings, c
    <2>3. Abstract!Withdraw(u, a)
      BY <1>1, <1>6, <1>7, <1>10, <1>16, <2>1, <2>2
         DEF Abstract!Withdraw, Balances, Pendings, Flags
    <2> QED
      BY <1>1, <1>2, <2>3 DEF Abstract!Next
  <1>17. CASE c.op = "transfer"
    <2>1. Balances' = [Balances EXCEPT ![u] = @ - a, ![v] = @ + a]
      BY <1>0, <1>1, <1>8, <1>9, <1>12, <1>17 DEF Balances, Delta
    <2>2. Abstract!Transfer(u, v, a)
      BY <1>1, <1>6, <1>7, <1>8, <1>10, <1>11, <1>17, <2>1
         DEF Abstract!Transfer, Balances, Pendings, Flags
    <2> QED
      BY <1>1, <1>2, <2>2 DEF Abstract!Next
  <1> QED
    BY <1>4, <1>13, <1>14, <1>15, <1>16, <1>17

\* freeze() and unfreeze() take effect in their one statement.
LEMMA SetFlagImplements ==
  ASSUME Existing = Users, TypeOK, EntityInv, NEW p \in Requests, SetFlag(p)
  PROVE  Abstract!Next
  <1>0. PICK u, flag : u = call[p].user /\ flag = (call[p].op = "freeze")
    OBVIOUS
  <1> DEFINE flagged == [row[u] EXCEPT !.frozen = flag]
  <1>1. u \in Users /\ row[u].exists /\ row[u] \in WalletRow
    BY <1>0, CallFacts DEF TypeOK, EntityInv
  <1>2. row' = [row EXCEPT ![u] = flagged]
    BY <1>0, <1>1, Zenon DEF SetFlag
  <1>3. flagged.balance = row[u].balance /\ flagged.pending = row[u].pending /\ flagged.frozen = flag
    BY <1>1, Zenon DEF WalletRow
  <1>4. flag \in BOOLEAN
    BY <1>0
  <1> HIDE DEF flagged
  <1>5. Balances' = Balances /\ Pendings' = Pendings
    BY <1>1, <1>2, <1>3 DEF Balances, Pendings, TypeOK
  <1>6. Flags' = [Flags EXCEPT ![u] = flag]
    BY <1>1, <1>2, <1>3, Zenon DEF Flags, TypeOK
  <1>7. Abstract!SetFrozen(u, flag)
    BY <1>5, <1>6 DEF Abstract!SetFrozen, Balances, Pendings, Flags
  <1> QED
    BY <1>1, <1>4, <1>7 DEF Abstract!Next

\* No other step writes a wallet: none is created where all of them exist.
LEMMA QuietSteps ==
  ASSUME Existing = Users, TypeOK, EntityInv, NEW p \in Requests, Step(p) \/ Abort(p),
         ~Commit(p), ~SetFlag(p)
  PROVE  row' = row
  <1>1. ~Insert(p) /\ ~Reset(p)
    BY DEF Insert, Reset, EntityInv, EntityOf
  <1> QED
    BY <1>1 DEF Step, Abort, Read, LockRow, FindNone, Probe, Reject, Save, Fetched, Fail

\* Where every user has a wallet, the methods of WalletService take effect in
\* one indivisible step each, on the balances of that moment, or not at all.
THEOREM WalletImplementsBank == Existing = Users => (Spec => ImplementsBank)
  <1> SUFFICES ASSUME Existing = Users PROVE Spec => ImplementsBank
    OBVIOUS
  <1>1. Init => Abstract!Init
    BY DEF Init, Abstract!Init, OpeningOf, Fresh
  <1>2. TypeOK /\ LockInv /\ EntityInv /\ SavedInv /\ TwoWallets /\ [Next]_vars
          => [Abstract!Next]_(Abstract!bank)
    <2> SUFFICES ASSUME TypeOK, LockInv, EntityInv, SavedInv, TwoWallets, [Next]_vars
                 PROVE  Abstract!Next \/ UNCHANGED Abstract!bank
      OBVIOUS
    <2>1. ASSUME row' = row PROVE UNCHANGED Abstract!bank
      BY <2>1 DEF Abstract!bank
    <2>2. ASSUME NEW p \in Requests, Step(p) \/ Abort(p)
          PROVE  Abstract!Next \/ row' = row
      BY <2>2, CommitImplements, SetFlagImplements, QuietSteps
    <2> QED
      BY <2>1, <2>2 DEF Next, Finished, vars
  <1> QED
    BY <1>1, <1>2, CommitInvariant, PTL DEF Spec, ImplementsBank, Abstract!Spec
-----------------------------------------------------------------------------
(* The balance sheet of all wallets that exist.                            *)

\* What a ledger brings in is a number, and a new row adds its own part.
LEMMA BroughtFacts ==
  ASSUME NEW entries \in Seq(LedgerRow)
  PROVE  /\ Brought(entries) \in Int
         /\ \A e \in LedgerRow : Brought(Append(entries, e)) = Brought(entries) + External(e)
<1> DEFINE D == DOMAIN entries
           f == [i \in D |-> External(entries[i])]
<1>1. \A e \in LedgerRow : External(e) \in Int
  BY DEF External, LedgerRow
<1>2. D = 1..Len(entries) /\ Len(entries) \in Nat /\ \A i \in D : entries[i] \in LedgerRow
  OBVIOUS
<1>3. IsFiniteSet(D)
  BY <1>2, FS_Interval
<1>4. \A i \in D : f[i] \in Int
  BY <1>1, <1>2
<1>5. Brought(entries) = Sum(f, D) /\ Sum(f, D) \in Int
  BY <1>3, <1>4, SumType DEF Brought
<1>6. ASSUME NEW e \in LedgerRow
      PROVE  Brought(Append(entries, e)) = Brought(entries) + External(e)
  <2> DEFINE longer == Append(entries, e)
             n == Len(entries) + 1
             g == [i \in DOMAIN longer |-> External(longer[i])]
  <2>1. DOMAIN longer = D \cup {n} /\ n \notin D
    BY <1>2
  <2>2. longer[n] = e /\ \A i \in D : longer[i] = entries[i]
    BY <1>2
  <2>3. g[n] = External(e) /\ \A i \in D : g[i] = f[i]
    BY <2>1, <2>2
  <2>4. Brought(longer) = Sum(g, DOMAIN longer)
    BY DEF Brought
  <2> HIDE DEF longer, n, f, g, D
  <2>5. Sum(g, D \cup {n}) = Sum(g, D) + g[n]
    BY <1>1, <1>3, <1>4, <2>1, <2>3, SumAdd
  <2>6. Sum(g, D) = Sum(f, D)
    BY <1>3, <1>4, <2>3, SumSame
  <2>7. Brought(longer) = Sum(f, D) + External(e)
    BY <2>1, <2>3, <2>4, <2>5, <2>6
  <2> QED
    BY <1>5, <2>7 DEF longer
<1> QED
  BY <1>5, <1>6

\* What the wallets hold, and what they should.
Kept == [u \in Users |-> row[u].balance + row[u].pending]
Owed == [u \in Users |-> OpeningOf(u) + Brought(ledger[u])]

\* Both are numbers, in this state and the next.
LEMMA SheetTypes ==
  ASSUME NEW r \in [Users -> WalletRow], NEW l \in [Users -> Seq(LedgerRow)], NEW u \in Users
  PROVE  r[u].balance + r[u].pending \in Int /\ OpeningOf(u) + Brought(l[u]) \in Int
<1>1. r[u] \in WalletRow /\ l[u] \in Seq(LedgerRow)
  OBVIOUS
<1>2. r[u].balance \in Int /\ r[u].pending \in Int /\ Brought(l[u]) \in Int
  BY <1>1, RowFacts, BroughtFacts
<1>3. OpeningOf(u) \in Int
  BY WalletAssumption DEF OpeningOf
<1> QED
  BY <1>2, <1>3

\* The same of the two sheets and of the sums over them.
LEMMA SheetFacts ==
  ASSUME TypeOK, TypeOK'
  PROVE  /\ \A u \in Users : Kept[u] \in Int /\ Kept'[u] \in Int
         /\ \A u \in Users : Owed[u] \in Int /\ Owed'[u] \in Int
         /\ Sum(Kept, Users) \in Int /\ Sum(Kept', Users) \in Int
         /\ Sum(Owed, Users) \in Int /\ Sum(Owed', Users) \in Int
<1>1. /\ row \in [Users -> WalletRow] /\ ledger \in [Users -> Seq(LedgerRow)]
      /\ row' \in [Users -> WalletRow] /\ ledger' \in [Users -> Seq(LedgerRow)]
  BY DEF TypeOK
<1>2. \A u \in Users : Kept[u] \in Int /\ Owed[u] \in Int
  BY <1>1, SheetTypes DEF Kept, Owed
<1>3. \A u \in Users : Kept'[u] \in Int /\ Owed'[u] \in Int
  <2> TAKE u \in Users
  <2>1. Kept'[u] = row'[u].balance + row'[u].pending /\ Owed'[u] = OpeningOf(u) + Brought(ledger'[u])
    BY DEF Kept, Owed, OpeningOf
  <2> QED
    BY <1>1, <2>1, SheetTypes
<1> QED
  BY <1>2, <1>3, SumType, WalletAssumption

\* A COMMIT changes what its wallets hold and should hold by as much; the two
\* wallets of a transfer together hold what they held.
LEMMA CommitSheet ==
  ASSUME Existing = Users, TypeOK, LockInv, EntityInv, SavedInv, TwoWallets, TypeOK',
         NEW p \in Requests, Commit(p)
  PROVE  Sum(Kept, Users)' - Sum(Kept, Users) = Sum(Owed, Users)' - Sum(Owed, Users)
<1> DEFINE c == call[p]
<1>1. /\ c \in Calls /\ c.user \in Users /\ c.peer \in Users /\ c.amount \in Nat
      /\ c.op # "transfer" => c.peer = c.user
  BY CallFacts DEF TypeOK
<1>2. pc[p] = "saved" /\ InTransaction(c) /\ c.op \in Ops
  BY <1>1, CallFacts DEF Commit, LockInv, RequestInv
<1>3. c.op \in {"topUp", "deduct", "credit", "transfer", "withdraw"}
  BY <1>2 DEF Ops, InTransaction
<1>4. IsFiniteSet(Users)
  BY WalletAssumption
<1>5. ASSUME NEW u \in Users
      PROVE  /\ Kept[u] \in Int /\ Kept'[u] \in Int
             /\ Owed[u] \in Int /\ Owed'[u] \in Int
  BY SheetFacts
<1>6. ASSUME NEW u \in Users, u \notin Wallets(c)
      PROVE  Kept'[u] = Kept[u] /\ Owed'[u] = Owed[u]
  <2>1. row'[u] = row[u] /\ ledger'[u] = ledger[u]
    BY <1>6 DEF Commit
  <2> QED
    BY <2>1 DEF Kept, Owed, OpeningOf
<1>7. ASSUME NEW u \in Users, u \in Wallets(c)
      PROVE  /\ Kept'[u] = Kept[u] + Delta(c, u) + (IF c.op = "withdraw" THEN c.amount ELSE 0)
             /\ Owed'[u] = Owed[u] + (IF c.op \in {"topUp", "credit", "deduct"}
                                      THEN Delta(c, u) ELSE 0)
             /\ Delta(c, u) \in Int
  <2>1. row[u] \in WalletRow /\ ledger[u] \in Seq(LedgerRow)
    BY DEF TypeOK
  <2>2. row[u].balance \in Int /\ row[u].pending \in Int
    BY <2>1, RowFacts
  <2>3. Delta(c, u) \in Int
    BY <1>1 DEF Delta
  <2>4. Kept'[u] = Kept[u] + Delta(c, u) + (IF c.op = "withdraw" THEN c.amount ELSE 0)
    <3>1. /\ row'[u].balance = row[u].balance + Delta(c, u)
          /\ row'[u].pending = IF c.op = "withdraw" THEN row[u].pending + c.amount
                               ELSE row[u].pending
      BY <1>7, CommitAccounts
    <3> HIDE DEF c
    <3> QED
      BY <1>1, <2>2, <2>3, <3>1 DEF Kept
  <2>5. ledger'[u] = Append(ledger[u], Entry(p, u))
    BY <1>7 DEF Commit
  <2>6. Entry(p, u) \in LedgerRow
    <3>1. mem[p][u].balance \in Int
      BY RowFacts DEF TypeOK
    <3>2. EntryType(c, u) \in EntryTypes
      BY DEF EntryType, EntryTypes
    <3> QED
      BY <2>3, <3>1, <3>2 DEF Entry, LedgerRow
  <2>7. External(Entry(p, u)) = IF c.op \in {"topUp", "credit", "deduct"} THEN Delta(c, u) ELSE 0
    BY <1>3 DEF External, Entry, EntryType
  <2>8. Brought(ledger'[u]) = Brought(ledger[u]) + External(Entry(p, u))
    BY <2>1, <2>5, <2>6, BroughtFacts
  <2>9. Brought(ledger[u]) \in Int /\ OpeningOf(u) \in Int
    BY <2>1, BroughtFacts, WalletAssumption DEF OpeningOf
  <2>10. Owed'[u] = OpeningOf(u) + Brought(ledger'[u]) /\ Owed[u] = OpeningOf(u) + Brought(ledger[u])
    BY DEF Owed, OpeningOf
  <2> HIDE DEF c
  <2>11. Owed'[u] = Owed[u] + (IF c.op \in {"topUp", "credit", "deduct"} THEN Delta(c, u) ELSE 0)
    BY <2>3, <2>7, <2>8, <2>9, <2>10
  <2> QED
    BY <2>3, <2>4, <2>11
<1>8. Sum(Kept, Users) \in Int /\ Sum(Owed, Users) \in Int
  BY <1>4, <1>5, SumType
<1>9. Wallets(c) = {c.user, c.peer}
  BY DEF Wallets
<1> HIDE DEF c
<1>10. CASE c.op = "transfer"
  <2>1. c.user # c.peer
    BY <1>2, <1>10 DEF TwoWallets, c
  <2>2. Delta(c, c.user) = -c.amount /\ Delta(c, c.peer) = c.amount
    BY <1>10, <2>1 DEF Delta
  <2>3. \A u \in Users : Owed'[u] = Owed[u]
    BY <1>5, <1>6, <1>7, <1>10
  <2>4. Kept'[c.user] + Kept'[c.peer] = Kept[c.user] + Kept[c.peer]
    <3>1. Kept'[c.user] = Kept[c.user] + (-c.amount) /\ Kept'[c.peer] = Kept[c.peer] + c.amount
      BY <1>1, <1>5, <1>7, <1>9, <1>10, <2>2
    <3>2. Kept[c.user] \in Int /\ Kept[c.peer] \in Int
      BY <1>1, <1>5
    <3> QED
      BY <1>1, <3>1, <3>2
  <2>5. Sum(Kept', Users) = Sum(Kept, Users)
    <3>1. SameBut(Kept, Kept', Users, {c.user, c.peer})
      BY <1>5, <1>6, <1>9 DEF SameBut
    <3> QED
      BY <1>1, <1>4, <2>1, <2>4, <3>1, SumMoved
  <2>6. Sum(Owed', Users) = Sum(Owed, Users)
    BY <1>4, <1>5, <2>3, SumSame
  <2> QED
    BY <1>8, <2>5, <2>6
<1>11. CASE c.op # "transfer"
  <2>1. Wallets(c) = {c.user}
    BY <1>1, <1>9, <1>11
  <2>2. Delta(c, c.user) = IF c.op \in {"topUp", "credit"} THEN c.amount ELSE -c.amount
    BY <1>11 DEF Delta
  <2>3. Kept'[c.user] - Kept[c.user] = Owed'[c.user] - Owed[c.user]
    BY <1>1, <1>3, <1>5, <1>7, <1>11, <2>1, <2>2
  <2>4. SameBut(Kept, Kept', Users, {c.user})
    BY <1>5, <1>6, <2>1 DEF SameBut
  <2>5. SameBut(Owed, Owed', Users, {c.user})
    BY <1>5, <1>6, <2>1 DEF SameBut
  <2> QED
    BY <1>1, <1>4, <2>3, <2>4, <2>5, SumShift
<1> QED
  BY <1>10, <1>11

\* Only a COMMIT changes a pending amount.
LEMMA OtherPending ==
  ASSUME Existing = Users, TypeOK, EntityInv, NEW p \in Requests, Step(p) \/ Abort(p),
         ~Commit(p), NEW u \in Users
  PROVE  row'[u].pending = row[u].pending
<1>1. CASE SetFlag(p)
  <2> DEFINE v == call[p].user
             flagged == [row[v] EXCEPT !.frozen = (call[p].op = "freeze")]
  <2>1. row' = row \/ row' = [row EXCEPT ![v] = flagged]
    BY <1>1, Zenon DEF SetFlag
  <2>2. v \in Users /\ row[v] \in WalletRow
    BY CallFacts DEF TypeOK
  <2>3. flagged.pending = row[v].pending
    BY <2>2, Zenon DEF WalletRow
  <2> HIDE DEF flagged, v
  <2> QED
    BY <2>1, <2>3 DEF TypeOK
<1>2. CASE ~SetFlag(p)
  BY <1>2, QuietSteps
<1> QED
  BY <1>1, <1>2

\* Where every user has a wallet, no money is made or lost by any interleaving
\* of calls, failures included: all balances and pending amounts together are
\* what was there, and what came in, less what went out.
THEOREM WalletTotalConserved == Existing = Users => (Spec => []TotalConserved)
<1> SUFFICES ASSUME Existing = Users PROVE Spec => []TotalConserved
  OBVIOUS
<1>1. Init => TotalConserved
  <2> SUFFICES ASSUME Init PROVE TotalConserved
    OBVIOUS
  <2>1. \A u \in Users : Kept[u] = Opening /\ Owed[u] = Opening
    <3> TAKE u \in Users
    <3>1. row[u] = [Fresh EXCEPT !.balance = Opening] /\ ledger[u] = <<>>
      BY DEF Init
    <3>2. row[u].balance = Opening /\ row[u].pending = 0
      BY <3>1 DEF Fresh
    <3>3. Brought(ledger[u]) = 0
      BY <3>1, SumEmpty DEF Brought
    <3>4. OpeningOf(u) = Opening /\ Opening \in Nat
      BY WalletAssumption DEF OpeningOf
    <3> QED
      BY <3>2, <3>3, <3>4 DEF Kept, Owed
  <2>2. Sum(Kept, Users) = Sum(Owed, Users)
    <3>1. \A u \in Users : Owed[u] \in Int /\ Kept[u] = Owed[u]
      BY <2>1, WalletAssumption
    <3> QED
      BY <3>1, SumSame, WalletAssumption
  <2> QED
    BY <2>2 DEF TotalConserved, Kept, Owed
<1>2. /\ TypeOK /\ LockInv /\ EntityInv /\ SavedInv /\ TwoWallets /\ TotalConserved /\ [Next]_vars
        => TotalConserved'
  <2> SUFFICES ASSUME TypeOK, LockInv, EntityInv, SavedInv, TwoWallets, TotalConserved, [Next]_vars
               PROVE  TotalConserved'
    OBVIOUS
  <2>1. TypeOK'
    BY NextType
  <2>2. Sum(Kept, Users) = Sum(Owed, Users)
    BY DEF TotalConserved, Kept, Owed
  <2>4. /\ Sum(Kept, Users) \in Int /\ Sum(Kept', Users) \in Int
        /\ Sum(Owed, Users) \in Int /\ Sum(Owed', Users) \in Int
    BY <2>1, SheetFacts
  <2>5. ASSUME NEW p \in Requests, Commit(p) PROVE Sum(Kept', Users) = Sum(Owed', Users)
    BY <2>1, <2>2, <2>4, <2>5, CommitSheet
  <2>6. ASSUME \A u \in Users : ledger'[u] = ledger[u] /\ Kept'[u] = Kept[u]
        PROVE  Sum(Kept', Users) = Sum(Owed', Users)
    <3>1. \A u \in Users : Owed'[u] = Owed[u]
      BY <2>6 DEF Owed, OpeningOf
    <3>2. Sum(Kept', Users) = Sum(Kept, Users) /\ Sum(Owed', Users) = Sum(Owed, Users)
      <4>1. \A u \in Users : Kept[u] \in Int /\ Kept'[u] = Kept[u]
        BY <2>1, <2>6, SheetFacts
      <4>2. \A u \in Users : Owed[u] \in Int /\ Owed'[u] = Owed[u]
        BY <2>1, <3>1, SheetFacts
      <4> QED
        BY <4>1, <4>2, SumSame, WalletAssumption
    <3> QED
      BY <2>2, <3>2
  <2>7. ASSUME NEW p \in Requests, Step(p) \/ Abort(p), ~Commit(p)
        PROVE  Sum(Kept', Users) = Sum(Owed', Users)
    <3>1. \A u \in Users : ledger'[u] = ledger[u] /\ row'[u].balance = row[u].balance
      BY <2>7, OtherSteps
    <3>2. \A u \in Users : row'[u].pending = row[u].pending
      BY <2>7, OtherPending
    <3> QED
      BY <2>6, <3>1, <3>2 DEF Kept
  <2>8. ASSUME UNCHANGED vars PROVE Sum(Kept', Users) = Sum(Owed', Users)
    <3>1. \A u \in Users : ledger'[u] = ledger[u] /\ Kept'[u] = Kept[u]
      BY <2>8 DEF vars, Kept
    <3> QED
      BY <2>6, <3>1
  <2>9. Sum(Kept', Users) = Sum(Owed', Users)
    <3>1. \/ UNCHANGED vars
          \/ \E p \in Requests : Step(p) \/ Abort(p)
      BY DEF Next, Finished
    <3> QED
      BY <2>5, <2>7, <2>8, <3>1
  <2> QED
    BY <2>9 DEF TotalConserved, Kept, Owed
<1> QED
  BY <1>1, <1>2, CommitInvariant, PTL DEF Spec
=============================================================================
