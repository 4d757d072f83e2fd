------------------------------- MODULE Promo -------------------------------
(***************************************************************************)
(* Promo codes (payment-service, src/promo/promo.service.ts).  apply()     *)
(* opens a transaction, then validates through the repositories, which are *)
(* not bound to that transaction: each of their queries takes a second     *)
(* connection of the pool and reads what is committed by then.             *)
(***************************************************************************)
EXTENDS Service

CONSTANTS
  Codes,     \* the codes an administrator may create
  Terms,     \* the limits a code may have; total 0 is "no limit"
  PoolSize   \* the connections of the PostgreSQL pool

ASSUME PromoAssumption ==
  Terms \subseteq [perUser : Nat \ {0}, total : Nat]

VARIABLES
  promo,  \* table promos
  uses    \* table promo_usages: how many rows each user has for a code

promoVars == <<job, promo, uses>>

\* The promo's period relative to now: validFrom, validUntil.
Period == {"early", "open", "over"}

PromoRow == [state : {"absent", "active", "inactive"}, period : Period,
             perUser : Nat, total : Nat, used : Nat]
NoPromo == [state |-> "absent", period |-> "early",
            perUser |-> 0, total |-> 0, used |-> 0]

CreateJob == [step : {"save"}, code : Codes, row : PromoRow]
FindJob   == [step : {"find"}, code : Codes, user : Users]
ApplyJob  == [step : {"count", "increment", "commit"}, code : Codes,
              user : Users, row : PromoRow]

PromoInit ==
  /\ AllIdle
  /\ promo = [c \in Codes |-> NoPromo]
  /\ uses = [c \in Codes |-> [u \in Users |-> 0]]

-----------------------------------------------------------------------------
(* Connections and locks.                                                  *)

\* The handlers that hold a connection for their open transaction.
InTransaction == {s \in Slots : job[s].step \in {"find", "count", "increment", "commit"}}

\* A query outside a transaction borrows a connection and gives it back.
FreeConnection == Cardinality(InTransaction) < PoolSize

\* An UPDATE keeps the row locked until its transaction ends.
RowFree(s) ==
  \A t \in Slots \ {s} : ~(At(t, "commit") /\ job[t].code = job[s].code)

-----------------------------------------------------------------------------
(* POST /promo and PUT /promo/:id/deactivate.                              *)

\* create(): no promo has the code yet.
CreateFind(s, c, t, p) ==
  /\ IsIdle(s) /\ FreeConnection
  /\ promo[c].state = "absent"
  /\ Goto(s, [step |-> "save", code |-> c,
              row |-> [state |-> "active", period |-> p, perUser |-> t.perUser,
                       total |-> t.total, used |-> 0]])
  /\ UNCHANGED <<promo, uses>>

\* create(): save(); the unique index refuses a code created meanwhile.
CreateSave(s) ==
  /\ At(s, "save") /\ FreeConnection
  /\ promo' = [promo EXCEPT ![job[s].code] = IF @.state = "absent" THEN job[s].row ELSE @]
  /\ Return(s)
  /\ UNCHANGED uses

Deactivate(c) ==
  /\ FreeConnection
  /\ promo[c].state = "active"
  /\ promo' = [promo EXCEPT ![c].state = "inactive"]
  /\ UNCHANGED <<job, uses>>

\* Time passes validFrom or validUntil.
Elapse(c) ==
  /\ promo[c].state # "absent" /\ promo[c].period # "over"
  /\ promo' = [promo EXCEPT ![c].period = IF @ = "early" THEN "open" ELSE "over"]
  /\ UNCHANGED <<job, uses>>

-----------------------------------------------------------------------------
(* POST /promo/apply.                                                      *)

\* dataSource.transaction(): a connection is taken for the whole handler.
Apply(s, c, u) ==
  /\ IsIdle(s) /\ FreeConnection
  /\ Goto(s, [step |-> "find", code |-> c, user |-> u])
  /\ UNCHANGED <<promo, uses>>

\* Mutant: a refused request leaves its transaction open.
FindLeaked(s, fits) ==
  /\ At(s, "find") /\ FreeConnection
  /\ LET row == promo[job[s].code]
     IN IF row.state = "active" /\ row.period = "open" /\ fits
        THEN Goto(s, [step |-> "count", code |-> job[s].code, user |-> job[s].user,
                      row |-> row])
        ELSE UNCHANGED job
  /\ UNCHANGED <<promo, uses>>

\* findByCode() and the checks on the row; `fits` is the order's value and
\* context against minOrderValue and applicableTo.
Find(s, fits) ==
  /\ At(s, "find") /\ FreeConnection
  /\ LET row == promo[job[s].code]
     IN IF row.state = "active" /\ row.period = "open" /\ fits
        THEN Goto(s, [step |-> "count", code |-> job[s].code, user |-> job[s].user,
                      row |-> row])
        ELSE Return(s)
  /\ UNCHANGED <<promo, uses>>

\* The limits are checked on the row as it was found.
WithinLimits(row, n) ==
  /\ n < row.perUser
  /\ row.total # 0 => row.used < row.total

\* Mutant: the limits are off by one.
CountUsesOffByOne(s) ==
  /\ At(s, "count") /\ FreeConnection
  /\ LET j == job[s]
     IN IF uses[j.code][j.user] <= j.row.perUser
        THEN Goto(s, [j EXCEPT !.step = "increment"])
        ELSE Return(s)
  /\ UNCHANGED <<promo, uses>>

CountUses(s) ==
  /\ At(s, "count") /\ FreeConnection
  /\ LET j == job[s]
     IN IF WithinLimits(j.row, uses[j.code][j.user])
        THEN Goto(s, [j EXCEPT !.step = "increment"])
        ELSE Return(s)
  /\ UNCHANGED <<promo, uses>>

\* manager.increment(): in the transaction, so it needs the row's lock only.
Increment(s) ==
  /\ At(s, "increment") /\ RowFree(s)
  /\ Goto(s, [job[s] EXCEPT !.step = "commit"])
  /\ UNCHANGED <<promo, uses>>

\* The usage row is inserted and the transaction commits both.
CommitUse(s) ==
  /\ At(s, "commit")
  /\ promo' = [promo EXCEPT ![job[s].code].used = @ + 1]
  /\ uses' = [uses EXCEPT ![job[s].code][job[s].user] = @ + 1]
  /\ Return(s)

\* A statement fails or the connection is lost: nothing of it is kept.
RollBack(s) ==
  /\ ~IsIdle(s)
  /\ Return(s)
  /\ UNCHANGED <<promo, uses>>

-----------------------------------------------------------------------------
PromoNext ==
  \/ \E c \in Codes : Deactivate(c) \/ Elapse(c)
  \/ \E s \in Slots :
       \/ \E c \in Codes, t \in Terms, p \in Period : CreateFind(s, c, t, p)
       \/ \E c \in Codes, u \in Users : Apply(s, c, u)
       \/ \E fits \in BOOLEAN : Find(s, fits)
       \/ CreateSave(s) \/ CountUses(s) \/ Increment(s) \/ CommitUse(s) \/ RollBack(s)

PromoSpec == PromoInit /\ [][PromoNext]_promoVars

\* The pool and PostgreSQL serve those who wait in turn, so a handler whose
\* next statement can run again and again gets to run it.
PromoFairness ==
  \A s \in Slots :
    /\ SF_promoVars(\E fits \in BOOLEAN : Find(s, fits))
    /\ SF_promoVars(CountUses(s))
    /\ SF_promoVars(Increment(s))
    /\ SF_promoVars(CommitUse(s))

-----------------------------------------------------------------------------
(* Properties.                                                             *)

\* The rows and the locals of the handlers have their types.
PromoTypeOK ==
  /\ promo \in [Codes -> PromoRow]
  /\ uses \in [Codes -> [Users -> Nat]]
  /\ job \in [Slots -> CreateJob \cup FindJob \cup ApplyJob \cup {Idle}]

\* The limits of a code are exceeded by no more than the requests that
\* overlapped the last admissible one: validate() reads them outside the
\* transaction that adds a use.
UsesWithinOverlap ==
  \A c \in Codes :
    /\ promo[c].total # 0 => promo[c].used <= promo[c].total + Cardinality(Slots) - 1
    /\ \A u \in Users : uses[c][u] <= promo[c].perUser + Cardinality(Slots) - 1

\* Every connection of the pool belongs to a transaction whose next query
\* needs another one.
PoolExhausted ==
  /\ ~FreeConnection
  /\ \A s \in InTransaction : job[s].step \in {"find", "count"}

\* An apply() is answered unless the transactions of the pool come to wait for
\* connections that only they could give back.
AppliesAnswered ==
  \A s \in Slots : s \in InTransaction ~> (IsIdle(s) \/ PoolExhausted)
=============================================================================
