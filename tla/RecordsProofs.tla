--------------------------- MODULE RecordsProofs ---------------------------
(***************************************************************************)
(* Proofs about the handlers that look up what they then write, and about  *)
(* the readers that overlap with them: promo codes, ratings, chat rooms,   *)
(* user records, menus, the path of a ride, notifications.  They hold for  *)
(* any number of handlers, users and rows.                                 *)
(***************************************************************************)
EXTENDS Promo, Ratings, Chat, UserRecords, Menus, Tracking, Notifications,
        SumTheorems, TLAPS

-----------------------------------------------------------------------------
(* Promo codes: requests that overlap exceed the limits of a code by no    *)
(* more than their number.                                                 *)
N == Cardinality(Slots)

Applying(s) == job[s].step \in {"count", "increment", "commit"}

\* The handlers of a code that found it below its total, and those of a user
\* that counted less uses than a user may have.
BelowTotal(c) == {s \in Slots : Applying(s) /\ job[s].code = c /\ job[s].row.used < promo[c].total}
BelowPerUser(c, u) ==
  {s \in Slots : Applying(s) /\ job[s].step # "count" /\ job[s].code = c /\ job[s].user = u}

\* A code that is about to be created, or was not yet, has no uses.
NewRows ==
  /\ \A s \in Slots : At(s, "save") => job[s].row.used = 0 /\ job[s].row.state = "active"
  /\ \A c \in Codes : promo[c].state = "absent" =>
       promo[c] = NoPromo /\ \A u \in Users : uses[c][u] = 0

\* The limits a handler found are those of the code, and it has checked them.
FoundRows ==
  \A s \in Slots : Applying(s) =>
    LET row == promo[job[s].code]  found == job[s].row
    IN /\ row.state # "absent"
       /\ row.total = found.total /\ row.perUser = found.perUser
       /\ job[s].step # "count" /\ found.total # 0 => found.used < found.total

\* Whoever found a code below a limit may still use it.
TotalOverlap ==
  \A c \in Codes : promo[c].total # 0 =>
    promo[c].used + Cardinality(BelowTotal(c)) <= promo[c].total + N - 1
PerUserOverlap ==
  \A c \in Codes, u \in Users :
    uses[c][u] + Cardinality(BelowPerUser(c, u)) <= promo[c].perUser + N - 1

PromoInv == PromoTypeOK /\ NewRows /\ FoundRows /\ TotalOverlap /\ PerUserOverlap

-----------------------------------------------------------------------------
(* Counting.                                                               *)

\* There is a slot.
LEMMA SlotsCounted == IsFiniteSet(Slots) /\ N \in Nat /\ N >= 1
  <1>1. IsFiniteSet(Slots) /\ Slots # {}
    BY ServiceAssumption
  <1>2. N \in Nat /\ N # 0
    BY <1>1, FS_CardinalityType, FS_EmptySet DEF N
  <1> QED
    BY <1>1, <1>2

\* n uses and the handlers S that may add one stay within the overlap if none
\* is added, if one of S adds its own, or if n is still below the limit.
LEMMA Overlap ==
  ASSUME NEW S \in SUBSET Slots, NEW T \in SUBSET Slots,
         NEW n \in Nat, NEW m \in Nat, NEW limit \in Nat,
         \/ m = n /\ T \subseteq S /\ n + Cardinality(S) <= limit + N - 1
         \/ /\ m = n + 1 /\ n + Cardinality(S) <= limit + N - 1
            /\ \E x \in S : T \subseteq S \ {x}
         \/ m < limit
  PROVE  m + Cardinality(T) <= limit + N - 1
  <1>1. IsFiniteSet(S) /\ IsFiniteSet(T) /\ Cardinality(T) <= N
    BY SlotsCounted, FS_Subset DEF N
  <1>2. Cardinality(S) \in Nat /\ Cardinality(T) \in Nat /\ N \in Nat
    BY <1>1, SlotsCounted, FS_CardinalityType
  <1>3. CASE m = n /\ T \subseteq S /\ n + Cardinality(S) <= limit + N - 1
    <2>1. Cardinality(T) <= Cardinality(S)
      BY <1>1, <1>3, FS_Subset
    <2> QED
      BY <1>2, <1>3, <2>1
  <1>4. ASSUME m = n + 1, n + Cardinality(S) <= limit + N - 1, NEW x \in S, T \subseteq S \ {x}
        PROVE  m + Cardinality(T) <= limit + N - 1
    <2>1. IsFiniteSet(S \ {x}) /\ Cardinality(S \ {x}) = Cardinality(S) - 1
      BY <1>1, FS_RemoveElement
    <2>2. Cardinality(T) <= Cardinality(S \ {x})
      BY <1>4, <2>1, FS_Subset
    <2> QED
      BY <1>2, <1>4, <2>1, <2>2
  <1>5. CASE m < limit
    BY <1>1, <1>2, <1>5
  <1> QED
    BY <1>3, <1>4, <1>5

\* What a handler that applies a code holds.
LEMMA ApplyingType ==
  ASSUME PromoTypeOK, NEW s \in Slots, Applying(s)
  PROVE  /\ job[s] \in ApplyJob
         /\ job[s].code \in Codes /\ job[s].user \in Users /\ job[s].row \in PromoRow
         /\ job[s].row.used \in Nat /\ job[s].row.total \in Nat /\ job[s].row.perUser \in Nat
  <1>1. job[s] \in CreateJob \cup FindJob \cup ApplyJob \cup {Idle}
    BY DEF PromoTypeOK
  <1>2. job[s] \in ApplyJob
    BY <1>1 DEF Applying, CreateJob, FindJob, Idle
  <1>3. job[s].row \in PromoRow
    BY <1>2 DEF ApplyJob
  <1> QED
    BY <1>2, <1>3 DEF ApplyJob, PromoRow

\* The columns of a row.
LEMMA RowType ==
  ASSUME PromoTypeOK, NEW c \in Codes
  PROVE  promo[c].used \in Nat /\ promo[c].total \in Nat /\ promo[c].perUser \in Nat
  <1>1. promo[c] \in PromoRow
    BY DEF PromoTypeOK
  <1> QED
    BY <1>1 DEF PromoRow

\* No codes, no handlers.
LEMMA PromoInitInv == PromoInit => PromoInv
  <1>1. SUFFICES ASSUME PromoInit PROVE PromoInv
    OBVIOUS
  <1>2. PromoTypeOK
    BY <1>1 DEF PromoInit, PromoTypeOK, AllIdle, NoPromo, PromoRow, Period
  <1>3. \A s \in Slots : ~Applying(s) /\ ~At(s, "save")
    BY <1>1 DEF PromoInit, AllIdle, Applying, At, Idle
  <1>4. NewRows /\ FoundRows
    BY <1>1, <1>3 DEF PromoInit, NewRows, FoundRows
  <1>5. TotalOverlap
    BY <1>1 DEF PromoInit, TotalOverlap, NoPromo
  <1>6. PerUserOverlap
    <2>1. SUFFICES ASSUME NEW c \in Codes, NEW u \in Users
                   PROVE  uses[c][u] + Cardinality(BelowPerUser(c, u)) <= promo[c].perUser + N - 1
      BY DEF PerUserOverlap
    <2>2. BelowPerUser(c, u) = {}
      BY <1>3 DEF BelowPerUser
    <2>3. Cardinality(BelowPerUser(c, u)) = 0
      BY <2>2, FS_EmptySet
    <2>4. uses[c][u] = 0 /\ promo[c].perUser = 0
      BY <1>1 DEF PromoInit, NoPromo
    <2> QED
      BY <2>3, <2>4, SlotsCounted
  <1> QED
    BY <1>2, <1>4, <1>5, <1>6 DEF PromoInv

-----------------------------------------------------------------------------
(* Steps that add no use.                                                  *)

\* If no limit changes, a handler that begins to apply a code or has counted its
\* uses is the only one that may have reached a limit since.
LEMMA LimitsKept ==
  ASSUME PromoInv, PromoTypeOK', uses' = uses,
         \A c \in Codes : /\ promo'[c].used = promo[c].used
                          /\ promo'[c].total = promo[c].total
                          /\ promo'[c].perUser = promo[c].perUser,
         \A c \in Codes : \/ BelowTotal(c)' \subseteq BelowTotal(c)
                          \/ promo[c].used < promo[c].total,
         \A c \in Codes, u \in Users : \/ BelowPerUser(c, u)' \subseteq BelowPerUser(c, u)
                                       \/ uses[c][u] < promo[c].perUser
  PROVE  TotalOverlap' /\ PerUserOverlap'
  <1>1. ASSUME NEW c \in Codes, promo'[c].total # 0
        PROVE  promo'[c].used + Cardinality(BelowTotal(c)') <= promo'[c].total + N - 1
    <2>1. BelowTotal(c) \in SUBSET Slots /\ BelowTotal(c)' \in SUBSET Slots
      BY DEF BelowTotal
    <2>2. promo[c].used \in Nat /\ promo[c].total \in Nat
      BY RowType DEF PromoInv
    <2>3. promo[c].used + Cardinality(BelowTotal(c)) <= promo[c].total + N - 1
      BY <1>1 DEF PromoInv, TotalOverlap
    <2>4. CASE BelowTotal(c)' \subseteq BelowTotal(c)
      BY <2>1, <2>2, <2>3, <2>4, Overlap
    <2>5. CASE promo[c].used < promo[c].total
      BY <2>1, <2>2, <2>5, Overlap
    <2> QED
      BY <2>4, <2>5
  <1>2. ASSUME NEW c \in Codes, NEW u \in Users
        PROVE  uses'[c][u] + Cardinality(BelowPerUser(c, u)') <= promo'[c].perUser + N - 1
    <2>1. BelowPerUser(c, u) \in SUBSET Slots /\ BelowPerUser(c, u)' \in SUBSET Slots
      BY DEF BelowPerUser
    <2>2. uses[c][u] \in Nat /\ promo[c].perUser \in Nat
      BY RowType DEF PromoInv, PromoTypeOK
    <2>3. uses[c][u] + Cardinality(BelowPerUser(c, u)) <= promo[c].perUser + N - 1
      BY DEF PromoInv, PerUserOverlap
    <2>4. CASE BelowPerUser(c, u)' \subseteq BelowPerUser(c, u)
      BY <2>1, <2>2, <2>3, <2>4, Overlap
    <2>5. CASE uses[c][u] < promo[c].perUser
      BY <2>1, <2>2, <2>5, Overlap
    <2> QED
      BY <2>4, <2>5
  <1> QED
    BY <1>1, <1>2 DEF TotalOverlap, PerUserOverlap, N

\* A handler that begins, is refused or is rolled back applies no code.
LEMMA HandlerLeaves ==
  ASSUME PromoInv, NEW s \in Slots, NEW j \in CreateJob \cup FindJob \cup {Idle},
         Goto(s, j), j.step = "save" => j.row.used = 0 /\ j.row.state = "active",
         UNCHANGED <<promo, uses>>
  PROVE  PromoInv'
  <1>1. PromoTypeOK /\ PromoTypeOK'
    BY DEF PromoInv, PromoTypeOK, Goto
  <1>2. \A t \in Slots : job'[t] = IF t = s THEN j ELSE job[t]
    BY <1>1 DEF PromoTypeOK, Goto
  <1>3. j.step \notin {"count", "increment", "commit"}
    BY DEF CreateJob, FindJob, Idle
  <1>4. \A t \in Slots : Applying(t)' => t # s /\ Applying(t) /\ job'[t] = job[t]
    BY <1>2, <1>3 DEF Applying
  <1>5. NewRows'
    BY <1>2 DEF PromoInv, NewRows, At
  <1>6. FoundRows'
    BY <1>4 DEF PromoInv, FoundRows
  <1>7. \A c \in Codes : BelowTotal(c)' \subseteq BelowTotal(c)
    BY <1>4 DEF BelowTotal
  <1>8. \A c \in Codes, u \in Users : BelowPerUser(c, u)' \subseteq BelowPerUser(c, u)
    BY <1>4 DEF BelowPerUser
  <1>9. TotalOverlap' /\ PerUserOverlap'
    BY <1>1, <1>7, <1>8, LimitsKept
  <1> QED
    BY <1>1, <1>5, <1>6, <1>9 DEF PromoInv

\* An administrator or the clock changes the state of a code, not its limits.
LEMMA StateChanges ==
  ASSUME PromoInv, NEW c \in Codes, Deactivate(c) \/ Elapse(c) PROVE PromoInv'
  <1>1. PromoTypeOK
    BY DEF PromoInv
  <1>2. UNCHANGED <<job, uses>>
    BY DEF Deactivate, Elapse
  <1>3. promo' \in [Codes -> PromoRow]
    <2>1. promo[c] \in PromoRow /\ promo \in [Codes -> PromoRow]
      BY <1>1 DEF PromoTypeOK
    <2>2. CASE Deactivate(c)
      <3>1. [promo[c] EXCEPT !.state = "inactive"] \in PromoRow
        BY <2>1 DEF PromoRow
      <3> QED
        BY <2>1, <2>2, <3>1 DEF Deactivate
    <2>3. CASE Elapse(c)
      <3>1. \A p \in Period : [promo[c] EXCEPT !.period = p] \in PromoRow
        BY <2>1 DEF PromoRow
      <3>2. (IF promo[c].period = "early" THEN "open" ELSE "over") \in Period
        BY DEF Period
      <3> QED
        BY <2>1, <2>3, <3>1, <3>2 DEF Elapse
    <2> QED
      BY <2>2, <2>3
  <1>4. ASSUME NEW d \in Codes
        PROVE  /\ promo'[d].used = promo[d].used
               /\ promo'[d].total = promo[d].total
               /\ promo'[d].perUser = promo[d].perUser
               /\ promo'[d].state = "absent" <=> promo[d].state = "absent"
               /\ promo'[d].state = "absent" => promo'[d] = promo[d]
    <2>1. promo[c] \in PromoRow /\ promo[d] \in PromoRow
      BY <1>1 DEF PromoTypeOK
    <2> QED
      BY <1>1, <2>1 DEF Deactivate, Elapse, PromoTypeOK, PromoRow
  <1>5. PromoTypeOK'
    BY <1>1, <1>2, <1>3 DEF PromoTypeOK
  <1>6. NewRows'
    BY <1>2, <1>4 DEF PromoInv, NewRows, At
  <1>7. FoundRows'
    BY <1>1, <1>2, <1>4, ApplyingType DEF PromoInv, FoundRows, Applying
  <1>8. \A d \in Codes : BelowTotal(d)' = BelowTotal(d)
    BY <1>2, <1>4 DEF BelowTotal, Applying
  <1>9. \A d \in Codes, u \in Users : BelowPerUser(d, u)' = BelowPerUser(d, u)
    BY <1>2 DEF BelowPerUser, Applying
  <1>10. TotalOverlap' /\ PerUserOverlap'
    BY <1>2, <1>4, <1>5, <1>8, <1>9, LimitsKept
  <1> QED
    BY <1>5, <1>6, <1>7, <1>10 DEF PromoInv

-----------------------------------------------------------------------------
(* Codes are created.                                                      *)

\* create() has looked the code up.
LEMMA CreateFindInv ==
  ASSUME PromoInv, NEW s \in Slots, NEW c \in Codes, NEW t \in Terms, NEW p \in Period,
         CreateFind(s, c, t, p)
  PROVE  PromoInv'
  <1> DEFINE row == [state |-> "active", period |-> p, perUser |-> t.perUser,
                     total |-> t.total, used |-> 0]
             j == [step |-> "save", code |-> c, row |-> row]
  <1>1. t.perUser \in Nat /\ t.total \in Nat
    BY PromoAssumption
  <1>2. row \in PromoRow
    BY <1>1 DEF PromoRow
  <1>3. j \in CreateJob
    BY <1>2 DEF CreateJob
  <1>4. Goto(s, j) /\ j.row.used = 0 /\ j.row.state = "active" /\ UNCHANGED <<promo, uses>>
    BY DEF CreateFind
  <1> HIDE DEF j
  <1> QED
    BY <1>3, <1>4, HandlerLeaves

\* save() of a code that exists by now changes nothing; that of a new one gives
\* it limits nobody has used.
LEMMA CreateSaveInv ==
  ASSUME PromoInv, NEW s \in Slots, CreateSave(s) PROVE PromoInv'
  <1>1. PromoTypeOK
    BY DEF PromoInv
  <1> DEFINE n == job[s].code  row == job[s].row
  <1>2. job[s] \in CreateJob
    <2>1. job[s] \in CreateJob \cup FindJob \cup ApplyJob \cup {Idle}
      BY <1>1 DEF PromoTypeOK
    <2> QED
      BY <2>1 DEF CreateSave, At, FindJob, ApplyJob, Idle
  <1>3. n \in Codes /\ row \in PromoRow /\ row.used = 0 /\ row.state = "active"
    BY <1>2 DEF CreateSave, CreateJob, PromoInv, NewRows
  <1>4. Goto(s, Idle) /\ uses' = uses
    BY DEF CreateSave, Return
  <1>5. CASE promo[n].state # "absent"
    <2>1. promo' = promo
      BY <1>1, <1>3, <1>5 DEF CreateSave, PromoTypeOK
    <2>2. Idle.step # "save"
      BY DEF Idle
    <2> QED
      BY <1>4, <2>1, <2>2, HandlerLeaves
  <1>6. CASE promo[n].state = "absent"
    <2>1. /\ promo' \in [Codes -> PromoRow] /\ promo'[n] = row
          /\ \A d \in Codes : d # n => promo'[d] = promo[d]
      BY <1>1, <1>3, <1>6 DEF CreateSave, PromoTypeOK
    <2>2. \A q \in Slots : job'[q] = IF q = s THEN Idle ELSE job[q]
      BY <1>1, <1>4 DEF PromoTypeOK, Goto
    <2>3. PromoTypeOK'
      BY <1>1, <1>4, <2>1 DEF PromoTypeOK, Goto
    <2>4. \A q \in Slots : Applying(q)' =>
            q # s /\ Applying(q) /\ job'[q] = job[q] /\ job[q].code # n
      BY <1>6, <2>2 DEF Applying, Idle, PromoInv, FoundRows
    <2>5. promo[n] = NoPromo /\ \A u \in Users : uses[n][u] = 0
      BY <1>3, <1>6 DEF PromoInv, NewRows
    <2>6. NewRows'
      <3>1. \A q \in Slots :
              At(q, "save")' => job'[q].row.used = 0 /\ job'[q].row.state = "active"
        BY <2>2 DEF At, Idle, PromoInv, NewRows
      <3>2. \A c \in Codes : promo'[c].state = "absent" =>
              promo'[c] = NoPromo /\ \A u \in Users : uses[c][u] = 0
        BY <1>3, <2>1, <2>5 DEF PromoInv, NewRows
      <3> QED
        BY <1>4, <3>1, <3>2 DEF NewRows
    <2>7. FoundRows'
      BY <1>1, <2>1, <2>4, ApplyingType DEF PromoInv, FoundRows
    <2>8. ASSUME NEW c \in Codes, promo'[c].total # 0
          PROVE  promo'[c].used + Cardinality(BelowTotal(c)') <= promo'[c].total + N - 1
      <3>1. BelowTotal(c) \in SUBSET Slots /\ BelowTotal(c)' \in SUBSET Slots
        BY DEF BelowTotal
      <3>2. promo'[c].used \in Nat /\ promo'[c].total \in Nat
        BY <2>1 DEF PromoRow
      <3>3. CASE c = n
        BY <1>3, <2>1, <2>8, <3>1, <3>2, <3>3, Overlap
      <3>4. CASE c # n
        <4>1. promo'[c] = promo[c]
          BY <2>1, <3>4
        <4>2. BelowTotal(c)' \subseteq BelowTotal(c)
          BY <2>4, <4>1 DEF BelowTotal
        <4>3. promo[c].used + Cardinality(BelowTotal(c)) <= promo[c].total + N - 1
          BY <2>8, <4>1 DEF PromoInv, TotalOverlap
        <4> QED
          BY <3>1, <3>2, <4>1, <4>2, <4>3, Overlap
      <3> QED
        BY <3>3, <3>4
    <2>9. ASSUME NEW c \in Codes, NEW u \in Users
          PROVE  uses'[c][u] + Cardinality(BelowPerUser(c, u)') <= promo'[c].perUser + N - 1
      <3>1. /\ BelowPerUser(c, u) \in SUBSET Slots /\ BelowPerUser(c, u)' \in SUBSET Slots
            /\ BelowPerUser(c, u)' \subseteq BelowPerUser(c, u)
        BY <2>4 DEF BelowPerUser
      <3>2. promo[c].perUser \in Nat /\ promo'[c].perUser \in Nat /\ uses[c][u] \in Nat
        BY <1>1, <2>1, RowType DEF PromoRow, PromoTypeOK
      <3>3. uses[c][u] + Cardinality(BelowPerUser(c, u)) <= promo[c].perUser + N - 1
        BY DEF PromoInv, PerUserOverlap
      <3>4. uses[c][u] + Cardinality(BelowPerUser(c, u)') <= promo[c].perUser + N - 1
        BY <3>1, <3>2, <3>3, Overlap
      <3>5. promo[c].perUser <= promo'[c].perUser
        BY <2>1, <2>5, <3>2 DEF NoPromo
      <3>6. Cardinality(BelowPerUser(c, u)') \in Nat
        BY <3>1, SlotsCounted, FS_Subset, FS_CardinalityType
      <3> QED
        BY <1>4, <3>2, <3>4, <3>5, <3>6, SlotsCounted
    <2>10. TotalOverlap' /\ PerUserOverlap'
      BY <2>8, <2>9 DEF TotalOverlap, PerUserOverlap, N
    <2> QED
      BY <2>3, <2>6, <2>7, <2>10 DEF PromoInv
  <1> QED
    BY <1>5, <1>6

-----------------------------------------------------------------------------
(* Codes are used.                                                         *)

\* A handler goes on applying: of the rows it reads only what it found changes.
LEMMA HandlerGoesOn ==
  ASSUME PromoInv, NEW s \in Slots, NEW j \in ApplyJob, Goto(s, j), UNCHANGED <<promo, uses>>,
         promo[j.code].state # "absent",
         promo[j.code].total = j.row.total, promo[j.code].perUser = j.row.perUser,
         j.step # "count" /\ j.row.total # 0 => j.row.used < j.row.total,
         \/ s \in BelowTotal(j.code)
         \/ j.row.used < promo[j.code].total => promo[j.code].used < promo[j.code].total,
         \/ j.step = "count" \/ s \in BelowPerUser(j.code, j.user)
         \/ uses[j.code][j.user] < promo[j.code].perUser
  PROVE  PromoInv'
  <1>1. PromoTypeOK /\ PromoTypeOK'
    BY DEF PromoInv, PromoTypeOK, Goto
  <1>2. \A t \in Slots : job'[t] = IF t = s THEN j ELSE job[t]
    BY <1>1 DEF PromoTypeOK, Goto
  <1>3. j.step \in {"count", "increment", "commit"}
    BY DEF ApplyJob
  <1>4. NewRows'
    BY <1>2, <1>3 DEF PromoInv, NewRows, At
  <1>5. FoundRows'
    BY <1>2 DEF PromoInv, FoundRows, Applying
  <1>6. \A c \in Codes : \/ BelowTotal(c)' \subseteq BelowTotal(c)
                         \/ promo[c].used < promo[c].total
    BY <1>2 DEF BelowTotal, Applying
  <1>7. \A c \in Codes, u \in Users : \/ BelowPerUser(c, u)' \subseteq BelowPerUser(c, u)
                                      \/ uses[c][u] < promo[c].perUser
    BY <1>2 DEF BelowPerUser, Applying
  <1>8. TotalOverlap' /\ PerUserOverlap'
    BY <1>1, <1>6, <1>7, LimitsKept
  <1> QED
    BY <1>1, <1>4, <1>5, <1>8 DEF PromoInv

\* findByCode(): the limits are those of the row.
LEMMA FindInv ==
  ASSUME PromoInv, NEW s \in Slots, NEW fits \in BOOLEAN, Find(s, fits) PROVE PromoInv'
  <1>1. PromoTypeOK /\ UNCHANGED <<promo, uses>>
    BY DEF PromoInv, Find
  <1>2. job[s] \in FindJob
    <2>1. job[s] \in CreateJob \cup FindJob \cup ApplyJob \cup {Idle}
      BY <1>1 DEF PromoTypeOK
    <2> QED
      BY <2>1 DEF Find, At, CreateJob, ApplyJob, Idle
  <1> DEFINE n == job[s].code
             j == [step |-> "count", code |-> n, user |-> job[s].user, row |-> promo[n]]
  <1>3. n \in Codes /\ job[s].user \in Users /\ promo[n] \in PromoRow
    BY <1>1, <1>2 DEF FindJob, PromoTypeOK
  <1>4. CASE Goto(s, Idle)
    <2>1. Idle.step # "save"
      BY DEF Idle
    <2> QED
      BY <1>1, <1>4, <2>1, HandlerLeaves
  <1>5. CASE Goto(s, j) /\ promo[n].state = "active"
    <2>1. j \in ApplyJob
      BY <1>3 DEF ApplyJob
    <2>2. j.step = "count" /\ j.code = n /\ j.row = promo[n]
      OBVIOUS
    <2> HIDE DEF j
    <2> QED
      BY <1>1, <1>5, <2>1, <2>2, HandlerGoesOn
  <1> QED
    BY <1>4, <1>5 DEF Find, Return

\* validate() has counted the user's uses.
LEMMA CountUsesInv ==
  ASSUME PromoInv, NEW s \in Slots, CountUses(s) PROVE PromoInv'
  <1>1. PromoTypeOK /\ UNCHANGED <<promo, uses>>
    BY DEF PromoInv, CountUses
  <1>2. Applying(s) /\ job[s].step = "count"
    BY DEF CountUses, At, Applying
  <1> DEFINE n == job[s].code
             j == [job[s] EXCEPT !.step = "increment"]
  <1>3. /\ job[s] \in ApplyJob /\ n \in Codes /\ job[s].user \in Users
        /\ job[s].row \in PromoRow
        /\ job[s].row.used \in Nat /\ job[s].row.total \in Nat
    BY <1>1, <1>2, ApplyingType
  <1>4. CASE Goto(s, Idle)
    <2>1. Idle.step # "save"
      BY DEF Idle
    <2> QED
      BY <1>1, <1>4, <2>1, HandlerLeaves
  <1>5. CASE Goto(s, j) /\ WithinLimits(job[s].row, uses[n][job[s].user])
    <2>1. /\ j \in ApplyJob /\ j.step = "increment" /\ j.code = n
          /\ j.user = job[s].user /\ j.row = job[s].row
      BY <1>3 DEF ApplyJob
    <2>2. /\ promo[n].state # "absent" /\ promo[n].total = job[s].row.total
          /\ promo[n].perUser = job[s].row.perUser
      BY <1>2 DEF PromoInv, FoundRows
    <2>3. /\ uses[n][job[s].user] < promo[n].perUser
          /\ job[s].row.total # 0 => job[s].row.used < job[s].row.total
      BY <1>5, <2>2 DEF WithinLimits
    <2>4. s \in BelowTotal(n) \/ ~(job[s].row.used < promo[n].total)
      BY <1>2 DEF BelowTotal
    <2> HIDE DEF j
    <2> QED
      BY <1>1, <1>5, <2>1, <2>2, <2>3, <2>4, HandlerGoesOn
  <1> QED
    BY <1>4, <1>5 DEF CountUses, Return

\* The row is locked.
LEMMA IncrementInv ==
  ASSUME PromoInv, NEW s \in Slots, Increment(s) PROVE PromoInv'
  <1>1. PromoTypeOK /\ UNCHANGED <<promo, uses>>
    BY DEF PromoInv, Increment
  <1>2. Applying(s) /\ job[s].step = "increment"
    BY DEF Increment, At, Applying
  <1> DEFINE n == job[s].code
             j == [job[s] EXCEPT !.step = "commit"]
  <1>3. job[s] \in ApplyJob
    BY <1>1, <1>2, ApplyingType
  <1>4. /\ j \in ApplyJob /\ j.step = "commit" /\ j.code = n
        /\ j.user = job[s].user /\ j.row = job[s].row
    BY <1>3 DEF ApplyJob
  <1>5. Goto(s, j)
    BY DEF Increment
  <1>6. /\ promo[n].state # "absent" /\ promo[n].total = job[s].row.total
        /\ promo[n].perUser = job[s].row.perUser
        /\ job[s].row.total # 0 => job[s].row.used < job[s].row.total
    BY <1>2 DEF PromoInv, FoundRows
  <1>7. /\ s \in BelowTotal(n) \/ ~(job[s].row.used < promo[n].total)
        /\ s \in BelowPerUser(n, job[s].user)
    BY <1>2 DEF BelowTotal, BelowPerUser
  <1> HIDE DEF j
  <1> QED
    BY <1>1, <1>4, <1>5, <1>6, <1>7, HandlerGoesOn

\* The use is committed by one of those that found the code below its limits.
LEMMA CommitUseInv ==
  ASSUME PromoInv, NEW s \in Slots, CommitUse(s) PROVE PromoInv'
  <1>1. PromoTypeOK
    BY DEF PromoInv
  <1>2. Applying(s) /\ job[s].step = "commit"
    BY DEF CommitUse, At, Applying
  <1> DEFINE n == job[s].code  v == job[s].user
  <1>3. n \in Codes /\ v \in Users
    BY <1>1, <1>2, ApplyingType
  <1>4. /\ promo' = [promo EXCEPT ![n].used = @ + 1]
        /\ uses' = [uses EXCEPT ![n][v] = @ + 1]
        /\ \A q \in Slots : job'[q] = IF q = s THEN Idle ELSE job[q]
    BY <1>1 DEF CommitUse, Return, Goto, PromoTypeOK
  <1>5. ASSUME NEW c \in Codes
        PROVE  /\ promo'[c] \in PromoRow
               /\ promo'[c].total = promo[c].total /\ promo'[c].perUser = promo[c].perUser
               /\ promo'[c].state = promo[c].state
               /\ promo'[c].used = IF c = n THEN promo[c].used + 1 ELSE promo[c].used
    <2>1. promo[c] \in PromoRow
      BY <1>1 DEF PromoTypeOK
    <2> QED
      BY <1>1, <1>3, <1>4, <2>1 DEF PromoTypeOK, PromoRow
  <1>6. ASSUME NEW c \in Codes, NEW u \in Users
        PROVE  uses'[c][u] = IF c = n /\ u = v THEN uses[c][u] + 1 ELSE uses[c][u]
    BY <1>1, <1>3, <1>4 DEF PromoTypeOK
  <1>7. PromoTypeOK'
    <2>1. promo' \in [Codes -> PromoRow]
      BY <1>1, <1>4, <1>5 DEF PromoTypeOK
    <2>2. uses' \in [Codes -> [Users -> Nat]]
      BY <1>1, <1>3, <1>4 DEF PromoTypeOK
    <2>3. job' \in [Slots -> CreateJob \cup FindJob \cup ApplyJob \cup {Idle}]
      BY <1>1 DEF CommitUse, Return, Goto, PromoTypeOK
    <2> QED
      BY <2>1, <2>2, <2>3 DEF PromoTypeOK
  <1>8. \A q \in Slots : Applying(q)' => q # s /\ Applying(q) /\ job'[q] = job[q]
    BY <1>4 DEF Applying, Idle
  <1>9. /\ promo[n].state # "absent" /\ promo[n].total = job[s].row.total
        /\ job[s].row.total # 0 => job[s].row.used < job[s].row.total
    BY <1>2 DEF PromoInv, FoundRows
  <1>10. NewRows'
    <2>1. \A q \in Slots :
            At(q, "save")' => job'[q].row.used = 0 /\ job'[q].row.state = "active"
      BY <1>4 DEF At, Idle, PromoInv, NewRows
    <2>2. ASSUME NEW c \in Codes, promo'[c].state = "absent"
          PROVE  promo'[c] = NoPromo /\ \A u \in Users : uses'[c][u] = 0
      <3>1. c # n /\ promo[c].state = "absent"
        BY <1>5, <1>9, <2>2
      <3>2. promo'[c] = promo[c]
        BY <1>1, <1>4, <3>1 DEF PromoTypeOK
      <3> QED
        BY <1>6, <3>1, <3>2 DEF PromoInv, NewRows
    <2> QED
      BY <2>1, <2>2 DEF NewRows
  <1>11. FoundRows'
    BY <1>1, <1>5, <1>8, ApplyingType DEF PromoInv, FoundRows
  <1>12. ASSUME NEW c \in Codes, promo'[c].total # 0
         PROVE  promo'[c].used + Cardinality(BelowTotal(c)') <= promo'[c].total + N - 1
    <2>1. /\ BelowTotal(c) \in SUBSET Slots /\ BelowTotal(c)' \in SUBSET Slots
          /\ BelowTotal(c)' \subseteq BelowTotal(c) \ {s}
      BY <1>5, <1>8 DEF BelowTotal
    <2>2. /\ promo[c].used \in Nat /\ promo[c].total \in Nat
          /\ promo'[c].used \in Nat
      BY <1>1, <1>5, RowType
    <2>3. promo[c].used + Cardinality(BelowTotal(c)) <= promo[c].total + N - 1
      BY <1>5, <1>12 DEF PromoInv, TotalOverlap
    <2>4. CASE c = n
      <3>1. s \in BelowTotal(c)
        BY <1>2, <1>5, <1>9, <1>12, <2>4 DEF BelowTotal
      <3>2. promo'[c].used = promo[c].used + 1
        BY <1>5, <2>4
      <3>3. promo'[c].used + Cardinality(BelowTotal(c)') <= promo[c].total + N - 1
        BY <2>1, <2>2, <2>3, <3>1, <3>2, Overlap
      <3> QED
        BY <1>5, <3>3
    <2>5. CASE c # n
      <3>1. promo'[c].used = promo[c].used
        BY <1>5, <2>5
      <3>2. promo'[c].used + Cardinality(BelowTotal(c)') <= promo[c].total + N - 1
        BY <2>1, <2>2, <2>3, <3>1, Overlap
      <3> QED
        BY <1>5, <3>2
    <2> QED
      BY <2>4, <2>5
  <1>13. ASSUME NEW c \in Codes, NEW u \in Users
         PROVE  uses'[c][u] + Cardinality(BelowPerUser(c, u)') <= promo'[c].perUser + N - 1
    <2>1. /\ BelowPerUser(c, u) \in SUBSET Slots /\ BelowPerUser(c, u)' \in SUBSET Slots
          /\ BelowPerUser(c, u)' \subseteq BelowPerUser(c, u) \ {s}
      BY <1>8 DEF BelowPerUser
    <2>2. uses[c][u] \in Nat /\ uses'[c][u] \in Nat /\ promo[c].perUser \in Nat
      BY <1>1, <1>7, RowType DEF PromoTypeOK
    <2>3. uses[c][u] + Cardinality(BelowPerUser(c, u)) <= promo[c].perUser + N - 1
      BY DEF PromoInv, PerUserOverlap
    <2>4. CASE c = n /\ u = v
      <3>1. s \in BelowPerUser(c, u)
        BY <1>2, <2>4 DEF BelowPerUser
      <3>2. uses'[c][u] = uses[c][u] + 1
        BY <1>6, <2>4
      <3>3. uses'[c][u] + Cardinality(BelowPerUser(c, u)') <= promo[c].perUser + N - 1
        BY <2>1, <2>2, <2>3, <3>1, <3>2, Overlap
      <3> QED
        BY <1>5, <3>3
    <2>5. CASE ~(c = n /\ u = v)
      <3>1. uses'[c][u] = uses[c][u]
        BY <1>6, <2>5
      <3>2. uses'[c][u] + Cardinality(BelowPerUser(c, u)') <= promo[c].perUser + N - 1
        BY <2>1, <2>2, <2>3, <3>1, Overlap
      <3> QED
        BY <1>5, <3>2
    <2> QED
      BY <2>4, <2>5
  <1>14. TotalOverlap' /\ PerUserOverlap'
    BY <1>12, <1>13 DEF TotalOverlap, PerUserOverlap, N
  <1> QED
    BY <1>7, <1>10, <1>11, <1>14 DEF PromoInv

-----------------------------------------------------------------------------
\* No step leaves the invariant.
LEMMA PromoStepInv == PromoInv /\ [PromoNext]_promoVars => PromoInv'
  <1>1. SUFFICES ASSUME PromoInv, [PromoNext]_promoVars PROVE PromoInv'
    OBVIOUS
  <1>2. ASSUME NEW c \in Codes, Deactivate(c) \/ Elapse(c) PROVE PromoInv'
    BY <1>1, <1>2, StateChanges
  <1>3. ASSUME NEW s \in Slots, NEW c \in Codes, NEW t \in Terms, NEW p \in Period,
               CreateFind(s, c, t, p)
        PROVE  PromoInv'
    BY <1>1, <1>3, CreateFindInv
  <1>4. ASSUME NEW s \in Slots, NEW c \in Codes, NEW u \in Users, Apply(s, c, u) PROVE PromoInv'
    <2> DEFINE j == [step |-> "find", code |-> c, user |-> u]
    <2>1. j \in FindJob /\ j.step # "save"
      BY DEF FindJob
    <2>2. Goto(s, j) /\ UNCHANGED <<promo, uses>>
      BY <1>4 DEF Apply
    <2> HIDE DEF j
    <2> QED
      BY <1>1, <2>1, <2>2, HandlerLeaves
  <1>5. ASSUME NEW s \in Slots, NEW fits \in BOOLEAN, Find(s, fits) PROVE PromoInv'
    BY <1>1, <1>5, FindInv
  <1>6. ASSUME NEW s \in Slots, CreateSave(s) \/ CountUses(s) \/ Increment(s) \/ CommitUse(s)
        PROVE  PromoInv'
    BY <1>1, <1>6, CreateSaveInv, CountUsesInv, IncrementInv, CommitUseInv
  <1>7. ASSUME NEW s \in Slots, RollBack(s) PROVE PromoInv'
    <2>1. Goto(s, Idle) /\ Idle.step # "save" /\ UNCHANGED <<promo, uses>>
      BY <1>7 DEF RollBack, Return, Idle
    <2> QED
      BY <1>1, <2>1, HandlerLeaves
  <1>8. CASE UNCHANGED promoVars
    BY <1>1, <1>8
    DEF promoVars, PromoInv, PromoTypeOK, NewRows, FoundRows, TotalOverlap, PerUserOverlap,
        BelowTotal, BelowPerUser, Applying, At, N
  <1> QED
    BY <1>1, <1>2, <1>3, <1>4, <1>5, <1>6, <1>7, <1>8 DEF PromoNext

\* The invariant holds in every state of every behaviour.
LEMMA PromoAlwaysInv == PromoSpec => []PromoInv
  BY PromoInitInv, PromoStepInv, PTL DEF PromoSpec

\* The rows of promos and promo_usages, and what the handlers hold, keep their
\* types.
THEOREM PromoTypeCorrect == PromoSpec => []PromoTypeOK
  <1>1. PromoInv => PromoTypeOK
    BY DEF PromoInv
  <1> QED
    BY <1>1, PromoAlwaysInv, PTL

\* validate() and apply(): the limits of a code are exceeded by less than the
\* number of handlers that can be under way.
THEOREM PromoUsesWithinOverlap == PromoSpec => []UsesWithinOverlap
  <1>1. PromoInv => UsesWithinOverlap
    <2>1. SUFFICES ASSUME PromoInv, NEW c \in Codes
                   PROVE  /\ promo[c].total # 0 => promo[c].used <= promo[c].total + N - 1
                          /\ \A u \in Users : uses[c][u] <= promo[c].perUser + N - 1
      BY DEF UsesWithinOverlap, N
    <2>2. ASSUME NEW S \in SUBSET Slots PROVE Cardinality(S) \in Nat
      BY SlotsCounted, FS_Subset, FS_CardinalityType
    <2>3. promo[c].used \in Nat /\ promo[c].total \in Nat /\ promo[c].perUser \in Nat
      BY <2>1, RowType DEF PromoInv
    <2>4. ASSUME promo[c].total # 0 PROVE promo[c].used <= promo[c].total + N - 1
      <3>1. promo[c].used + Cardinality(BelowTotal(c)) <= promo[c].total + N - 1
        BY <2>1, <2>4 DEF PromoInv, TotalOverlap
      <3>2. Cardinality(BelowTotal(c)) \in Nat
        BY <2>2 DEF BelowTotal
      <3> QED
        BY <2>3, <3>1, <3>2, SlotsCounted
    <2>5. ASSUME NEW u \in Users PROVE uses[c][u] <= promo[c].perUser + N - 1
      <3>1. uses[c][u] + Cardinality(BelowPerUser(c, u)) <= promo[c].perUser + N - 1
        BY <2>1 DEF PromoInv, PerUserOverlap
      <3>2. Cardinality(BelowPerUser(c, u)) \in Nat /\ uses[c][u] \in Nat
        BY <2>1, <2>2 DEF BelowPerUser, PromoInv, PromoTypeOK
      <3> QED
        BY <2>3, <3>1, <3>2, SlotsCounted
    <2> QED
      BY <2>4, <2>5
  <1> QED
    BY <1>1, PromoAlwaysInv, PTL

-----------------------------------------------------------------------------
(* Ratings: the aggregate of a target.                                     *)

\* The handlers inside the transaction of a rating, and those that have the
\* aggregate in memory.
Transacting(s)  == job[s].step \in {"aggregate", "probe", "write", "commit"}
Aggregating(s) == job[s].step \in {"probe", "write", "commit"}

\* What handler j is about to commit: one rating more than there was when the
\* aggregate was read; a total it does not write is there already.
AboutToCount(j) ==
  LET t == j.row.target
  IN /\ j.new["total"] >= 1
     /\ j.new["total"] <= Cardinality(RatingsOf(t)) + 1
     /\ j.step = "probe" => "total" \in j.columns
     /\ j.step # "probe" /\ "total" \notin j.columns => aggregate[t]["total"] # 0

\* The total of a target is between one and its ratings, if it has any.
TotalWithin(t) ==
  /\ aggregate[t]["total"] <= Cardinality(RatingsOf(t))
  /\ Cardinality(RatingsOf(t)) > 0 => aggregate[t]["total"] # 0

RatingsInv ==
  /\ RatingsTypeOK
  /\ \A t \in Targets : TotalWithin(t)
  /\ \A s \in Slots : Transacting(s) => ~Rated(job[s].ref)
  /\ \A s, x \in Slots : Transacting(s) /\ Transacting(x) /\ s # x => job[s].ref # job[x].ref
  /\ \A s \in Slots : Aggregating(s) => AboutToCount(job[s])

\* The locals of the handlers.
LEMMA RatingsFacts ==
  ASSUME RatingsTypeOK
  PROVE  /\ job \in [Slots -> RatingJob \cup {Idle}]
         /\ \A s \in Slots : Transacting(s) \/ At(s, "insert") =>
              /\ job[s] \in RatingJob /\ job[s].ref \in References
              /\ job[s].row \in RatingRow
              /\ job[s].row.target \in Targets /\ job[s].row.score \in Scores
         /\ \A s \in Slots : Aggregating(s) =>
              /\ job[s].new \in Aggregate /\ job[s].columns \subseteq Columns
              /\ job[s].inserts \in BOOLEAN
         /\ \A t \in Targets : aggregate[t] \in Aggregate /\ aggregate[t]["total"] \in Nat
<1>1. \A s \in Slots : job[s] \in RatingJob \cup {Idle}
  BY DEF RatingsTypeOK
<1>2. ASSUME NEW j \in RatingJob \cup {Idle}
      PROVE  /\ j.step \in {"insert", "aggregate", "probe", "write", "commit"} =>
                  j \in RatingJob /\ j.ref \in References /\ j.row \in RatingRow
             /\ j.step \in {"probe", "write", "commit"} =>
                  j.new \in Aggregate /\ j.columns \subseteq Columns /\ j.inserts \in BOOLEAN
  BY DEF RatingJob, Idle
<1>3. \A w \in RatingRow : w.target \in Targets /\ w.score \in Scores
  BY DEF RatingRow
<1>4. "total" \in Columns
  BY DEF Columns
<1> QED
  BY <1>1, <1>2, <1>3, <1>4 DEF RatingsTypeOK, Transacting, Aggregating, At, Aggregate

\* The ratings of a target are finitely many.
LEMMA RatingsCounted ==
  ASSUME NEW t
  PROVE  /\ IsFiniteSet(RatingsOf(t)) /\ Cardinality(RatingsOf(t)) \in Nat
         /\ IsFiniteSet(RatingsOf(t)') /\ Cardinality(RatingsOf(t)') \in Nat
<1>1. RatingsOf(t) \subseteq References /\ RatingsOf(t)' \subseteq References
  BY DEF RatingsOf
<1> QED
  BY <1>1, RatingsAssumption, FS_Subset, FS_CardinalityType

\* No row is taken for a reference that nobody rated.
LEMMA RowsAreRatings == \A w \in RatingRow : w # Unrated
<1>1. ASSUME NEW w \in RatingRow PROVE w # Unrated
  <2>1. /\ DOMAIN w = {"rater", "target", "score", "flagged", "hidden"}
        /\ DOMAIN Unrated = {"rater"} /\ "target" \notin {"rater"}
    BY DEF RatingRow, Unrated
  <2> QED BY <2>1
<1> QED
  BY <1>1

\* Nothing is rated or under way at first.
LEMMA RatingsInitInv == RatingsInit => RatingsInv
<1> SUFFICES ASSUME RatingsInit PROVE RatingsInv
  OBVIOUS
<1>1. RatingsTypeOK
  <2>1. NoAggregate \in Aggregate
    BY DEF NoAggregate, Aggregate
  <2>2. job \in [Slots -> RatingJob \cup {Idle}]
    BY DEF RatingsInit, AllIdle
  <2> QED BY <2>1, <2>2 DEF RatingsInit, RatingsTypeOK, ReviewDoc
<1>2. \A s \in Slots : ~Transacting(s) /\ ~Aggregating(s)
  BY DEF RatingsInit, AllIdle, Idle, Transacting, Aggregating
<1>3. ASSUME NEW t \in Targets PROVE TotalWithin(t)
  <2>1. RatingsOf(t) = {}
    BY DEF RatingsInit, RatingsOf, Rated
  <2>2. aggregate[t]["total"] = 0
    BY DEF RatingsInit, NoAggregate, Columns
  <2> QED BY <2>1, <2>2, FS_EmptySet DEF TotalWithin
<1> QED
  BY <1>1, <1>2, <1>3 DEF RatingsInv

\* Every step keeps the types of the tables and of what the handlers hold.
LEMMA RatingsTypeStep == RatingsTypeOK /\ [RatingsNext]_ratingVars => RatingsTypeOK'
<1> SUFFICES ASSUME RatingsTypeOK, [RatingsNext]_ratingVars PROVE RatingsTypeOK'
  OBVIOUS
<1>0. /\ rating \in [References -> RatingRow \cup {Unrated}]
      /\ aggregate \in [Targets -> Aggregate] /\ review \in [Reviews -> ReviewDoc]
      /\ job \in [Slots -> RatingJob \cup {Idle}]
  BY DEF RatingsTypeOK
<1>1. ASSUME NEW s \in Slots, NEW j \in RatingJob \cup {Idle}, Goto(s, j),
             UNCHANGED <<rating, aggregate, review>>
      PROVE  RatingsTypeOK'
  <2>1. job' \in [Slots -> RatingJob \cup {Idle}]
    BY <1>0, <1>1 DEF Goto
  <2> QED BY <1>0, <1>1, <2>1 DEF RatingsTypeOK
<1>2. ASSUME NEW s \in Slots, Return(s) PROVE job' \in [Slots -> RatingJob \cup {Idle}]
  BY <1>0, <1>2 DEF Return, Goto
<1>3. ASSUME NEW s \in Slots, Return(s), UNCHANGED <<rating, aggregate, review>>
      PROVE  RatingsTypeOK'
  BY <1>0, <1>2, <1>3 DEF RatingsTypeOK
<1>4. ASSUME NEW s \in Slots, NEW r \in References, NEW u \in Users, NEW t \in Targets,
             NEW score \in Scores, CheckRated(s, r, u, t, score)
      PROVE  RatingsTypeOK'
  <2> DEFINE w == [rater |-> u, target |-> t, score |-> score, flagged |-> FALSE,
                   hidden |-> FALSE]
             j == [step |-> "insert", ref |-> r, row |-> w]
  <2>1. w \in RatingRow
    BY DEF RatingRow
  <2>2. Goto(s, j) /\ UNCHANGED <<rating, aggregate, review>>
    BY <1>4 DEF CheckRated
  <2> HIDE DEF w
  <2>3. j \in RatingJob
    BY <2>1 DEF RatingJob
  <2> HIDE DEF j
  <2> QED BY <1>1, <2>2, <2>3
<1>5. ASSUME NEW s \in Slots, InsertRating(s) PROVE RatingsTypeOK'
  <2>1. CASE Return(s)
    BY <1>3, <1>5, <2>1 DEF InsertRating
  <2>2. CASE ~Return(s)
    <3> DEFINE j == [job[s] EXCEPT !.step = "aggregate"]
    <3>1. Goto(s, j) /\ UNCHANGED <<rating, aggregate, review>>
      BY <1>5, <2>2 DEF InsertRating
    <3>2. j \in RatingJob
      <4>1. ASSUME NEW i \in RatingJob \cup {Idle}, i.step = "insert"
            PROVE  [i EXCEPT !.step = "aggregate"] \in RatingJob
        BY <4>1 DEF RatingJob, Idle
      <4> QED BY <1>0, <1>5, <4>1 DEF InsertRating, At
    <3> HIDE DEF j
    <3> QED BY <1>1, <3>1, <3>2
  <2> QED BY <2>1, <2>2
<1>6. ASSUME NEW s \in Slots, ReadAggregate(s) PROVE RatingsTypeOK'
  <2> DEFINE t == job[s].row.target
             new == [aggregate[t] EXCEPT !["total"] = @ + 1, ![job[s].row.score] = @ + 1]
             cols == IF Exists(t) THEN Columns ELSE {"total", job[s].row.score}
             j == [step |-> "probe", ref |-> job[s].ref, row |-> job[s].row, new |-> new,
                   columns |-> cols, inserts |-> FALSE]
  <2>1. /\ job[s].ref \in References /\ job[s].row \in RatingRow /\ t \in Targets
        /\ job[s].row.score \in Scores
    BY <1>6, RatingsFacts DEF ReadAggregate, At, Transacting
  <2>2. Goto(s, j) /\ UNCHANGED <<rating, aggregate, review>>
    BY <1>6 DEF ReadAggregate
  <2>3. new \in Aggregate
    <3>1. aggregate[t] \in [Columns -> Nat] /\ "total" \in Columns /\ job[s].row.score \in Columns
      BY <1>0, <2>1 DEF Aggregate, Columns
    <3>2. ASSUME NEW f \in [Columns -> Nat], NEW c \in Columns, NEW d \in Columns
          PROVE  [f EXCEPT ![c] = @ + 1, ![d] = @ + 1] \in [Columns -> Nat]
      <4> DEFINE g == [f EXCEPT ![c] = @ + 1]
      <4>1. g \in [Columns -> Nat]
        OBVIOUS
      <4>2. ASSUME NEW h \in [Columns -> Nat] PROVE [h EXCEPT ![d] = @ + 1] \in [Columns -> Nat]
        OBVIOUS
      <4> QED BY <4>1, <4>2
    <3> QED BY <3>1, <3>2 DEF Aggregate
  <2>4. cols \in SUBSET Columns
    BY <2>1 DEF Columns
  <2> HIDE DEF new, cols, t
  <2>5. j \in RatingJob
    BY <2>1, <2>3, <2>4 DEF RatingJob
  <2> HIDE DEF j
  <2> QED BY <1>1, <2>2, <2>5
<1>7. ASSUME NEW s \in Slots, Probe(s) PROVE RatingsTypeOK'
  <2> DEFINE cols == {k \in job[s].columns : aggregate[job[s].row.target][k] # job[s].new[k]}
             ins  == ~Exists(job[s].row.target)
             j == [job[s] EXCEPT !.step = "write", !.columns = cols, !.inserts = ins]
  <2>1. Goto(s, j) /\ UNCHANGED <<rating, aggregate, review>>
    BY <1>7 DEF Probe
  <2>2. cols \in SUBSET Columns /\ ins \in BOOLEAN
    BY <1>7, RatingsFacts DEF Probe, At, Aggregating
  <2>3. job[s] \in RatingJob \cup {Idle} /\ job[s].step = "probe"
    BY <1>0, <1>7 DEF Probe, At
  <2> HIDE DEF cols, ins
  <2>4. ASSUME NEW i \in RatingJob \cup {Idle}, i.step = "probe"
        PROVE  [i EXCEPT !.step = "write", !.columns = cols, !.inserts = ins] \in RatingJob
    <3>1. i \in [step : {"probe", "write", "commit"}, ref : References, row : RatingRow,
                 new : Aggregate, columns : SUBSET Columns, inserts : BOOLEAN]
      BY <2>4 DEF RatingJob, Idle
    <3>2. [i EXCEPT !.step = "write", !.columns = cols, !.inserts = ins]
            \in [step : {"probe", "write", "commit"}, ref : References, row : RatingRow,
                 new : Aggregate, columns : SUBSET Columns, inserts : BOOLEAN]
      BY <2>2, <3>1
    <3> QED BY <3>2 DEF RatingJob
  <2>5. j \in RatingJob
    BY <2>3, <2>4
  <2> HIDE DEF j
  <2> QED BY <1>1, <2>1, <2>5
<1>8. ASSUME NEW s \in Slots, WriteAggregate(s) PROVE RatingsTypeOK'
  <2>1. CASE Return(s)
    BY <1>3, <1>8, <2>1 DEF WriteAggregate
  <2>2. CASE ~Return(s)
    <3> DEFINE j == [job[s] EXCEPT !.step = "commit"]
    <3>1. Goto(s, j) /\ UNCHANGED <<rating, aggregate, review>>
      BY <1>8, <2>2 DEF WriteAggregate
    <3>2. j \in RatingJob
      <4>1. ASSUME NEW i \in RatingJob \cup {Idle}, i.step = "write"
            PROVE  [i EXCEPT !.step = "commit"] \in RatingJob
        BY <4>1 DEF RatingJob, Idle
      <4> QED BY <1>0, <1>8, <4>1 DEF WriteAggregate, At
    <3> HIDE DEF j
    <3> QED BY <1>1, <3>1, <3>2
  <2> QED BY <2>1, <2>2
<1>9. ASSUME NEW s \in Slots, CommitRating(s) PROVE RatingsTypeOK'
  <2> DEFINE t == job[s].row.target
             new == [k \in Columns |-> IF k \in job[s].columns THEN job[s].new[k]
                                       ELSE aggregate[t][k]]
  <2>1. /\ job[s].ref \in References /\ job[s].row \in RatingRow /\ t \in Targets
        /\ job[s].new \in Aggregate
    BY <1>9, RatingsFacts DEF CommitRating, At, Transacting, Aggregating
  <2>2. /\ rating' = [rating EXCEPT ![job[s].ref] = job[s].row]
        /\ aggregate' = [aggregate EXCEPT ![t] = new] /\ review' = review /\ Return(s)
    BY <1>0, <1>9, <2>1 DEF CommitRating
  <2>3. new \in Aggregate
    BY <1>0, <2>1 DEF Aggregate
  <2> HIDE DEF new, t
  <2>4. rating' \in [References -> RatingRow \cup {Unrated}] /\ aggregate' \in [Targets -> Aggregate]
    BY <1>0, <2>1, <2>2, <2>3
  <2> QED BY <1>0, <1>2, <2>2, <2>4 DEF RatingsTypeOK
<1>10. ASSUME NEW s \in Slots, AbandonRating(s) PROVE RatingsTypeOK'
  BY <1>3, <1>10 DEF AbandonRating
<1>11. ASSUME NEW r \in References, Flag(r) \/ Hide(r) PROVE RatingsTypeOK'
  <2>1. rating[r] \in RatingRow
    BY <1>0, <1>11 DEF Flag, Hide, Rated
  <2>2. /\ [rating[r] EXCEPT !.flagged = TRUE] \in RatingRow
        /\ [rating[r] EXCEPT !.hidden = TRUE] \in RatingRow
    BY <2>1 DEF RatingRow
  <2>3. rating' \in [References -> RatingRow \cup {Unrated}]
    BY <1>0, <1>11, <2>2 DEF Flag, Hide
  <2> QED BY <1>0, <1>11, <2>3 DEF Flag, Hide, RatingsTypeOK
<1>12. ASSUME NEW v \in Reviews, PostReview(v) \/ Reply(v) PROVE RatingsTypeOK'
  BY <1>0, <1>12 DEF PostReview, Reply, ReviewDoc, RatingsTypeOK
<1>13. CASE UNCHANGED ratingVars
  BY <1>13 DEF ratingVars, RatingsTypeOK
<1> QED
  BY <1>4, <1>5, <1>6, <1>7, <1>8, <1>9, <1>10, <1>11, <1>12, <1>13
     DEF RatingsNext, RatingRequests, ReviewRequests

\* Handler s goes on and the tables stay as they are.
LEMMA HandlerKeepsRatings ==
  ASSUME RatingsInv, RatingsTypeOK', NEW s \in Slots, NEW j, Goto(s, j),
         UNCHANGED <<rating, aggregate>>,
         j.step \in {"aggregate", "probe", "write", "commit"} =>
           ~Rated(j.ref) /\ \A x \in Slots \ {s} : Transacting(x) => job[x].ref # j.ref,
         j.step \in {"probe", "write", "commit"} => AboutToCount(j)
  PROVE  RatingsInv'
<1>1. job'[s] = j /\ \A x \in Slots \ {s} : job'[x] = job[x]
  BY DEF Goto, RatingsInv, RatingsTypeOK
<1>2. (\A t : RatingsOf(t)' = RatingsOf(t)) /\ \A r : Rated(r)' = Rated(r)
  BY DEF RatingsOf, Rated
<1>3. \A t \in Targets : TotalWithin(t)'
  BY <1>2, Zenon DEF TotalWithin, RatingsInv
<1>4. \A x \in Slots : Transacting(x)' => ~Rated(job[x].ref)'
  BY <1>1, <1>2 DEF Transacting, RatingsInv, Rated
<1>5. \A y, x \in Slots :
        Transacting(y)' /\ Transacting(x)' /\ y # x => (job[y].ref)' # (job[x].ref)'
  BY <1>1 DEF Transacting, RatingsInv
<1>6. ASSUME NEW i, AboutToCount(i) PROVE AboutToCount(i)'
  BY <1>2, <1>6, Zenon DEF AboutToCount
<1>7. ASSUME NEW x \in Slots, Aggregating(x)' PROVE AboutToCount(job[x])'
  <2>1. PICK i : i = job'[x]
    OBVIOUS
  <2>2. AboutToCount(i)
    BY <1>1, <1>7, <2>1 DEF Aggregating, RatingsInv
  <2>3. AboutToCount(i)'
    BY <1>6, <2>2
  <2> QED BY <2>1, <2>3 DEF AboutToCount
<1> QED
  BY <1>3, <1>4, <1>5, <1>7 DEF RatingsInv

\* A handler that is left with nothing in memory.
LEMMA HandlerReturns ==
  ASSUME RatingsInv, RatingsTypeOK', NEW s \in Slots, Return(s), UNCHANGED <<rating, aggregate>>
  PROVE  RatingsInv'
<1>1. Goto(s, Idle) /\ Idle.step \notin {"aggregate", "probe", "write", "commit"}
  BY DEF Return, Idle
<1> QED
  BY <1>1, HandlerKeepsRatings

\* The steps of a transaction before it commits.
LEMMA BeforeCommit ==
  ASSUME RatingsInv, RatingsTypeOK', NEW s \in Slots,
         \/ \E r \in References, u \in Users, t \in Targets, score \in Scores :
              CheckRated(s, r, u, t, score)
         \/ InsertRating(s) \/ ReadAggregate(s) \/ Probe(s) \/ WriteAggregate(s)
         \/ AbandonRating(s)
  PROVE  RatingsInv'
<1>0. RatingsTypeOK /\ UNCHANGED <<rating, aggregate>>
  BY DEF RatingsInv, CheckRated, InsertRating, ReadAggregate, Probe, WriteAggregate, AbandonRating
<1>1. PICK i : i = job[s]
  OBVIOUS
<1>2. ASSUME NEW j, Goto(s, j), Transacting(s), j.ref = i.ref,
             j.step \in {"probe", "write", "commit"} => AboutToCount(j)
      PROVE  RatingsInv'
  <2>1. ~Rated(j.ref) /\ \A x \in Slots \ {s} : Transacting(x) => job[x].ref # j.ref
    BY <1>1, <1>2 DEF RatingsInv
  <2> QED BY <1>0, <1>2, <2>1, HandlerKeepsRatings
<1>3. ASSUME NEW r \in References, NEW u \in Users, NEW t \in Targets, NEW score \in Scores,
             CheckRated(s, r, u, t, score)
      PROVE  RatingsInv'
  <2> DEFINE j == [step |-> "insert", ref |-> r,
                   row |-> [rater |-> u, target |-> t, score |-> score,
                            flagged |-> FALSE, hidden |-> FALSE]]
  <2>1. Goto(s, j) /\ j.step = "insert"
    BY <1>3 DEF CheckRated
  <2> HIDE DEF j
  <2> QED BY <1>0, <2>1, HandlerKeepsRatings
<1>4. CASE InsertRating(s)
  <2>1. CASE Return(s)
    BY <1>0, <2>1, HandlerReturns
  <2>2. CASE ~Return(s)
    <3> DEFINE j == [i EXCEPT !.step = "aggregate"]
    <3>1. /\ Goto(s, j) /\ ~Rated(i.ref) /\ Inserting(i.ref) = {} /\ At(s, "insert")
      BY <1>1, <1>4, <2>2 DEF InsertRating
    <3>2. j.ref = i.ref /\ j.step = "aggregate"
      <4>1. i \in RatingJob /\ i.step = "insert"
        BY <1>0, <1>1, <3>1, RatingsFacts DEF At
      <4> QED BY <4>1 DEF RatingJob
    <3> HIDE DEF j
    <3>3. \A x \in Slots \ {s} : Transacting(x) => job[x].ref # j.ref
      BY <3>1, <3>2 DEF Inserting, Transacting
    <3> QED BY <1>0, <3>1, <3>2, <3>3, HandlerKeepsRatings
  <2> QED BY <2>1, <2>2
<1>5. CASE ReadAggregate(s)
  <2> DEFINE t == i.row.target
             c == i.row.score
  <2>1. PICK new : new = [aggregate[t] EXCEPT !["total"] = @ + 1, ![c] = @ + 1]
    OBVIOUS
  <2>2. PICK cols : cols = IF Exists(t) THEN Columns ELSE {"total", c}
    OBVIOUS
  <2> DEFINE j == [step |-> "probe", ref |-> i.ref, row |-> i.row, new |-> new,
                   columns |-> cols, inserts |-> FALSE]
  <2>3. Goto(s, j) /\ Transacting(s) /\ t \in Targets /\ c \in Scores
    BY <1>0, <1>1, <1>5, <2>1, <2>2, RatingsFacts DEF ReadAggregate, At, Transacting
  <2>4. new["total"] = aggregate[t]["total"] + 1
    <3>1. aggregate[t] \in [Columns -> Nat] /\ "total" \in Columns /\ c \in Columns /\ c # "total"
      BY <1>0, <2>3, RatingsAssumption DEF RatingsTypeOK, Aggregate, Columns
    <3>2. ASSUME NEW f \in [Columns -> Nat], NEW d \in Columns, d # "total"
          PROVE  [f EXCEPT !["total"] = @ + 1, ![d] = @ + 1]["total"] = f["total"] + 1
      BY <3>1, <3>2
    <3> QED BY <2>1, <3>1, <3>2
  <2>5. "total" \in cols
    BY <2>2 DEF Columns
  <2>6. /\ aggregate[t]["total"] \in Nat /\ aggregate[t]["total"] <= Cardinality(RatingsOf(t))
        /\ Cardinality(RatingsOf(t)) \in Nat
    BY <1>0, <2>3, RatingsFacts, RatingsCounted DEF RatingsInv, TotalWithin
  <2>7. AboutToCount(j)
    BY <2>4, <2>5, <2>6 DEF AboutToCount
  <2>8. j.ref = i.ref
    OBVIOUS
  <2> HIDE DEF j
  <2> QED BY <1>2, <2>3, <2>7, <2>8
<1>6. CASE Probe(s)
  <2> DEFINE t == i.row.target
  <2>1. PICK cols : cols = {k \in i.columns : aggregate[t][k] # i.new[k]}
    OBVIOUS
  <2>2. PICK ins : ins = ~Exists(t)
    OBVIOUS
  <2> DEFINE j == [i EXCEPT !.step = "write", !.columns = cols, !.inserts = ins]
  <2>3. Goto(s, j) /\ i.step = "probe" /\ Transacting(s) /\ Aggregating(s)
    BY <1>1, <1>6, <2>1, <2>2 DEF Probe, At, Transacting, Aggregating
  <2>4. /\ j.step = "write" /\ j.ref = i.ref /\ j.row = i.row /\ j.new = i.new
        /\ j.columns = cols
    <3>1. i \in RatingJob
      BY <1>0, <1>1, <2>3, RatingsFacts
    <3> QED BY <2>3, <3>1 DEF RatingJob
  <2>5. AboutToCount(i) /\ "total" \in i.columns
    BY <1>1, <2>3 DEF RatingsInv, AboutToCount
  <2>6. "total" \notin cols => aggregate[t]["total"] = i.new["total"]
    BY <2>1, <2>5
  <2> HIDE DEF j
  <2>7. AboutToCount(j)
    <3>1. "total" \notin cols => aggregate[t]["total"] # 0
      BY <2>5, <2>6 DEF AboutToCount
    <3> QED BY <2>4, <2>5, <3>1 DEF AboutToCount
  <2> QED BY <1>2, <2>3, <2>4, <2>7
<1>7. CASE WriteAggregate(s)
  <2>1. CASE Return(s)
    BY <1>0, <2>1, HandlerReturns
  <2>2. CASE ~Return(s)
    <3> DEFINE j == [i EXCEPT !.step = "commit"]
    <3>1. Goto(s, j) /\ i.step = "write" /\ Transacting(s) /\ Aggregating(s)
      BY <1>1, <1>7, <2>2 DEF WriteAggregate, At, Transacting, Aggregating
    <3>2. /\ j.step = "commit" /\ j.ref = i.ref /\ j.row = i.row /\ j.new = i.new
          /\ j.columns = i.columns
      <4>1. i \in RatingJob
        BY <1>0, <1>1, <3>1, RatingsFacts
      <4> QED BY <3>1, <4>1 DEF RatingJob
    <3>3. AboutToCount(i)
      BY <1>1, <3>1 DEF RatingsInv
    <3> HIDE DEF j
    <3>4. AboutToCount(j)
      BY <3>1, <3>2, <3>3 DEF AboutToCount
    <3> QED BY <1>2, <3>1, <3>2, <3>4
  <2> QED BY <2>1, <2>2
<1>8. CASE AbandonRating(s)
  BY <1>0, <1>8, HandlerReturns DEF AbandonRating
<1> QED
  BY <1>3, <1>4, <1>5, <1>6, <1>7, <1>8

\* The rating and its aggregate become visible at once: one rating more.
LEMMA CommitCounts ==
  ASSUME RatingsInv, RatingsTypeOK', NEW s \in Slots, CommitRating(s)
  PROVE  RatingsInv'
<1>1. PICK i : i = job[s]
  OBVIOUS
<1> DEFINE r == i.ref
           t == i.row.target
<1>2. /\ i.step = "commit" /\ Transacting(s) /\ Aggregating(s)
      /\ r \in References /\ i.row \in RatingRow /\ t \in Targets /\ i.new \in Aggregate
  BY <1>1, RatingsFacts DEF CommitRating, At, Transacting, Aggregating, RatingsInv
<1>3. /\ rating' = [rating EXCEPT ![r] = i.row]
      /\ aggregate' = [aggregate EXCEPT ![t] =
                         [k \in Columns |-> IF k \in i.columns THEN i.new[k] ELSE @[k]]]
      /\ job' = [job EXCEPT ![s] = Idle]
  BY <1>1 DEF CommitRating, Return, Goto
<1>4. /\ rating \in [References -> RatingRow \cup {Unrated}]
      /\ aggregate \in [Targets -> Aggregate] /\ DOMAIN job = Slots
  BY DEF RatingsInv, RatingsTypeOK
<1>5. ~Rated(r) /\ AboutToCount(i)
  BY <1>1, <1>2 DEF RatingsInv
<1>6. rating'[r] = i.row /\ \A q \in References \ {r} : rating'[q] = rating[q]
  BY <1>2, <1>3, <1>4
<1>7. i.row # Unrated
  BY <1>2, RowsAreRatings
<1>8. RatingsOf(t)' = RatingsOf(t) \cup {r} /\ r \notin RatingsOf(t)
  BY <1>2, <1>5, <1>6, <1>7 DEF RatingsOf, Rated
<1>9. \A q \in Targets \ {t} : RatingsOf(q)' = RatingsOf(q)
  BY <1>5, <1>6, <1>7 DEF RatingsOf, Rated
<1>10. aggregate'[t]["total"] =
         IF "total" \in i.columns THEN i.new["total"] ELSE aggregate[t]["total"]
  <2>1. "total" \in Columns
    BY DEF Columns
  <2>2. aggregate'[t] = [k \in Columns |-> IF k \in i.columns THEN i.new[k] ELSE aggregate[t][k]]
    BY <1>2, <1>3, <1>4
  <2> QED BY <2>1, <2>2
<1>11. \A q \in Targets \ {t} : aggregate'[q] = aggregate[q]
  BY <1>3, <1>4
<1> HIDE DEF r, t
<1>12. /\ Cardinality(RatingsOf(t)') = Cardinality(RatingsOf(t)) + 1
       /\ Cardinality(RatingsOf(t)) \in Nat
  <2>1. Cardinality(RatingsOf(t) \cup {r}) = Cardinality(RatingsOf(t)) + 1
    BY <1>8, RatingsCounted, FS_AddElement
  <2> QED BY <1>8, <2>1, RatingsCounted, Zenon
<1>13. \A q \in Targets \ {t} : Cardinality(RatingsOf(q)') = Cardinality(RatingsOf(q))
  BY <1>9, Zenon
<1>14. /\ aggregate[t]["total"] \in Nat /\ aggregate'[t]["total"] \in Nat
       /\ aggregate[t]["total"] <= Cardinality(RatingsOf(t))
  BY <1>2, RatingsFacts DEF RatingsInv, TotalWithin, t, RatingsTypeOK, Aggregate, Columns
<1>15. /\ aggregate'[t]["total"] # 0
       /\ aggregate'[t]["total"] <= Cardinality(RatingsOf(t)) + 1
  <2>1. /\ i.new["total"] >= 1 /\ i.new["total"] <= Cardinality(RatingsOf(t)) + 1
        /\ "total" \notin i.columns => aggregate[t]["total"] # 0
    BY <1>2, <1>5 DEF AboutToCount, t
  <2> QED BY <1>10, <1>12, <1>14, <2>1
<1>16. ASSUME NEW q \in Targets PROVE TotalWithin(q)'
  <2>1. CASE q = t
    BY <1>12, <1>15, <2>1 DEF TotalWithin
  <2>2. CASE q # t
    <3>1. TotalWithin(q) /\ aggregate'[q] = aggregate[q]
          /\ Cardinality(RatingsOf(q)') = Cardinality(RatingsOf(q))
      BY <1>11, <1>13, <2>2 DEF RatingsInv
    <3> QED BY <3>1 DEF TotalWithin
  <2> QED BY <2>1, <2>2
<1>17. job'[s] = Idle /\ \A x \in Slots \ {s} : job'[x] = job[x]
  BY <1>3, <1>4
<1>18. ASSUME NEW j, j.row.target \in Targets, AboutToCount(j), j.new["total"] \in Nat
       PROVE  AboutToCount(j)'
  <2> DEFINE q == j.row.target
  <2>1. Cardinality(RatingsOf(q)) \in Nat /\ Cardinality(RatingsOf(q)') \in Nat
        /\ Cardinality(RatingsOf(q)) <= Cardinality(RatingsOf(q)')
    <3>1. CASE q = t
      <4>1. Cardinality(RatingsOf(t)') \in Nat /\ Cardinality(RatingsOf(t)) <= Cardinality(RatingsOf(t)')
        BY <1>12
      <4> QED BY <1>12, <3>1, <4>1
    <3>2. CASE q # t
      <4>1. Cardinality(RatingsOf(q)') = Cardinality(RatingsOf(q))
        BY <1>13, <1>18, <3>2
      <4>2. Cardinality(RatingsOf(q)) \in Nat
        BY RatingsCounted
      <4> QED BY <4>1, <4>2
    <3> QED BY <3>1, <3>2
  <2>2. aggregate[q]["total"] # 0 => aggregate'[q]["total"] # 0
    BY <1>11, <1>15, <1>18
  <2>3. /\ j.new["total"] >= 1 /\ j.new["total"] <= Cardinality(RatingsOf(q)) + 1
        /\ j.step = "probe" => "total" \in j.columns
        /\ j.step # "probe" /\ "total" \notin j.columns => aggregate[q]["total"] # 0
    BY <1>18 DEF AboutToCount
  <2>4. j.new["total"] <= Cardinality(RatingsOf(q)') + 1
    BY <1>18, <2>1, <2>3
  <2> QED BY <2>2, <2>3, <2>4 DEF AboutToCount
<1>19. ASSUME NEW x \in Slots, Aggregating(x)' PROVE AboutToCount(job[x])'
  <2>1. x # s /\ job'[x] = job[x] /\ Aggregating(x)
    BY <1>17, <1>19 DEF Aggregating, Idle
  <2>2. PICK j : j = job[x]
    OBVIOUS
  <2>3. AboutToCount(j) /\ j.row.target \in Targets /\ j.new["total"] \in Nat
    BY <2>1, <2>2, RatingsFacts DEF RatingsInv, Aggregating, Transacting, Aggregate, Columns
  <2>4. AboutToCount(j)'
    BY <1>18, <2>3
  <2> QED BY <2>1, <2>2, <2>4 DEF AboutToCount
<1>20. ASSUME NEW x \in Slots, Transacting(x)' PROVE ~Rated(job[x].ref)'
  <2>1. x # s /\ job'[x] = job[x] /\ Transacting(x)
    BY <1>17, <1>20 DEF Transacting, Idle
  <2>2. job[x].ref # r /\ ~Rated(job[x].ref) /\ job[x].ref \in References
    BY <1>1, <1>2, <2>1, RatingsFacts DEF RatingsInv, r
  <2> QED BY <1>6, <2>1, <2>2 DEF Rated
<1>21. ASSUME NEW y \in Slots, NEW x \in Slots, Transacting(y)', Transacting(x)', y # x
       PROVE  job'[y].ref # job'[x].ref
  BY <1>17, <1>21 DEF Transacting, Idle, RatingsInv
<1> QED
  BY <1>16, <1>19, <1>20, <1>21 DEF RatingsInv

\* Marks on a rating that is there, and reviews.
LEMMA MarksKeepRatings ==
  ASSUME RatingsInv, RatingsTypeOK',
         \/ \E r \in References : Flag(r) \/ Hide(r)
         \/ ReviewRequests \/ UNCHANGED ratingVars
  PROVE  RatingsInv'
<1>1. UNCHANGED <<job, aggregate>>
  BY DEF Flag, Hide, ReviewRequests, PostReview, Reply, ratingVars
<1>2. \A r \in References : Rated(r)' = Rated(r) /\ (Rated(r) => rating'[r].target = rating[r].target)
  <2>1. CASE rating' = rating
    BY <2>1 DEF Rated
  <2>2. ASSUME NEW r \in References, Flag(r) \/ Hide(r)
        PROVE  \A q \in References :
                 Rated(q)' = Rated(q) /\ (Rated(q) => rating'[q].target = rating[q].target)
    <3>1. rating \in [References -> RatingRow \cup {Unrated}] /\ rating[r] \in RatingRow
      BY <2>2 DEF RatingsInv, RatingsTypeOK, Flag, Hide, Rated
    <3>2. ASSUME NEW w \in RatingRow
          PROVE  /\ [w EXCEPT !.flagged = TRUE] \in RatingRow /\ [w EXCEPT !.hidden = TRUE] \in RatingRow
                 /\ [w EXCEPT !.flagged = TRUE].target = w.target
                 /\ [w EXCEPT !.hidden = TRUE].target = w.target
      BY DEF RatingRow
    <3>3. rating'[r] \in RatingRow /\ rating'[r].target = rating[r].target
      BY <2>2, <3>1, <3>2 DEF Flag, Hide
    <3>4. \A q \in References \ {r} : rating'[q] = rating[q]
      BY <2>2, <3>1 DEF Flag, Hide
    <3> QED BY <3>1, <3>3, <3>4, RowsAreRatings DEF Rated
  <2> QED BY <2>1, <2>2 DEF ReviewRequests, PostReview, Reply, ratingVars
<1>3. \A t : RatingsOf(t)' = RatingsOf(t)
  BY <1>2 DEF RatingsOf
<1>4. \A t \in Targets : TotalWithin(t)'
  BY <1>1, <1>3, Zenon DEF TotalWithin, RatingsInv
<1>5. ASSUME NEW j, AboutToCount(j) PROVE AboutToCount(j)'
  BY <1>1, <1>3, <1>5, Zenon DEF AboutToCount
<1>6. ASSUME NEW x \in Slots, Aggregating(x)' PROVE AboutToCount(job[x])'
  <2>1. PICK j : j = job[x]
    OBVIOUS
  <2>2. AboutToCount(j)'
    BY <1>1, <1>5, <1>6, <2>1 DEF Aggregating, RatingsInv
  <2> QED BY <1>1, <2>1, <2>2 DEF AboutToCount
<1>7. ASSUME NEW x \in Slots, Transacting(x)' PROVE ~Rated(job[x].ref)'
  <2>1. ~Rated(job[x].ref) /\ job[x].ref \in References /\ job'[x] = job[x]
    BY <1>1, <1>7, RatingsFacts DEF Transacting, RatingsInv
  <2>2. Rated(job[x].ref)' = Rated(job[x].ref)
    BY <1>1, <1>2, <2>1 DEF Rated
  <2> QED BY <2>1, <2>2
<1> QED
  BY <1>1, <1>4, <1>6, <1>7 DEF RatingsInv, Transacting

\* No step leaves the invariant.
LEMMA RatingsStepInv == RatingsInv /\ [RatingsNext]_ratingVars => RatingsInv'
<1> SUFFICES ASSUME RatingsInv, [RatingsNext]_ratingVars PROVE RatingsInv'
  OBVIOUS
<1>1. RatingsTypeOK'
  BY RatingsTypeStep DEF RatingsInv
<1> QED
  BY <1>1, BeforeCommit, CommitCounts, MarksKeepRatings DEF RatingsNext, RatingRequests

\* A total of type Nat that is not zero is positive.
LEMMA RatingsInvBounds == RatingsInv => AggregateWithinRatings
<1> SUFFICES ASSUME RatingsInv, NEW t \in Targets
             PROVE  /\ aggregate[t].total <= Cardinality(RatingsOf(t))
                    /\ Cardinality(RatingsOf(t)) > 0 => aggregate[t].total > 0
  BY DEF AggregateWithinRatings
<1>1. TotalWithin(t) /\ aggregate[t]["total"] \in Nat
  BY RatingsFacts DEF RatingsInv
<1> QED
  BY <1>1 DEF TotalWithin

\* An aggregate counts no rating that is not there, and misses all of them only
\* where there is none.
THEOREM RatingsAggregateWithin == RatingsSpec => []AggregateWithinRatings
<1> QED
  BY RatingsInitInv, RatingsStepInv, RatingsInvBounds, PTL DEF RatingsSpec

-----------------------------------------------------------------------------
(* Chat: rooms and conversations that should be unique, unread counters.   *)

\* The handlers that have found no room, no conversation.
CreatingRoom         == {s \in Slots : At(s, "createRoom")}
CreatingConversation == {s \in Slots : At(s, "createConversation")}

\* The messages of the others, and those the counter of user u has yet to see.
OthersOf(r, u) == {m \in MessagesOf(r) : message[m].sender # u}
Uncounted(r, u) ==
  {s \in Slots : job[s].step \in {"preview", "bump"} /\ job[s].room = r /\ job[s].user # u}

\* A counter n of user u in room r leaves room for what has yet to be counted.
Within(n, r, u) == n + Cardinality(Uncounted(r, u)) <= Cardinality(OthersOf(r, u))

\* The counters in the rooms are within that, and so are the copies from which
\* they are about to be written.
UnreadAccountedFor ==
  \A r \in Rooms, u \in Users :
    /\ Within(room[r].unread[u], r, u)
    /\ \A s \in Slots : At(s, "bump") /\ job[s].room = r /\ job[s].user # u
                          => Within(job[s].unread[u], r, u)

ChatInv ==
  /\ ChatTypeOK
  /\ Cardinality(ActiveRooms) + Cardinality(CreatingRoom) <= Cardinality(Slots)
  /\ conversations + Cardinality(CreatingConversation) <= Cardinality(Slots)
  /\ UnreadAccountedFor

\* What the handlers' locals are made of; a message that is sent is a document.
LEMMA ChatFacts ==
  ASSUME ChatTypeOK
  PROVE  /\ job \in [Slots -> ChatJob \cup {Idle}]
         /\ \A s \in Slots :
              /\ job[s].step \in {"preview", "reset", "bump"} =>
                   job[s].room \in Rooms /\ job[s].user \in Users
              /\ At(s, "bump") => job[s].unread \in Counters
         /\ \A r \in Rooms : room[r] \in RoomDoc /\ room[r].unread \in Counters
         /\ \A m \in Messages : Sent(m) => message[m] \in MessageDoc
         /\ \A r \in Rooms : MessagesOf(r) \subseteq Messages
<1>1. \A s \in Slots : job[s] \in ChatJob \cup {Idle}
  BY DEF ChatTypeOK
<1>2. ASSUME NEW j \in ChatJob \cup {Idle}
      PROVE  /\ j.step \in {"preview", "reset", "bump"} => j.room \in Rooms /\ j.user \in Users
             /\ j.step = "bump" => j.unread \in Counters
  BY DEF ChatJob, Idle
<1>3. \A r \in Rooms : room[r] \in RoomDoc /\ room[r].unread \in Counters
  BY DEF ChatTypeOK, RoomDoc
<1>4. \A m \in Messages : Sent(m) => message[m] \in MessageDoc
  BY DEF ChatTypeOK, Sent
<1> QED
  BY <1>1, <1>2, <1>3, <1>4 DEF ChatTypeOK, At, MessagesOf

\* Every step keeps the types of the documents and of what the handlers hold.
LEMMA ChatTypeStep == ChatTypeOK /\ [ChatNext]_chatVars => ChatTypeOK'
<1> SUFFICES ASSUME ChatTypeOK, [ChatNext]_chatVars PROVE ChatTypeOK'
  OBVIOUS
<1>0. /\ room \in [Rooms -> RoomDoc] /\ message \in [Messages -> MessageDoc \cup {Unsent}]
      /\ conversations \in Nat /\ job \in [Slots -> ChatJob \cup {Idle}]
  BY DEF ChatTypeOK
<1>1. ASSUME NEW s \in Slots, NEW j \in ChatJob \cup {Idle}, Goto(s, j)
      PROVE  job' \in [Slots -> ChatJob \cup {Idle}]
  BY <1>0, <1>1 DEF Goto
<1>2. ASSUME NEW s \in Slots, Return(s) PROVE job' \in [Slots -> ChatJob \cup {Idle}]
  BY <1>1, <1>2 DEF Return
<1>3. ASSUME room' \in [Rooms -> RoomDoc], job' \in [Slots -> ChatJob \cup {Idle}],
             UNCHANGED <<message, conversations>>
      PROVE  ChatTypeOK'
  BY <1>0, <1>3 DEF ChatTypeOK
<1>4. ASSUME message' \in [Messages -> MessageDoc \cup {Unsent}],
             job' \in [Slots -> ChatJob \cup {Idle}], UNCHANGED <<room, conversations>>
      PROVE  ChatTypeOK'
  BY <1>0, <1>4 DEF ChatTypeOK
<1>5. ASSUME NEW r \in Rooms, Archive(r) PROVE ChatTypeOK'
  <2>1. room' \in [Rooms -> RoomDoc]
    BY <1>0, <1>5 DEF Archive, RoomDoc
  <2> QED BY <1>0, <1>3, <1>5, <2>1 DEF Archive
<1>6. ASSUME NEW r \in Rooms, NEW u \in Users, MarkRead(r, u) PROVE ChatTypeOK'
  <2>1. room' \in [Rooms -> RoomDoc]
    BY <1>0, <1>6 DEF MarkRead, RoomDoc, Counters
  <2> QED BY <1>0, <1>3, <1>6, <2>1 DEF MarkRead
<1>7. ASSUME NEW s \in Slots, FindRoom(s) PROVE ChatTypeOK'
  <2>1. [step |-> "createRoom"] \in ChatJob
    BY DEF ChatJob
  <2> QED BY <1>0, <1>1, <1>3, <1>7, <2>1 DEF FindRoom
<1>8. ASSUME NEW s \in Slots, NEW r \in Rooms, CreateRoom(s, r) PROVE ChatTypeOK'
  <2>1. room' \in [Rooms -> RoomDoc]
    BY <1>0, <1>8 DEF CreateRoom, RoomDoc
  <2> QED BY <1>2, <1>3, <1>8, <2>1 DEF CreateRoom
<1>9. ASSUME NEW m \in Messages, Delete(m) PROVE ChatTypeOK'
  <2>1. message[m] \in MessageDoc
    BY <1>9, ChatFacts DEF Delete
  <2>2. [message[m] EXCEPT !.deleted = TRUE] \in MessageDoc
    BY <2>1 DEF MessageDoc
  <2>3. message' \in [Messages -> MessageDoc \cup {Unsent}]
    BY <1>0, <1>9, <2>2 DEF Delete
  <2> QED BY <1>0, <1>4, <1>9, <2>3 DEF Delete
<1>10. ASSUME NEW m \in Messages, NEW u \in Users, MarkAsRead(m, u) PROVE ChatTypeOK'
  <2>1. message[m] \in MessageDoc
    BY <1>10, ChatFacts DEF MarkAsRead
  <2>2. [message[m] EXCEPT !.readBy = @ \cup {u}] \in MessageDoc
    BY <2>1 DEF MessageDoc
  <2>3. message' \in [Messages -> MessageDoc \cup {Unsent}]
    BY <1>0, <1>10, <2>2 DEF MarkAsRead
  <2> QED BY <1>0, <1>4, <1>10, <2>3 DEF MarkAsRead
<1>11. ASSUME NEW s \in Slots, NEW r \in Rooms, NEW u \in Users, NEW m \in Messages,
              Send(s, r, u, m)
       PROVE  ChatTypeOK'
  <2>1. [step |-> "preview", room |-> r, user |-> u] \in ChatJob
    BY DEF ChatJob
  <2>2. [room |-> r, sender |-> u, readBy |-> {u}, deleted |-> FALSE] \in MessageDoc
    BY DEF MessageDoc
  <2>3. message' \in [Messages -> MessageDoc \cup {Unsent}]
    BY <1>0, <1>11, <2>2 DEF Send
  <2> QED BY <1>1, <1>4, <1>11, <2>1, <2>3 DEF Send
<1>12. ASSUME NEW s \in Slots, NEW r \in Rooms, NEW u \in Users, MarkRoomAsRead(s, r, u)
       PROVE  ChatTypeOK'
  <2>1. [step |-> "reset", room |-> r, user |-> u] \in ChatJob
    BY DEF ChatJob
  <2>2. ASSUME NEW m \in MessagesOf(r)
        PROVE  [message[m] EXCEPT !.readBy = @ \cup {u}] \in MessageDoc
    <3>1. message[m] \in MessageDoc
      BY ChatFacts DEF MessagesOf
    <3> QED BY <3>1 DEF MessageDoc
  <2>3. message' \in [Messages -> MessageDoc \cup {Unsent}]
    BY <1>0, <1>12, <2>2 DEF MarkRoomAsRead
  <2> QED BY <1>1, <1>4, <1>12, <2>1, <2>3 DEF MarkRoomAsRead
<1>13. ASSUME NEW s \in Slots, ReadCounters(s) PROVE ChatTypeOK'
  <2>1. /\ job[s].room \in Rooms /\ job[s].user \in Users
        /\ room[job[s].room].unread \in Counters
    BY <1>13, ChatFacts DEF ReadCounters, At
  <2>2. [step |-> "bump", room |-> job[s].room, user |-> job[s].user,
         unread |-> room[job[s].room].unread] \in ChatJob
    BY <2>1 DEF ChatJob
  <2> QED BY <1>0, <1>1, <1>3, <1>13, <2>2 DEF ReadCounters
<1>14. ASSUME NEW s \in Slots, BumpCounters(s) PROVE ChatTypeOK'
  <2> DEFINE r == job[s].room
             f == [u \in Users |-> IF u = job[s].user THEN room[r].unread[u]
                                   ELSE job[s].unread[u] + 1]
  <2>1. r \in Rooms /\ job[s].unread \in Counters /\ room[r].unread \in Counters
    BY <1>14, ChatFacts DEF BumpCounters, At
  <2>2. f \in Counters
    BY <2>1 DEF Counters
  <2>3. room' = [room EXCEPT ![r].unread = f]
    BY <1>14 DEF BumpCounters
  <2> HIDE DEF f, r
  <2>4. room' \in [Rooms -> RoomDoc]
    BY <1>0, <2>1, <2>2, <2>3 DEF RoomDoc
  <2> QED BY <1>2, <1>3, <1>14, <2>4 DEF BumpCounters
<1>15. ASSUME NEW s \in Slots, ResetCounter(s) PROVE ChatTypeOK'
  <2>1. room' \in [Rooms -> RoomDoc]
    BY <1>0, <1>15 DEF ResetCounter, RoomDoc, Counters
  <2> QED BY <1>2, <1>3, <1>15, <2>1 DEF ResetCounter
<1>16. ASSUME NEW s \in Slots, FindConversation(s) PROVE ChatTypeOK'
  <2>1. [step |-> "createConversation"] \in ChatJob
    BY DEF ChatJob
  <2> QED BY <1>0, <1>1, <1>3, <1>16, <2>1 DEF FindConversation
<1>17. ASSUME NEW s \in Slots, CreateConversation(s) PROVE ChatTypeOK'
  BY <1>0, <1>2, <1>17 DEF CreateConversation, ChatTypeOK
<1>18. ASSUME NEW s \in Slots, AbandonChat(s) PROVE ChatTypeOK'
  BY <1>0, <1>2, <1>3, <1>18 DEF AbandonChat
<1>19. CASE UNCHANGED chatVars
  BY <1>0, <1>3, <1>19 DEF chatVars
<1> QED
  BY <1>5, <1>6, <1>7, <1>8, <1>9, <1>10, <1>11, <1>12, <1>13, <1>14, <1>15, <1>16,
     <1>17, <1>18, <1>19
     DEF ChatNext, RoomRequests, MessageRequests, ConversationRequests

\* When one handler goes on, the others are where they were.
LEMMA ChatHandlerMoves ==
  ASSUME ChatTypeOK, NEW s \in Slots, NEW j, Goto(s, j)
  PROVE  /\ job'[s] = j /\ \A x \in Slots \ {s} : job'[x] = job[x]
         /\ Cardinality(CreatingRoom') = Cardinality(CreatingRoom)
              + (IF j.step = "createRoom" THEN 1 ELSE 0) - (IF At(s, "createRoom") THEN 1 ELSE 0)
         /\ Cardinality(CreatingConversation') = Cardinality(CreatingConversation)
              + (IF j.step = "createConversation" THEN 1 ELSE 0)
              - (IF At(s, "createConversation") THEN 1 ELSE 0)
         /\ \A r \in Rooms, u \in Users :
              Cardinality(Uncounted(r, u)') = Cardinality(Uncounted(r, u))
                + (IF j.step \in {"preview", "bump"} /\ j.room = r /\ j.user # u THEN 1 ELSE 0)
                - (IF s \in Uncounted(r, u) THEN 1 ELSE 0)
<1>1. job'[s] = j /\ \A x \in Slots \ {s} : job'[x] = job[x]
  BY DEF Goto, ChatTypeOK
<1>2. IsFiniteSet(Slots)
  BY ServiceAssumption
<1>3. /\ CreatingRoom \subseteq Slots /\ CreatingRoom' \subseteq Slots
      /\ CreatingRoom \ {s} = CreatingRoom' \ {s}
      /\ s \in CreatingRoom <=> At(s, "createRoom")
      /\ s \in CreatingRoom' <=> j.step = "createRoom"
  BY <1>1 DEF CreatingRoom, At
<1>4. /\ CreatingConversation \subseteq Slots /\ CreatingConversation' \subseteq Slots
      /\ CreatingConversation \ {s} = CreatingConversation' \ {s}
      /\ s \in CreatingConversation <=> At(s, "createConversation")
      /\ s \in CreatingConversation' <=> j.step = "createConversation"
  BY <1>1 DEF CreatingConversation, At
<1>5. ASSUME NEW r \in Rooms, NEW u \in Users
      PROVE  /\ Uncounted(r, u) \subseteq Slots /\ Uncounted(r, u)' \subseteq Slots
             /\ Uncounted(r, u) \ {s} = Uncounted(r, u)' \ {s}
             /\ s \in Uncounted(r, u)'
                  <=> (j.step \in {"preview", "bump"} /\ j.room = r /\ j.user # u)
  BY <1>1 DEF Uncounted
<1>6. Cardinality(CreatingRoom') = Cardinality(CreatingRoom)
        + (IF s \in CreatingRoom' THEN 1 ELSE 0) - (IF s \in CreatingRoom THEN 1 ELSE 0)
  BY <1>2, <1>3, CountChange
<1>7. Cardinality(CreatingConversation') = Cardinality(CreatingConversation)
        + (IF s \in CreatingConversation' THEN 1 ELSE 0)
        - (IF s \in CreatingConversation THEN 1 ELSE 0)
  BY <1>2, <1>4, CountChange
<1>8. ASSUME NEW r \in Rooms, NEW u \in Users
      PROVE  Cardinality(Uncounted(r, u)') = Cardinality(Uncounted(r, u))
        + (IF s \in Uncounted(r, u)' THEN 1 ELSE 0) - (IF s \in Uncounted(r, u) THEN 1 ELSE 0)
  BY <1>2, <1>5, CountChange
<1>9. Cardinality(CreatingRoom') = Cardinality(CreatingRoom)
        + (IF j.step = "createRoom" THEN 1 ELSE 0) - (IF At(s, "createRoom") THEN 1 ELSE 0)
  BY <1>3, <1>6
<1>10. Cardinality(CreatingConversation') = Cardinality(CreatingConversation)
         + (IF j.step = "createConversation" THEN 1 ELSE 0)
         - (IF At(s, "createConversation") THEN 1 ELSE 0)
  BY <1>4, <1>7
<1>11. ASSUME NEW r \in Rooms, NEW u \in Users
       PROVE  Cardinality(Uncounted(r, u)') = Cardinality(Uncounted(r, u))
                + (IF j.step \in {"preview", "bump"} /\ j.room = r /\ j.user # u THEN 1 ELSE 0)
                - (IF s \in Uncounted(r, u) THEN 1 ELSE 0)
  BY <1>5, <1>8
<1> QED
  BY <1>1, <1>9, <1>10, <1>11

\* The sets that are counted are finite.
LEMMA ChatCounts ==
  /\ Cardinality(Slots) \in Nat
  /\ IsFiniteSet(ActiveRooms) /\ Cardinality(ActiveRooms) \in Nat
  /\ Cardinality(CreatingRoom) \in 0..Cardinality(Slots)
  /\ Cardinality(CreatingConversation) \in 0..Cardinality(Slots)
  /\ \A r \in Rooms, u \in Users : /\ Cardinality(Uncounted(r, u)) \in Nat
                                   /\ Cardinality(OthersOf(r, u)) \in Nat
<1>1. ASSUME NEW T \in SUBSET Slots PROVE Cardinality(T) \in 0..Cardinality(Slots)
  <2>1. /\ IsFiniteSet(T) /\ Cardinality(T) <= Cardinality(Slots)
        /\ Cardinality(Slots) \in Nat
    BY ServiceAssumption, FS_Subset, FS_CardinalityType
  <2>2. Cardinality(T) \in Nat
    BY <2>1, FS_CardinalityType
  <2> QED BY <2>1, <2>2
<1>2. ActiveRooms \subseteq Rooms /\ IsFiniteSet(Rooms)
  BY ChatAssumption DEF ActiveRooms
<1>3. CreatingRoom \in SUBSET Slots /\ CreatingConversation \in SUBSET Slots
  BY DEF CreatingRoom, CreatingConversation
<1>4. ASSUME NEW r \in Rooms, NEW u \in Users
      PROVE  Uncounted(r, u) \in SUBSET Slots /\ OthersOf(r, u) \in SUBSET Messages
  BY DEF Uncounted, OthersOf, MessagesOf
<1>5. IsFiniteSet(Messages)
  BY ChatAssumption, FS_Interval DEF Messages
<1>6. ASSUME NEW r \in Rooms, NEW u \in Users
      PROVE  Cardinality(Uncounted(r, u)) \in Nat /\ Cardinality(OthersOf(r, u)) \in Nat
  <2>1. Cardinality(Uncounted(r, u)) \in 0..Cardinality(Slots)
    BY <1>1, <1>4
  <2>2. IsFiniteSet(OthersOf(r, u))
    BY <1>4, <1>5, FS_Subset
  <2> QED BY <2>1, <2>2, FS_CardinalityType, ServiceAssumption
<1> QED
  BY <1>1, <1>2, <1>3, <1>6, FS_Subset, FS_CardinalityType, ServiceAssumption

\* Nothing is written or under way at first.
LEMMA ChatInitInv == ChatInit => ChatInv
<1> SUFFICES ASSUME ChatInit PROVE ChatInv
  OBVIOUS
<1>0. /\ job = [s \in Slots |-> Idle] /\ room = [r \in Rooms |-> NoRoom]
      /\ message = [m \in Messages |-> Unsent] /\ conversations = 0
  BY DEF ChatInit, AllIdle
<1>1. NoRoom \in RoomDoc
  BY DEF NoRoom, RoomDoc, Counters
<1>2. ChatTypeOK
  BY <1>0, <1>1 DEF ChatTypeOK
<1>3. ActiveRooms = {} /\ CreatingRoom = {} /\ CreatingConversation = {}
  BY <1>0 DEF ActiveRooms, CreatingRoom, CreatingConversation, NoRoom, At, Idle
<1>4. ASSUME NEW r \in Rooms, NEW u \in Users
      PROVE  Uncounted(r, u) = {} /\ room[r].unread[u] = 0
  BY <1>0, <1>4 DEF Uncounted, NoRoom, Idle
<1>5. Cardinality({}) = 0
  BY FS_EmptySet
<1>6. UnreadAccountedFor
  <2>1. ASSUME NEW r \in Rooms, NEW u \in Users PROVE Within(room[r].unread[u], r, u)
    BY <1>4, <1>5, ChatCounts DEF Within
  <2>2. \A s \in Slots : ~At(s, "bump")
    BY <1>0 DEF At, Idle
  <2> QED BY <2>1, <2>2 DEF UnreadAccountedFor
<1> QED
  BY <1>0, <1>2, <1>3, <1>5, <1>6, ChatCounts DEF ChatInv

\* A room is created for each handler that found none.
LEMMA RoomsStep ==
  ASSUME ChatInv, [ChatNext]_chatVars, ChatTypeOK'
  PROVE  Cardinality(ActiveRooms') + Cardinality(CreatingRoom') <= Cardinality(Slots)
<1> DEFINE Kept == Cardinality(ActiveRooms') + Cardinality(CreatingRoom') <= Cardinality(Slots)
<1> SUFFICES Kept
  OBVIOUS
<1>0. /\ IsFiniteSet(ActiveRooms) /\ IsFiniteSet(ActiveRooms')
      /\ Cardinality(ActiveRooms) \in Nat /\ Cardinality(ActiveRooms') \in Nat
      /\ Cardinality(CreatingRoom) \in Nat /\ Cardinality(CreatingRoom') \in Nat
      /\ Cardinality(CreatingRoom') <= Cardinality(Slots) /\ Cardinality(Slots) \in Nat
      /\ Cardinality(ActiveRooms) + Cardinality(CreatingRoom) <= Cardinality(Slots)
      /\ ChatTypeOK
  <2>1. ActiveRooms \subseteq Rooms /\ ActiveRooms' \subseteq Rooms /\ IsFiniteSet(Rooms)
    BY ChatAssumption DEF ActiveRooms
  <2>2. CreatingRoom \subseteq Slots /\ CreatingRoom' \subseteq Slots /\ IsFiniteSet(Slots)
    BY ServiceAssumption DEF CreatingRoom
  <2> QED BY <2>1, <2>2, FS_Subset, FS_CardinalityType DEF ChatInv
<1>1. ASSUME ActiveRooms' \subseteq ActiveRooms,
             Cardinality(CreatingRoom') <= Cardinality(CreatingRoom)
      PROVE  Kept
  <2>1. Cardinality(ActiveRooms') <= Cardinality(ActiveRooms)
    BY <1>0, <1>1, FS_Subset
  <2> QED BY <1>0, <1>1, <2>1
<1>2. ASSUME NEW s \in Slots, NEW j, Goto(s, j), j.step # "createRoom",
             ActiveRooms' \subseteq ActiveRooms
      PROVE  Kept
  <2>1. Cardinality(CreatingRoom') = Cardinality(CreatingRoom)
          + (IF j.step = "createRoom" THEN 1 ELSE 0) - (IF At(s, "createRoom") THEN 1 ELSE 0)
    BY <1>0, <1>2, ChatHandlerMoves
  <2> QED BY <1>0, <1>1, <1>2, <2>1
<1>3. ASSUME UNCHANGED job, ActiveRooms' \subseteq ActiveRooms
      PROVE  Kept
  <2>1. CreatingRoom' = CreatingRoom
    BY <1>3 DEF CreatingRoom, At
  <2> QED BY <1>0, <1>1, <1>3, <2>1
<1>4. ASSUME UNCHANGED room PROVE ActiveRooms' = ActiveRooms
  BY <1>4 DEF ActiveRooms
<1>5. ASSUME NEW s \in Slots, FindRoom(s)
      PROVE  Kept
  <2>1. ActiveRooms' = {}
    BY <1>4, <1>5 DEF FindRoom
  <2> QED BY <1>0, <2>1, FS_EmptySet
<1>6. ASSUME NEW s \in Slots, NEW r \in Rooms, CreateRoom(s, r)
      PROVE  Kept
  <2>1. Cardinality(CreatingRoom') = Cardinality(CreatingRoom) - 1
    <3>1. Goto(s, Idle) /\ At(s, "createRoom") /\ Idle.step # "createRoom"
      BY <1>6 DEF CreateRoom, Return, Idle
    <3>2. Cardinality(CreatingRoom') = Cardinality(CreatingRoom)
            + (IF Idle.step = "createRoom" THEN 1 ELSE 0) - (IF At(s, "createRoom") THEN 1 ELSE 0)
      BY <1>0, <3>1, ChatHandlerMoves
    <3> QED BY <1>0, <3>1, <3>2
  <2>2. ActiveRooms' = ActiveRooms \cup {r} /\ r \notin ActiveRooms
    BY <1>0, <1>6 DEF CreateRoom, ActiveRooms, IsRoom, ChatTypeOK, RoomDoc
  <2>3. Cardinality(ActiveRooms') = Cardinality(ActiveRooms) + 1
    BY <1>0, <2>2, FS_AddElement
  <2> QED BY <1>0, <2>1, <2>3
<1>7. ASSUME NEW r \in Rooms, Archive(r) \/ \E u \in Users : MarkRead(r, u)
      PROVE  Kept
  <2>1. UNCHANGED job /\ ActiveRooms' \subseteq ActiveRooms
    BY <1>0, <1>7 DEF Archive, MarkRead, ActiveRooms, ChatTypeOK, RoomDoc
  <2> QED BY <1>3, <2>1
<1>8. CASE UNCHANGED chatVars
           \/ \E m \in Messages : Delete(m) \/ \E u \in Users : MarkAsRead(m, u)
  <2>1. UNCHANGED <<job, room>>
    BY <1>8 DEF chatVars, Delete, MarkAsRead
  <2> QED BY <1>3, <1>4, <2>1
<1>9. ASSUME NEW s \in Slots, NEW r \in Rooms, NEW u \in Users, NEW m \in Messages,
             Send(s, r, u, m)
      PROVE  Kept
  <2> DEFINE j == [step |-> "preview", room |-> r, user |-> u]
  <2>1. Goto(s, j) /\ j.step # "createRoom" /\ UNCHANGED room
    BY <1>9 DEF Send
  <2> HIDE DEF j
  <2> QED BY <1>2, <1>4, <2>1
<1>10. ASSUME NEW s \in Slots, NEW r \in Rooms, NEW u \in Users, MarkRoomAsRead(s, r, u)
       PROVE  Kept
  <2> DEFINE j == [step |-> "reset", room |-> r, user |-> u]
  <2>1. Goto(s, j) /\ j.step # "createRoom" /\ UNCHANGED room
    BY <1>10 DEF MarkRoomAsRead
  <2> HIDE DEF j
  <2> QED BY <1>2, <1>4, <2>1
<1>11. ASSUME NEW s \in Slots, ReadCounters(s)
       PROVE  Kept
  <2> DEFINE j == [step |-> "bump", room |-> job[s].room, user |-> job[s].user,
                   unread |-> room[job[s].room].unread]
  <2>1. Goto(s, j) /\ j.step # "createRoom" /\ UNCHANGED room
    BY <1>11 DEF ReadCounters
  <2> HIDE DEF j
  <2> QED BY <1>2, <1>4, <2>1
<1>12. ASSUME NEW s \in Slots, BumpCounters(s) \/ ResetCounter(s)
       PROVE  Kept
  <2>1. job[s].room \in Rooms
    BY <1>0, <1>12, ChatFacts DEF BumpCounters, ResetCounter, At
  <2>2. Goto(s, Idle) /\ Idle.step # "createRoom"
    BY <1>12 DEF BumpCounters, ResetCounter, Return, Idle
  <2>3. \A q \in Rooms : room'[q].status = room[q].status
    BY <1>0, <1>12, <2>1 DEF BumpCounters, ResetCounter, ChatTypeOK, RoomDoc
  <2>4. ActiveRooms' = ActiveRooms
    BY <2>3 DEF ActiveRooms
  <2> QED BY <1>2, <2>2, <2>4
<1>13. ASSUME NEW s \in Slots, FindConversation(s)
       PROVE  Kept
  <2> DEFINE j == [step |-> "createConversation"]
  <2>1. Goto(s, j) /\ j.step # "createRoom" /\ UNCHANGED room
    BY <1>13 DEF FindConversation
  <2> HIDE DEF j
  <2> QED BY <1>2, <1>4, <2>1
<1>14. ASSUME NEW s \in Slots, CreateConversation(s) \/ AbandonChat(s)
       PROVE  Kept
  <2>1. Goto(s, Idle) /\ Idle.step # "createRoom" /\ UNCHANGED room
    BY <1>14 DEF CreateConversation, AbandonChat, Return, Idle
  <2> QED BY <1>2, <1>4, <2>1
<1> HIDE DEF Kept
<1> QED
  BY <1>5, <1>6, <1>7, <1>8, <1>9, <1>10, <1>11, <1>12, <1>13, <1>14
     DEF ChatNext, RoomRequests, MessageRequests, ConversationRequests

\* A conversation is created for each handler that found none.
LEMMA ConversationsStep ==
  ASSUME ChatInv, [ChatNext]_chatVars
  PROVE  conversations' + Cardinality(CreatingConversation') <= Cardinality(Slots)
<1> DEFINE Kept == conversations' + Cardinality(CreatingConversation') <= Cardinality(Slots)
<1> SUFFICES Kept
  OBVIOUS
<1>0. /\ conversations \in Nat /\ Cardinality(Slots) \in Nat /\ ChatTypeOK
      /\ Cardinality(CreatingConversation) \in Nat /\ Cardinality(CreatingConversation') \in Nat
      /\ Cardinality(CreatingConversation') <= Cardinality(Slots)
      /\ conversations + Cardinality(CreatingConversation) <= Cardinality(Slots)
  <2>1. /\ CreatingConversation \subseteq Slots /\ CreatingConversation' \subseteq Slots
        /\ IsFiniteSet(Slots)
    BY ServiceAssumption DEF CreatingConversation
  <2> QED BY <2>1, FS_Subset, FS_CardinalityType DEF ChatInv, ChatTypeOK
<1>1. ASSUME NEW s \in Slots, NEW j, Goto(s, j)
      PROVE  Cardinality(CreatingConversation') = Cardinality(CreatingConversation)
               + (IF j.step = "createConversation" THEN 1 ELSE 0)
               - (IF At(s, "createConversation") THEN 1 ELSE 0)
  BY <1>0, <1>1, ChatHandlerMoves
<1>2. ASSUME NEW s \in Slots, NEW j, Goto(s, j), j.step # "createConversation",
             UNCHANGED conversations
      PROVE  Kept
  BY <1>0, <1>1, <1>2
<1>3. ASSUME UNCHANGED <<job, conversations>>
      PROVE  Kept
  <2>1. CreatingConversation' = CreatingConversation
    BY <1>3 DEF CreatingConversation, At
  <2> QED BY <1>0, <1>3, <2>1
<1>4. ASSUME NEW s \in Slots, FindConversation(s)
      PROVE  Kept
  BY <1>0, <1>4 DEF FindConversation
<1>5. ASSUME NEW s \in Slots, CreateConversation(s)
      PROVE  Kept
  <2>1. /\ Goto(s, Idle) /\ Idle.step # "createConversation" /\ At(s, "createConversation")
        /\ conversations' = conversations + 1
    BY <1>5 DEF CreateConversation, Return, Idle
  <2> QED BY <1>0, <1>1, <2>1
<1>6. CASE \/ UNCHANGED chatVars
           \/ \E m \in Messages : Delete(m) \/ \E u \in Users : MarkAsRead(m, u)
           \/ \E r \in Rooms : Archive(r) \/ \E u \in Users : MarkRead(r, u)
  <2>1. UNCHANGED <<job, conversations>>
    BY <1>6 DEF chatVars, Delete, MarkAsRead, Archive, MarkRead
  <2> QED BY <1>3, <2>1
<1>7. ASSUME NEW s \in Slots,
             \/ \E r \in Rooms : CreateRoom(s, r)
             \/ BumpCounters(s) \/ ResetCounter(s) \/ AbandonChat(s)
      PROVE  Kept
  <2>1. Goto(s, Idle) /\ Idle.step # "createConversation" /\ UNCHANGED conversations
    BY <1>7 DEF CreateRoom, BumpCounters, ResetCounter, AbandonChat, Return, Idle
  <2> QED BY <1>2, <2>1
<1>8. ASSUME NEW s \in Slots, FindRoom(s)
      PROVE  Kept
  <2> DEFINE j == [step |-> "createRoom"]
  <2>1. Goto(s, j) /\ j.step # "createConversation" /\ UNCHANGED conversations
    BY <1>8 DEF FindRoom
  <2> HIDE DEF j
  <2> QED BY <1>2, <2>1
<1>9. ASSUME NEW s \in Slots, NEW r \in Rooms, NEW u \in Users, NEW m \in Messages,
             Send(s, r, u, m)
      PROVE  Kept
  <2> DEFINE j == [step |-> "preview", room |-> r, user |-> u]
  <2>1. Goto(s, j) /\ j.step # "createConversation" /\ UNCHANGED conversations
    BY <1>9 DEF Send
  <2> HIDE DEF j
  <2> QED BY <1>2, <2>1
<1>10. ASSUME NEW s \in Slots, NEW r \in Rooms, NEW u \in Users, MarkRoomAsRead(s, r, u)
       PROVE  Kept
  <2> DEFINE j == [step |-> "reset", room |-> r, user |-> u]
  <2>1. Goto(s, j) /\ j.step # "createConversation" /\ UNCHANGED conversations
    BY <1>10 DEF MarkRoomAsRead
  <2> HIDE DEF j
  <2> QED BY <1>2, <2>1
<1>11. ASSUME NEW s \in Slots, ReadCounters(s)
       PROVE  Kept
  <2> DEFINE j == [step |-> "bump", room |-> job[s].room, user |-> job[s].user,
                   unread |-> room[job[s].room].unread]
  <2>1. Goto(s, j) /\ j.step # "createConversation" /\ UNCHANGED conversations
    BY <1>11 DEF ReadCounters
  <2> HIDE DEF j
  <2> QED BY <1>2, <2>1
<1> HIDE DEF Kept
<1> QED
  BY <1>4, <1>5, <1>6, <1>7, <1>8, <1>9, <1>10, <1>11
     DEF ChatNext, RoomRequests, MessageRequests, ConversationRequests

\* Only send() changes whose messages there are.
SameMessages ==
  \A m \in Messages :
    /\ Sent(m)' = Sent(m)
    /\ Sent(m) => message'[m].room = message[m].room /\ message'[m].sender = message[m].sender

LEMMA OthersKept ==
  ASSUME SameMessages, NEW r \in Rooms, NEW u \in Users
  PROVE  OthersOf(r, u)' = OthersOf(r, u)
BY DEF SameMessages, OthersOf, MessagesOf

\* Marks on messages that were sent.
LEMMA MarksKeepMessages ==
  ASSUME ChatTypeOK,
         \/ \E m \in Messages : Delete(m) \/ \E u \in Users : MarkAsRead(m, u)
         \/ \E s \in Slots, r \in Rooms, u \in Users : MarkRoomAsRead(s, r, u)
  PROVE  SameMessages
<1>1. ASSUME NEW d \in MessageDoc, NEW u
      PROVE  /\ d # Unsent /\ [d EXCEPT !.deleted = TRUE] # Unsent
             /\ [d EXCEPT !.readBy = @ \cup {u}] # Unsent
             /\ [d EXCEPT !.deleted = TRUE].room = d.room
             /\ [d EXCEPT !.deleted = TRUE].sender = d.sender
             /\ [d EXCEPT !.readBy = @ \cup {u}].room = d.room
             /\ [d EXCEPT !.readBy = @ \cup {u}].sender = d.sender
  <2>1. /\ DOMAIN d = {"room", "sender", "readBy", "deleted"}
        /\ DOMAIN [d EXCEPT !.deleted = TRUE] = {"room", "sender", "readBy", "deleted"}
        /\ DOMAIN [d EXCEPT !.readBy = @ \cup {u}] = {"room", "sender", "readBy", "deleted"}
        /\ DOMAIN Unsent = {"deleted"}
    BY DEF MessageDoc, Unsent
  <2>2. "room" \notin {"deleted"}
    OBVIOUS
  <2>3. /\ d # Unsent /\ [d EXCEPT !.deleted = TRUE] # Unsent
        /\ [d EXCEPT !.readBy = @ \cup {u}] # Unsent
    BY <2>1, <2>2
  <2> QED BY <2>3 DEF MessageDoc
<1>2. /\ message \in [Messages -> MessageDoc \cup {Unsent}]
      /\ \A m \in Messages : Sent(m) => message[m] \in MessageDoc
  BY ChatFacts DEF ChatTypeOK
<1>3. ASSUME NEW m \in Messages, Delete(m) PROVE SameMessages
  BY <1>1, <1>2, <1>3 DEF Delete, SameMessages, Sent
<1>4. ASSUME NEW m \in Messages, NEW u \in Users, MarkAsRead(m, u) PROVE SameMessages
  BY <1>1, <1>2, <1>4 DEF MarkAsRead, SameMessages, Sent
<1>5. ASSUME NEW s \in Slots, NEW r \in Rooms, NEW u \in Users, MarkRoomAsRead(s, r, u)
      PROVE  SameMessages
  <2>1. ASSUME NEW m \in Messages
        PROVE  /\ Sent(m)' = Sent(m)
               /\ Sent(m) => message'[m].room = message[m].room
                             /\ message'[m].sender = message[m].sender
    <3>1. CASE m \in MessagesOf(r)
      <4>1. message[m] \in MessageDoc /\ Sent(m)
        BY <1>2, <3>1 DEF MessagesOf
      <4>2. message'[m] = [message[m] EXCEPT !.readBy = @ \cup {u}]
        BY <1>5, <3>1 DEF MarkRoomAsRead
      <4>3. message'[m] # Unsent /\ message[m] # Unsent
            /\ message'[m].room = message[m].room /\ message'[m].sender = message[m].sender
        <5>1. ASSUME NEW d \in MessageDoc, d = message[m]
              PROVE  /\ d # Unsent /\ message'[m] # Unsent
                     /\ message'[m].room = d.room /\ message'[m].sender = d.sender
          <6>1. message'[m] = [d EXCEPT !.readBy = @ \cup {u}]
            BY <4>2, <5>1
          <6> QED BY <1>1, <6>1
        <5> QED BY <4>1, <5>1
      <4> QED BY <4>3 DEF Sent
    <3>2. CASE m \notin MessagesOf(r)
      <4>1. message'[m] = message[m]
        BY <1>5, <3>2 DEF MarkRoomAsRead
      <4> QED BY <4>1 DEF Sent
    <3> QED BY <3>1, <3>2
  <2> QED BY <2>1 DEF SameMessages
<1> QED
  BY <1>3, <1>4, <1>5

\* A step after which no counter is higher and nothing else is under way.
LEMMA UnreadNoHigher ==
  ASSUME ChatInv, SameMessages, ChatTypeOK',
         \A r \in Rooms, u \in Users : room'[r].unread[u] <= room[r].unread[u],
         \A s \in Slots : job'[s] = job[s] \/ job'[s].step \notin {"preview", "bump"}
  PROVE  UnreadAccountedFor'
<1>1. \A r \in Rooms, u \in Users : OthersOf(r, u)' = OthersOf(r, u)
  BY OthersKept
<1>2. ASSUME NEW r \in Rooms, NEW u \in Users
      PROVE  /\ Cardinality(Uncounted(r, u)') <= Cardinality(Uncounted(r, u))
             /\ Cardinality(Uncounted(r, u)) \in Nat /\ Cardinality(Uncounted(r, u)') \in Nat
             /\ Cardinality(OthersOf(r, u)) \in Nat
  <2>1. Uncounted(r, u)' \subseteq Uncounted(r, u) /\ Uncounted(r, u) \subseteq Slots
    BY DEF Uncounted
  <2>2. IsFiniteSet(Uncounted(r, u)) /\ IsFiniteSet(Uncounted(r, u)')
    BY <2>1, ServiceAssumption, FS_Subset
  <2> QED BY <2>1, <2>2, ChatCounts, FS_Subset, FS_CardinalityType
<1>3. ASSUME NEW r \in Rooms, NEW u \in Users, NEW n \in Nat, NEW o \in Nat, n <= o,
             Within(o, r, u)
      PROVE  Within(n, r, u)'
  <2>1. Cardinality(OthersOf(r, u)') = Cardinality(OthersOf(r, u))
    BY <1>1, Zenon
  <2>2. o + Cardinality(Uncounted(r, u)) <= Cardinality(OthersOf(r, u))
    BY <1>3 DEF Within
  <2>3. n + Cardinality(Uncounted(r, u)') <= Cardinality(OthersOf(r, u)')
    BY <1>2, <1>3, <2>1, <2>2
  <2> QED BY <2>3 DEF Within
<1>4. ASSUME NEW r \in Rooms, NEW u \in Users
      PROVE  /\ Within(room[r].unread[u], r, u)'
             /\ \A s \in Slots : (At(s, "bump") /\ job[s].room = r /\ job[s].user # u)'
                                   => Within(job[s].unread[u], r, u)'
  <2>1. room[r].unread[u] \in Nat /\ room'[r].unread[u] \in Nat
    BY DEF ChatInv, ChatTypeOK, RoomDoc, Counters
  <2>2. Within(room[r].unread[u], r, u)
    BY DEF ChatInv, UnreadAccountedFor
  <2>3. Within(room[r].unread[u], r, u)'
    <3>1. room'[r].unread[u] <= room[r].unread[u]
      OBVIOUS
    <3>2. ASSUME NEW n \in Nat, n = room'[r].unread[u] PROVE Within(n, r, u)'
      BY <1>3, <2>1, <2>2, <3>1, <3>2
    <3> QED BY <2>1, <3>2 DEF Within
  <2>4. ASSUME NEW s \in Slots, (At(s, "bump") /\ job[s].room = r /\ job[s].user # u)'
        PROVE  Within(job[s].unread[u], r, u)'
    <3>1. job'[s] = job[s] /\ At(s, "bump") /\ job[s].room = r /\ job[s].user # u
      BY <2>4 DEF At
    <3>2. job[s].unread[u] \in Nat
      BY <3>1, ChatFacts DEF ChatInv, Counters
    <3>3. Within(job[s].unread[u], r, u)
      BY <3>1 DEF ChatInv, UnreadAccountedFor
    <3>4. ASSUME NEW n \in Nat, n = job[s].unread[u] PROVE Within(n, r, u)'
      BY <1>3, <3>2, <3>3, <3>4
    <3> QED BY <3>1, <3>2, <3>4 DEF Within
  <2> QED BY <2>3, <2>4
<1> QED
  BY <1>4 DEF UnreadAccountedFor

\* A message is one more for everybody else, and one more to be counted.
LEMMA SendAccounted ==
  ASSUME ChatInv, ChatTypeOK', NEW s \in Slots, NEW q \in Rooms, NEW v \in Users,
         NEW m \in Messages, Send(s, q, v, m)
  PROVE  UnreadAccountedFor'
<1> DEFINE j == [step |-> "preview", room |-> q, user |-> v]
           d == [room |-> q, sender |-> v, readBy |-> {v}, deleted |-> FALSE]
<1>1. /\ Goto(s, j) /\ IsIdle(s) /\ ~Sent(m) /\ room' = room
      /\ message' = [message EXCEPT ![m] = d]
  BY DEF Send
<1>2. d # Unsent
  <2>1. DOMAIN d = {"room", "sender", "readBy", "deleted"} /\ DOMAIN Unsent = {"deleted"}
    BY DEF Unsent
  <2>2. "room" \notin {"deleted"}
    OBVIOUS
  <2> QED BY <2>1, <2>2
<1>3. ASSUME NEW r \in Rooms, NEW u \in Users
      PROVE  /\ Cardinality(Uncounted(r, u)') = Cardinality(Uncounted(r, u))
                                                  + (IF r = q /\ u # v THEN 1 ELSE 0)
             /\ Cardinality(OthersOf(r, u)') = Cardinality(OthersOf(r, u))
                                                 + (IF r = q /\ u # v THEN 1 ELSE 0)
             /\ Cardinality(Uncounted(r, u)) \in Nat /\ Cardinality(OthersOf(r, u)) \in Nat
  <2>0. Cardinality(Uncounted(r, u)) \in Nat /\ Cardinality(OthersOf(r, u)) \in Nat
    BY ChatCounts
  <2>1. Cardinality(Uncounted(r, u)') = Cardinality(Uncounted(r, u))
          + (IF j.step \in {"preview", "bump"} /\ j.room = r /\ j.user # u THEN 1 ELSE 0)
          - (IF s \in Uncounted(r, u) THEN 1 ELSE 0)
    BY <1>1, ChatHandlerMoves DEF ChatInv
  <2>2. s \notin Uncounted(r, u)
    BY <1>1 DEF Uncounted, IsIdle
  <2>3. /\ OthersOf(r, u) \subseteq Messages /\ OthersOf(r, u)' \subseteq Messages
        /\ m \notin OthersOf(r, u)
    BY <1>1 DEF OthersOf, MessagesOf
  <2>4. DOMAIN message = Messages
    BY DEF ChatInv, ChatTypeOK
  <2>5. \A n \in Messages \ {m} : message'[n] = message[n]
    BY <1>1, <2>4
  <2>6. message'[m] = d
    BY <1>1, <2>4
  <2>7. OthersOf(r, u) \ {m} = OthersOf(r, u)' \ {m}
    BY <2>5 DEF OthersOf, MessagesOf, Sent
  <2>8. m \in OthersOf(r, u)' <=> r = q /\ u # v
    BY <1>2, <2>6 DEF OthersOf, MessagesOf, Sent
  <2>9. IsFiniteSet(Messages)
    BY ChatAssumption, FS_Interval DEF Messages
  <2>10. Cardinality(OthersOf(r, u)') = Cardinality(OthersOf(r, u))
           + (IF m \in OthersOf(r, u)' THEN 1 ELSE 0) - (IF m \in OthersOf(r, u) THEN 1 ELSE 0)
    BY <2>3, <2>7, <2>9, CountChange
  <2> QED BY <2>0, <2>1, <2>2, <2>3, <2>8, <2>10
<1>4. ASSUME NEW r \in Rooms, NEW u \in Users, NEW n \in Nat, Within(n, r, u)
      PROVE  Within(n, r, u)'
  BY <1>3, <1>4 DEF Within
<1>5. ASSUME NEW r \in Rooms, NEW u \in Users
      PROVE  /\ Within(room[r].unread[u], r, u)'
             /\ \A x \in Slots : (At(x, "bump") /\ job[x].room = r /\ job[x].user # u)'
                                   => Within(job[x].unread[u], r, u)'
  <2>1. room[r].unread[u] \in Nat /\ Within(room[r].unread[u], r, u)
    BY DEF ChatInv, ChatTypeOK, RoomDoc, Counters, UnreadAccountedFor
  <2>2. ASSUME NEW x \in Slots, (At(x, "bump") /\ job[x].room = r /\ job[x].user # u)'
        PROVE  Within(job[x].unread[u], r, u)'
    <3>1. job'[x] = job[x]
      BY <1>1, <2>2 DEF Goto, At, ChatInv, ChatTypeOK
    <3>2. job[x].unread[u] \in Nat /\ Within(job[x].unread[u], r, u)
      BY <2>2, <3>1, ChatFacts DEF ChatInv, Counters, UnreadAccountedFor, At
    <3>3. ASSUME NEW n \in Nat, n = job[x].unread[u] PROVE Within(n, r, u)'
      BY <1>4, <3>2, <3>3
    <3> QED BY <3>1, <3>2, <3>3 DEF Within
  <2>3. ASSUME NEW n \in Nat, n = room[r].unread[u] PROVE Within(n, r, u)'
    BY <1>4, <2>1, <2>3
  <2> QED BY <1>1, <2>1, <2>2, <2>3 DEF Within
<1> QED
  BY <1>5 DEF UnreadAccountedFor

\* The counters are copied: the message is still to be counted.
LEMMA ReadCountersAccounted ==
  ASSUME ChatInv, ChatTypeOK', NEW s \in Slots, ReadCounters(s)
  PROVE  UnreadAccountedFor'
<1> DEFINE q == job[s].room
           v == job[s].user
           j == [step |-> "bump", room |-> q, user |-> v, unread |-> room[q].unread]
<1>1. /\ Goto(s, j) /\ At(s, "preview") /\ room' = room /\ message' = message
      /\ q \in Rooms /\ v \in Users
  BY ChatFacts DEF ReadCounters, At, ChatInv
<1>2. job'[s] = j /\ \A x \in Slots \ {s} : job'[x] = job[x]
  BY <1>1, ChatHandlerMoves DEF ChatInv
<1>3. ASSUME NEW r \in Rooms, NEW u \in Users
      PROVE  Uncounted(r, u)' = Uncounted(r, u) /\ OthersOf(r, u)' = OthersOf(r, u)
  BY <1>1, <1>2 DEF Uncounted, OthersOf, MessagesOf, Sent, At
<1>4. ASSUME NEW r \in Rooms, NEW u \in Users, NEW n \in Nat, Within(n, r, u)
      PROVE  Within(n, r, u)'
  <2>1. Cardinality(Uncounted(r, u)') = Cardinality(Uncounted(r, u))
        /\ Cardinality(OthersOf(r, u)') = Cardinality(OthersOf(r, u))
    BY <1>3, Zenon
  <2> QED BY <1>4, <2>1 DEF Within
<1>5. ASSUME NEW r \in Rooms, NEW u \in Users
      PROVE  /\ Within(room[r].unread[u], r, u)'
             /\ \A x \in Slots : (At(x, "bump") /\ job[x].room = r /\ job[x].user # u)'
                                   => Within(job[x].unread[u], r, u)'
  <2>1. room[r].unread[u] \in Nat /\ Within(room[r].unread[u], r, u)
    BY DEF ChatInv, ChatTypeOK, RoomDoc, Counters, UnreadAccountedFor
  <2>2. ASSUME NEW n \in Nat, n = room[r].unread[u] PROVE Within(n, r, u)'
    BY <1>4, <2>1, <2>2
  <2>3. ASSUME NEW x \in Slots, (At(x, "bump") /\ job[x].room = r /\ job[x].user # u)'
        PROVE  Within(job[x].unread[u], r, u)'
    <3>1. CASE x = s
      <4>1. job'[x].unread[u] = room[r].unread[u]
        BY <1>2, <2>3, <3>1
      <4> QED BY <2>1, <2>2, <4>1 DEF Within
    <3>2. CASE x # s
      <4>1. job'[x] = job[x]
        BY <1>2, <3>2
      <4>2. job[x].unread[u] \in Nat /\ Within(job[x].unread[u], r, u)
        BY <2>3, <4>1, ChatFacts DEF ChatInv, Counters, UnreadAccountedFor, At
      <4>3. ASSUME NEW n \in Nat, n = job[x].unread[u] PROVE Within(n, r, u)'
        BY <1>4, <4>2, <4>3
      <4> QED BY <4>1, <4>2, <4>3 DEF Within
    <3> QED BY <3>1, <3>2
  <2> QED BY <1>1, <2>1, <2>2, <2>3 DEF Within
<1> QED
  BY <1>5 DEF UnreadAccountedFor

\* The counters are written back: one message less is to be counted.
LEMMA BumpCountersAccounted ==
  ASSUME ChatInv, ChatTypeOK', NEW s \in Slots, BumpCounters(s)
  PROVE  UnreadAccountedFor'
<1> DEFINE q == job[s].room
           v == job[s].user
<1>1. /\ Goto(s, Idle) /\ At(s, "bump") /\ message' = message
      /\ q \in Rooms /\ v \in Users /\ job[s].unread \in Counters
      /\ room' = [room EXCEPT ![q].unread =
                    [u \in Users |-> IF u = v THEN @[u] ELSE job[s].unread[u] + 1]]
  BY ChatFacts DEF BumpCounters, At, ChatInv, Return
<1>2. job'[s] = Idle /\ \A x \in Slots \ {s} : job'[x] = job[x]
  BY <1>1, ChatHandlerMoves DEF ChatInv
<1>3. ASSUME NEW r \in Rooms, NEW u \in Users
      PROVE  /\ Cardinality(Uncounted(r, u)') = Cardinality(Uncounted(r, u))
                                                  - (IF r = q /\ u # v THEN 1 ELSE 0)
             /\ Cardinality(OthersOf(r, u)') = Cardinality(OthersOf(r, u))
             /\ Cardinality(Uncounted(r, u)) \in Nat /\ Cardinality(OthersOf(r, u)) \in Nat
  <2>0. Cardinality(Uncounted(r, u)) \in Nat /\ Cardinality(OthersOf(r, u)) \in Nat
    BY ChatCounts
  <2>1. Cardinality(Uncounted(r, u)') = Cardinality(Uncounted(r, u))
          + (IF Idle.step \in {"preview", "bump"} /\ Idle.room = r /\ Idle.user # u THEN 1 ELSE 0)
          - (IF s \in Uncounted(r, u) THEN 1 ELSE 0)
    BY <1>1, ChatHandlerMoves DEF ChatInv
  <2>2. s \in Uncounted(r, u) <=> r = q /\ u # v
    BY <1>1 DEF Uncounted, At
  <2>3. OthersOf(r, u)' = OthersOf(r, u)
    BY <1>1 DEF OthersOf, MessagesOf, Sent
  <2>4. Cardinality(OthersOf(r, u)') = Cardinality(OthersOf(r, u))
    BY <2>3, Zenon
  <2> QED BY <2>0, <2>1, <2>2, <2>4 DEF Idle
<1>4. ASSUME NEW r \in Rooms, NEW u \in Users, NEW n \in Nat, Within(n, r, u)
      PROVE  Within(n, r, u)' /\ (r = q /\ u # v => Within(n + 1, r, u)')
  BY <1>3, <1>4 DEF Within
<1>5. ASSUME NEW r \in Rooms, NEW u \in Users
      PROVE  room'[r].unread[u] =
               IF r = q /\ u # v THEN job[s].unread[u] + 1 ELSE room[r].unread[u]
  BY <1>1 DEF ChatInv, ChatTypeOK, RoomDoc
<1>6. ASSUME NEW r \in Rooms, NEW u \in Users
      PROVE  /\ Within(room[r].unread[u], r, u)'
             /\ \A x \in Slots : (At(x, "bump") /\ job[x].room = r /\ job[x].user # u)'
                                   => Within(job[x].unread[u], r, u)'
  <2>1. room[r].unread[u] \in Nat /\ Within(room[r].unread[u], r, u)
    BY DEF ChatInv, ChatTypeOK, RoomDoc, Counters, UnreadAccountedFor
  <2>2. ASSUME NEW n \in Nat, n = room[r].unread[u] PROVE Within(n, r, u)'
    BY <1>4, <2>1, <2>2
  <2>3. Within(room[r].unread[u], r, u)'
    <3>1. CASE r = q /\ u # v
      <4>1. job[s].unread[u] \in Nat /\ Within(job[s].unread[u], r, u)
        BY <1>1, <3>1 DEF ChatInv, UnreadAccountedFor, Counters
      <4>2. ASSUME NEW n \in Nat, n = job[s].unread[u] PROVE Within(n + 1, r, u)'
        BY <1>4, <3>1, <4>1, <4>2
      <4> QED BY <1>5, <3>1, <4>1, <4>2 DEF Within
    <3>2. CASE ~(r = q /\ u # v)
      BY <1>5, <2>1, <2>2, <3>2 DEF Within
    <3> QED BY <3>1, <3>2
  <2>4. ASSUME NEW x \in Slots, (At(x, "bump") /\ job[x].room = r /\ job[x].user # u)'
        PROVE  Within(job[x].unread[u], r, u)'
    <3>1. job'[x] = job[x]
      BY <1>2, <2>4 DEF At, Idle
    <3>2. job[x].unread[u] \in Nat /\ Within(job[x].unread[u], r, u)
      BY <2>4, <3>1, ChatFacts DEF ChatInv, Counters, UnreadAccountedFor, At
    <3>3. ASSUME NEW n \in Nat, n = job[x].unread[u] PROVE Within(n, r, u)'
      BY <1>4, <3>2, <3>3
    <3> QED BY <3>1, <3>2, <3>3 DEF Within
  <2> QED BY <2>3, <2>4
<1> QED
  BY <1>6 DEF UnreadAccountedFor

\* No step leaves the counters unaccounted for.
LEMMA UnreadStep ==
  ASSUME ChatInv, [ChatNext]_chatVars, ChatTypeOK'
  PROVE  UnreadAccountedFor'
<1>0. ChatTypeOK /\ \A r \in Rooms, u \in Users : room[r].unread[u] \in Nat
  BY DEF ChatInv, ChatTypeOK, RoomDoc, Counters
<1>1. ASSUME UNCHANGED message PROVE SameMessages
  BY <1>1 DEF SameMessages, Sent
<1>2. ASSUME UNCHANGED room
      PROVE  \A r \in Rooms, u \in Users : room'[r].unread[u] <= room[r].unread[u]
  BY <1>0, <1>2
<1>3. ASSUME NEW s \in Slots, NEW j, Goto(s, j), j.step \notin {"preview", "bump"}
      PROVE  \A x \in Slots : job'[x] = job[x] \/ job'[x].step \notin {"preview", "bump"}
  BY <1>0, <1>3, ChatHandlerMoves
<1>4. ASSUME NEW r \in Rooms, Archive(r) \/ \E u \in Users : MarkRead(r, u)
      PROVE  UnreadAccountedFor'
  <2>1. /\ UNCHANGED <<job, message>>
        /\ \A q \in Rooms, u \in Users : room'[q].unread[u] <= room[q].unread[u]
    <3>1. CASE Archive(r)
      <4>1. \A q \in Rooms : room'[q].unread = room[q].unread
        BY <1>0, <3>1 DEF Archive, ChatTypeOK, RoomDoc
      <4> QED BY <1>0, <3>1, <4>1 DEF Archive
    <3>2. ASSUME NEW u \in Users, MarkRead(r, u)
          PROVE  \A q \in Rooms, w \in Users : room'[q].unread[w] <= room[q].unread[w]
      BY <1>0, <3>2 DEF MarkRead, ChatTypeOK, RoomDoc, Counters
    <3> QED BY <1>4, <3>1, <3>2 DEF MarkRead
  <2> QED BY <1>1, <2>1, UnreadNoHigher
<1>5. ASSUME NEW s \in Slots, FindRoom(s)
      PROVE  UnreadAccountedFor'
  <2> DEFINE j == [step |-> "createRoom"]
  <2>1. Goto(s, j) /\ j.step \notin {"preview", "bump"} /\ UNCHANGED <<room, message>>
    BY <1>5 DEF FindRoom
  <2> HIDE DEF j
  <2> QED BY <1>1, <1>2, <1>3, <2>1, UnreadNoHigher
<1>6. ASSUME NEW s \in Slots, NEW r \in Rooms, CreateRoom(s, r)
      PROVE  UnreadAccountedFor'
  <2>1. Goto(s, Idle) /\ Idle.step \notin {"preview", "bump"} /\ UNCHANGED message
    BY <1>6 DEF CreateRoom, Return, Idle
  <2>2. \A q \in Rooms, u \in Users : room'[q].unread[u] <= room[q].unread[u]
    BY <1>0, <1>6 DEF CreateRoom, ChatTypeOK, RoomDoc, Counters
  <2> QED BY <1>1, <1>3, <2>1, <2>2, UnreadNoHigher
<1>7. CASE \E m \in Messages : Delete(m) \/ \E u \in Users : MarkAsRead(m, u)
  <2>1. SameMessages
    BY <1>0, <1>7, MarksKeepMessages
  <2>2. UNCHANGED <<job, room>>
    BY <1>7 DEF Delete, MarkAsRead
  <2> QED BY <1>2, <2>1, <2>2, UnreadNoHigher
<1>8. ASSUME NEW s \in Slots, NEW r \in Rooms, NEW u \in Users, MarkRoomAsRead(s, r, u)
      PROVE  UnreadAccountedFor'
  <2> DEFINE j == [step |-> "reset", room |-> r, user |-> u]
  <2>1. SameMessages
    BY <1>0, <1>8, MarksKeepMessages
  <2>2. Goto(s, j) /\ j.step \notin {"preview", "bump"} /\ UNCHANGED room
    BY <1>8 DEF MarkRoomAsRead
  <2> HIDE DEF j
  <2> QED BY <1>2, <1>3, <2>1, <2>2, UnreadNoHigher
<1>9. ASSUME NEW s \in Slots, ResetCounter(s)
      PROVE  UnreadAccountedFor'
  <2>1. Goto(s, Idle) /\ Idle.step \notin {"preview", "bump"} /\ UNCHANGED message
    BY <1>9 DEF ResetCounter, Return, Idle
  <2>2. job[s].room \in Rooms /\ job[s].user \in Users
    BY <1>0, <1>9, ChatFacts DEF ResetCounter, At
  <2>3. \A q \in Rooms, u \in Users : room'[q].unread[u] <= room[q].unread[u]
    BY <1>0, <1>9, <2>2 DEF ResetCounter, ChatTypeOK, RoomDoc, Counters
  <2> QED BY <1>1, <1>3, <2>1, <2>3, UnreadNoHigher
<1>10. ASSUME NEW s \in Slots, FindConversation(s)
       PROVE  UnreadAccountedFor'
  <2> DEFINE j == [step |-> "createConversation"]
  <2>1. Goto(s, j) /\ j.step \notin {"preview", "bump"} /\ UNCHANGED <<room, message>>
    BY <1>10 DEF FindConversation
  <2> HIDE DEF j
  <2> QED BY <1>1, <1>2, <1>3, <2>1, UnreadNoHigher
<1>11. ASSUME NEW s \in Slots, CreateConversation(s) \/ AbandonChat(s)
       PROVE  UnreadAccountedFor'
  <2>1. Goto(s, Idle) /\ Idle.step \notin {"preview", "bump"} /\ UNCHANGED <<room, message>>
    BY <1>11 DEF CreateConversation, AbandonChat, Return, Idle
  <2> QED BY <1>1, <1>2, <1>3, <2>1, UnreadNoHigher
<1>12. CASE UNCHANGED chatVars
  <2>1. UNCHANGED <<job, room, message>>
    BY <1>12 DEF chatVars
  <2> QED BY <1>1, <1>2, <2>1, UnreadNoHigher
<1> QED
  BY <1>4, <1>5, <1>6, <1>7, <1>8, <1>9, <1>10, <1>11, <1>12,
     SendAccounted, ReadCountersAccounted, BumpCountersAccounted
     DEF ChatNext, RoomRequests, MessageRequests, ConversationRequests

\* No step leaves the invariant.
LEMMA ChatStepInv == ChatInv /\ [ChatNext]_chatVars => ChatInv'
<1> SUFFICES ASSUME ChatInv, [ChatNext]_chatVars PROVE ChatInv'
  OBVIOUS
<1>1. ChatTypeOK'
  BY ChatTypeStep DEF ChatInv
<1>2. /\ Cardinality(ActiveRooms') + Cardinality(CreatingRoom') <= Cardinality(Slots)
      /\ conversations' + Cardinality(CreatingConversation') <= Cardinality(Slots)
      /\ UnreadAccountedFor'
  BY <1>1, RoomsStep, ConversationsStep, UnreadStep
<1> QED
  BY <1>1, <1>2 DEF ChatInv

\* What is under way is not negative.
LEMMA ChatInvBounds == ChatInv => RoomsWithinOverlap /\ UnreadWithinMessages
<1> SUFFICES ASSUME ChatInv PROVE RoomsWithinOverlap /\ UnreadWithinMessages
  OBVIOUS
<1>1. RoomsWithinOverlap
  BY ChatCounts DEF ChatInv, ChatTypeOK, RoomsWithinOverlap
<1>2. ASSUME NEW r \in Rooms, NEW u \in Users
      PROVE  room[r].unread[u] <= Cardinality(OthersOf(r, u))
  <2>1. Within(room[r].unread[u], r, u) /\ room[r].unread[u] \in Nat
    BY DEF ChatInv, UnreadAccountedFor, ChatTypeOK, RoomDoc, Counters
  <2> QED BY <2>1, ChatCounts DEF Within
<1> QED
  BY <1>1, <1>2 DEF UnreadWithinMessages, OthersOf

\* A reference has no more active rooms, and a group no more conversations, than
\* handlers can be under way at once.
THEOREM ChatRoomsOverlap == ChatSpec => []RoomsWithinOverlap
<1>1. ChatInv => RoomsWithinOverlap
  BY ChatInvBounds
<1> QED
  BY <1>1, ChatInitInv, ChatStepInv, PTL DEF ChatSpec

\* An unread counter never exceeds the messages the others of the room sent.
THEOREM ChatUnreadWithinMessages == ChatSpec => []UnreadWithinMessages
<1>1. ChatInv => UnreadWithinMessages
  BY ChatInvBounds
<1> QED
  BY <1>1, ChatInitInv, ChatStepInv, PTL DEF ChatSpec

-----------------------------------------------------------------------------
(* User records: rows that should be unique.                               *)

\* The handlers that have looked and not written yet: a default address, a
\* registration, a document.
SavingDefault  == {s \in Slots : job[s].step \in {"insert", "update"}}
Registering(k) == {s \in Slots : At(s, "register") /\ job[s].kind = k}
Uploading      == {s \in Slots : At(s, "upload")}

\* Whoever begins finds no row (or clears it), so the rows there are and those
\* under way have all begun since: no more than handlers at once.
UserInv ==
  /\ UserTypeOK
  /\ Cardinality(Defaults) + Cardinality(SavingDefault) <= Cardinality(Slots)
  /\ \A k \in Kinds :
       /\ licensed[k].status = "absent" => licensed[k].saves = 0
       /\ licensed[k].saves + Cardinality(Registering(k)) <= Cardinality(Slots)
  /\ document.rows + Cardinality(Uploading) <= Cardinality(Slots)

\* Nothing is written or under way at first.
LEMMA UserInitInv == UserInit => UserInv
<1> SUFFICES ASSUME UserInit PROVE UserInv
  OBVIOUS
<1>1. /\ Defaults = {} /\ SavingDefault = {} /\ Uploading = {}
      /\ \A k \in Kinds : Registering(k) = {}
  BY DEF UserInit, AllIdle, Idle, Defaults, SavingDefault, Uploading, Registering, At
<1>2. Cardinality({}) = 0 /\ Cardinality(Slots) \in Nat
  BY FS_EmptySet, FS_CardinalityType, ServiceAssumption
<1>3. UserTypeOK
  <2>1. 0 \in 0..MaxWrites
    BY UserRecordsAssumption
  <2>2. Unregistered \in DriverProfile /\ Unregistered \in MerchantProfile
        /\ [rows |-> 0, verified |-> FALSE] \in Documents
    BY <2>1 DEF Unregistered, DriverProfile, MerchantProfile, Documents
  <2>3. job \in [Slots -> UserJob \cup {Idle}]
    BY DEF UserInit, AllIdle
  <2> QED BY <2>2, <2>3 DEF UserInit, UserTypeOK, AddressRow, Kinds
<1>4. Cardinality(Defaults) + Cardinality(SavingDefault) <= Cardinality(Slots)
  BY <1>1, <1>2
<1>5. document.rows + Cardinality(Uploading) <= Cardinality(Slots)
  BY <1>1, <1>2 DEF UserInit
<1>6. ASSUME NEW k \in Kinds
      PROVE  licensed[k].saves = 0 /\ Cardinality(Registering(k)) = 0
  BY <1>1, <1>2 DEF UserInit, Unregistered
<1> QED
  BY <1>2, <1>3, <1>4, <1>5, <1>6 DEF UserInv

\* What the rows and the handlers' locals are made of.
LEMMA UserFacts ==
  ASSUME UserTypeOK
  PROVE  /\ job \in [Slots -> UserJob \cup {Idle}]
         /\ \A s \in Slots :
              /\ job[s].step \in {"insert", "update"} => job[s].address \in Addresses
              /\ At(s, "register") => job[s].kind \in Kinds
              /\ At(s, "online") => job[s].value \in BOOLEAN
         /\ \A k \in Kinds : /\ licensed[k].saves \in Nat
                             /\ licensed[k].status \in {"absent", "PENDING", "APPROVED", "REJECTED"}
         /\ document.rows \in Nat /\ document.verified \in BOOLEAN
         /\ Cardinality(Slots) \in Nat
<1>1. \A s \in Slots : job[s] \in UserJob \cup {Idle}
  BY DEF UserTypeOK
<1>2. ASSUME NEW j \in UserJob \cup {Idle}
      PROVE  /\ j.step \in {"insert", "update"} => j.address \in Addresses
             /\ j.step = "register" => j.kind \in Kinds
             /\ j.step = "online" => j.value \in BOOLEAN
  BY DEF UserJob, Idle
<1>3. Cardinality(Slots) \in Nat
  BY FS_CardinalityType, ServiceAssumption
<1>4. MaxWrites \in Nat
  BY UserRecordsAssumption
<1> QED
  BY <1>1, <1>2, <1>3, <1>4 DEF UserTypeOK, At, DriverProfile, Documents

\* When one handler goes on, the others are where they were.
LEMMA UserHandlerMoves ==
  ASSUME UserTypeOK, NEW s \in Slots, NEW j, Goto(s, j)
  PROVE  /\ job'[s] = j
         /\ Cardinality(SavingDefault') = Cardinality(SavingDefault)
              + (IF j.step \in {"insert", "update"} THEN 1 ELSE 0)
              - (IF job[s].step \in {"insert", "update"} THEN 1 ELSE 0)
         /\ \A k \in Kinds : Cardinality(Registering(k)') = Cardinality(Registering(k))
              + (IF j.step = "register" /\ j.kind = k THEN 1 ELSE 0)
              - (IF At(s, "register") /\ job[s].kind = k THEN 1 ELSE 0)
         /\ Cardinality(Uploading') = Cardinality(Uploading)
              + (IF j.step = "upload" THEN 1 ELSE 0) - (IF At(s, "upload") THEN 1 ELSE 0)
<1>1. job'[s] = j /\ \A x \in Slots \ {s} : job'[x] = job[x]
  BY DEF Goto, UserTypeOK
<1>2. IsFiniteSet(Slots)
  BY ServiceAssumption
<1>3. /\ SavingDefault \subseteq Slots /\ SavingDefault' \subseteq Slots
      /\ SavingDefault \ {s} = SavingDefault' \ {s}
      /\ s \in SavingDefault <=> job[s].step \in {"insert", "update"}
      /\ s \in SavingDefault' <=> j.step \in {"insert", "update"}
  BY <1>1 DEF SavingDefault
<1>4. ASSUME NEW k \in Kinds
      PROVE  /\ Registering(k) \subseteq Slots /\ Registering(k)' \subseteq Slots
             /\ Registering(k) \ {s} = Registering(k)' \ {s}
             /\ s \in Registering(k) <=> At(s, "register") /\ job[s].kind = k
             /\ s \in Registering(k)' <=> j.step = "register" /\ j.kind = k
  BY <1>1 DEF Registering, At
<1>5. /\ Uploading \subseteq Slots /\ Uploading' \subseteq Slots
      /\ Uploading \ {s} = Uploading' \ {s}
      /\ s \in Uploading <=> At(s, "upload")
      /\ s \in Uploading' <=> j.step = "upload"
  BY <1>1 DEF Uploading, At
<1>6. Cardinality(SavingDefault') = Cardinality(SavingDefault)
        + (IF s \in SavingDefault' THEN 1 ELSE 0) - (IF s \in SavingDefault THEN 1 ELSE 0)
  BY <1>2, <1>3, CountChange
<1>7. ASSUME NEW k \in Kinds
      PROVE  Cardinality(Registering(k)') = Cardinality(Registering(k))
        + (IF s \in Registering(k)' THEN 1 ELSE 0) - (IF s \in Registering(k) THEN 1 ELSE 0)
  BY <1>2, <1>4, CountChange
<1>8. Cardinality(Uploading') = Cardinality(Uploading)
        + (IF s \in Uploading' THEN 1 ELSE 0) - (IF s \in Uploading THEN 1 ELSE 0)
  BY <1>2, <1>5, CountChange
<1>9. Cardinality(SavingDefault') = Cardinality(SavingDefault)
        + (IF j.step \in {"insert", "update"} THEN 1 ELSE 0)
        - (IF job[s].step \in {"insert", "update"} THEN 1 ELSE 0)
  BY <1>3, <1>6
<1>10. ASSUME NEW k \in Kinds
       PROVE  Cardinality(Registering(k)') = Cardinality(Registering(k))
                + (IF j.step = "register" /\ j.kind = k THEN 1 ELSE 0)
                - (IF At(s, "register") /\ job[s].kind = k THEN 1 ELSE 0)
  BY <1>4, <1>7
<1>11. Cardinality(Uploading') = Cardinality(Uploading)
         + (IF j.step = "upload" THEN 1 ELSE 0) - (IF At(s, "upload") THEN 1 ELSE 0)
  BY <1>5, <1>8
<1> QED
  BY <1>1, <1>9, <1>10, <1>11

\* Every step keeps the types of the rows and of what the handlers hold.
LEMMA UserTypeStep == UserTypeOK /\ [UserNext]_userVars => UserTypeOK'
<1> SUFFICES ASSUME UserTypeOK, [UserNext]_userVars PROVE UserTypeOK'
  OBVIOUS
<1>0. /\ address \in [Addresses -> AddressRow] /\ profile \in BOOLEAN
      /\ licensed \in [Kinds -> DriverProfile] /\ licensed["merchant"] \in MerchantProfile
      /\ document \in Documents /\ job \in [Slots -> UserJob \cup {Idle}]
      /\ {"driver", "merchant"} = Kinds
  BY DEF UserTypeOK, Kinds
<1>1. ASSUME NEW s \in Slots, NEW j \in UserJob \cup {Idle}, Goto(s, j)
      PROVE  job' \in [Slots -> UserJob \cup {Idle}]
  BY <1>0, <1>1 DEF Goto
<1>2. ASSUME NEW s \in Slots, Return(s) PROVE job' \in [Slots -> UserJob \cup {Idle}]
  BY <1>1, <1>2 DEF Return
<1>3. ASSUME address' \in [Addresses -> AddressRow], job' \in [Slots -> UserJob \cup {Idle}],
             UNCHANGED <<profile, licensed, document>>
      PROVE  UserTypeOK'
  BY <1>0, <1>3 DEF UserTypeOK
<1>4. ASSUME licensed' \in [Kinds -> DriverProfile], licensed'["merchant"] \in MerchantProfile,
             job' \in [Slots -> UserJob \cup {Idle}], UNCHANGED <<profile, address, document>>
      PROVE  UserTypeOK'
  BY <1>0, <1>4 DEF UserTypeOK
<1>5. ASSUME document' \in Documents, job' \in [Slots -> UserJob \cup {Idle}],
             UNCHANGED <<profile, address, licensed>>
      PROVE  UserTypeOK'
  BY <1>0, <1>5 DEF UserTypeOK
<1>6. ASSUME NEW a \in Addresses, AddAddress(a) \/ Undefault(a) \/ DeleteAddress(a)
      PROVE  UserTypeOK'
  <2>1. address' \in [Addresses -> AddressRow]
    BY <1>0, <1>6 DEF AddAddress, Undefault, DeleteAddress, AddressRow
  <2> QED BY <1>0, <1>3, <1>6, <2>1 DEF AddAddress, Undefault, DeleteAddress
<1>7. ASSUME NEW s \in Slots, NEW a \in Addresses, NEW st \in {"insert", "update"},
             ClearDefaults(s, a, st)
      PROVE  UserTypeOK'
  <2>1. [step |-> st, address |-> a] \in UserJob
    BY DEF UserJob
  <2>2. address' \in [Addresses -> AddressRow]
    BY <1>0, <1>7 DEF ClearDefaults, Cleared, AddressRow
  <2> QED BY <1>1, <1>3, <1>7, <2>1, <2>2 DEF ClearDefaults
<1>8. ASSUME NEW s \in Slots, SaveDefault(s) PROVE UserTypeOK'
  <2>1. address' \in [Addresses -> AddressRow]
    BY <1>0, <1>8 DEF SaveDefault, AddressRow
  <2> QED BY <1>2, <1>3, <1>8, <2>1 DEF SaveDefault
<1>9. CASE SaveProfile \/ DeleteProfile
  BY <1>0, <1>9 DEF SaveProfile, DeleteProfile, UserTypeOK
<1>10. ASSUME NEW s \in Slots, NEW k \in Kinds, RegisterLicense(s, k) PROVE UserTypeOK'
  <2>1. [step |-> "register", kind |-> k] \in UserJob
    BY DEF UserJob
  <2> QED BY <1>0, <1>1, <1>3, <1>10, <2>1 DEF RegisterLicense
<1>11. ASSUME NEW s \in Slots, SaveRegistration(s) PROVE UserTypeOK'
  <2> DEFINE k == job[s].kind
  <2>1. k \in Kinds
    BY <1>11, UserFacts DEF SaveRegistration
  <2> HIDE DEF k
  <2>2. ASSUME NEW p \in DriverProfile, p.saves < MaxWrites,
               NEW q, q = [p EXCEPT !.saves = @ + 1,
                             !.status = IF @ = "absent" THEN "PENDING" ELSE @]
        PROVE  q \in DriverProfile /\ q.online = p.online
    <3>1. p.saves + 1 \in 0..MaxWrites
      BY <2>2, UserRecordsAssumption DEF DriverProfile
    <3> QED BY <2>2, <3>1 DEF DriverProfile
  <2>3. CASE licensed' = licensed
    BY <1>0, <1>2, <1>4, <1>11, <2>3 DEF SaveRegistration
  <2>4. CASE licensed' # licensed
    <3> DEFINE q == [licensed[k] EXCEPT !.saves = @ + 1,
                       !.status = IF @ = "absent" THEN "PENDING" ELSE @]
    <3>1. licensed[k].saves < MaxWrites /\ licensed' = [licensed EXCEPT ![k] = q]
      BY <1>0, <1>11, <2>1, <2>4 DEF SaveRegistration, k
    <3>2. q \in DriverProfile /\ q.online = licensed[k].online
      BY <1>0, <2>1, <2>2, <3>1
    <3> HIDE DEF q
    <3>3. licensed' \in [Kinds -> DriverProfile]
      BY <1>0, <2>1, <3>1, <3>2
    <3>4. licensed'["merchant"] \in MerchantProfile
      BY <1>0, <2>1, <3>1, <3>2 DEF MerchantProfile
    <3> QED BY <1>2, <1>4, <1>11, <3>3, <3>4 DEF SaveRegistration
  <2> QED BY <2>3, <2>4
<1>12. ASSUME NEW k \in Kinds, NEW st \in {"APPROVED", "REJECTED"}, Verify(k, st)
       PROVE  UserTypeOK'
  <2> DEFINE q == [licensed[k] EXCEPT !.status = st]
  <2>1. licensed' = [licensed EXCEPT ![k] = q] /\ UNCHANGED <<job, address, profile, document>>
    BY <1>0, <1>12 DEF Verify
  <2>2. q \in DriverProfile /\ q.online = licensed[k].online
    BY <1>0 DEF DriverProfile
  <2> HIDE DEF q
  <2>3. licensed' \in [Kinds -> DriverProfile]
    BY <1>0, <2>1, <2>2
  <2>4. licensed'["merchant"] \in MerchantProfile
    BY <1>0, <2>1, <2>2 DEF MerchantProfile
  <2> QED BY <1>0, <1>4, <2>1, <2>3, <2>4
<1>13. ASSUME NEW s \in Slots, NEW v \in BOOLEAN, SetOnline(s, v) PROVE UserTypeOK'
  <2>1. [step |-> "online", value |-> v] \in UserJob
    BY DEF UserJob
  <2> QED BY <1>0, <1>1, <1>3, <1>13, <2>1 DEF SetOnline
<1>14. ASSUME NEW s \in Slots, WriteOnline(s) PROVE UserTypeOK'
  <2> DEFINE q == [licensed["driver"] EXCEPT !.online = job[s].value]
  <2>1. /\ licensed' = [licensed EXCEPT !["driver"] = q] /\ Return(s)
        /\ UNCHANGED <<address, profile, document>>
    BY <1>0, <1>14 DEF WriteOnline
  <2>2. q \in DriverProfile
    <3>1. job[s].value \in BOOLEAN /\ licensed["driver"] \in DriverProfile
      BY <1>0, <1>14, UserFacts DEF WriteOnline
    <3> QED BY <3>1 DEF DriverProfile
  <2> HIDE DEF q
  <2>3. licensed' \in [Kinds -> DriverProfile] /\ licensed'["merchant"] = licensed["merchant"]
    BY <1>0, <2>1, <2>2
  <2> QED BY <1>0, <1>2, <1>4, <2>1, <2>3
<1>15. ASSUME NEW s \in Slots, Upload(s) PROVE UserTypeOK'
  <2>1. [step |-> IF document.rows = 0 THEN "upload" ELSE "probe"] \in UserJob
    BY DEF UserJob
  <2> QED BY <1>0, <1>1, <1>3, <1>15, <2>1 DEF Upload
<1>16. ASSUME NEW s \in Slots, InsertDocument(s) PROVE UserTypeOK'
  <2>1. document.rows + 1 \in 0..MaxWrites
    BY <1>0, <1>16, UserRecordsAssumption DEF InsertDocument, Documents
  <2>2. document' \in Documents
    BY <1>0, <1>16, <2>1 DEF InsertDocument, Documents
  <2> QED BY <1>2, <1>5, <1>16, <2>2 DEF InsertDocument
<1>17. ASSUME NEW s \in Slots, ProbeDocument(s) PROVE UserTypeOK'
  <2>1. [step |-> "replace", unverify |-> document.verified] \in UserJob
    BY <1>0 DEF UserJob, Documents
  <2> QED BY <1>0, <1>1, <1>3, <1>17, <2>1 DEF ProbeDocument
<1>18. ASSUME NEW s \in Slots, ReplaceDocument(s) PROVE UserTypeOK'
  <2>1. document' \in Documents
    BY <1>0, <1>18, Zenon DEF ReplaceDocument, Documents
  <2> QED BY <1>2, <1>5, <1>18, <2>1 DEF ReplaceDocument
<1>19. CASE VerifyDocument
  <2>1. document' \in Documents
    BY <1>0, <1>19 DEF VerifyDocument, Documents
  <2> QED BY <1>0, <1>5, <1>19, <2>1 DEF VerifyDocument
<1>20. ASSUME NEW s \in Slots, AbandonUser(s) PROVE UserTypeOK'
  BY <1>0, <1>2, <1>3, <1>20 DEF AbandonUser
<1>21. CASE UNCHANGED userVars
  BY <1>0, <1>3, <1>21 DEF userVars
<1>22. CASE ApproveDriver \/ RejectDriver \/ ApproveMerchant \/ RejectMerchant
  BY <1>0, <1>12, <1>22 DEF ApproveDriver, RejectDriver, ApproveMerchant, RejectMerchant
<1> QED
  BY <1>6, <1>7, <1>8, <1>9, <1>10, <1>11, <1>13, <1>14, <1>15, <1>16, <1>17, <1>18,
     <1>19, <1>20, <1>21, <1>22
     DEF UserNext, AddressRequests, ProfileRequests, VerificationRequests

\* The default addresses and those about to be: clearing leaves only handlers
\* that save one, and each saves at most one.
LEMMA DefaultsStep ==
  ASSUME UserInv, UserTypeOK', [UserNext]_userVars
  PROVE  Cardinality(Defaults') + Cardinality(SavingDefault') <= Cardinality(Slots)
<1> USE DEF UserInv
<1>0. /\ IsFiniteSet(Defaults) /\ IsFiniteSet(Defaults')
      /\ Cardinality(Defaults) \in Nat /\ Cardinality(Defaults') \in Nat
      /\ Cardinality(SavingDefault) \in Nat /\ Cardinality(SavingDefault') \in Nat
      /\ Cardinality(SavingDefault') <= Cardinality(Slots)
  <2>1. Defaults \subseteq Addresses /\ Defaults' \subseteq Addresses /\ IsFiniteSet(Addresses)
    BY UserRecordsAssumption DEF Defaults
  <2>2. SavingDefault \subseteq Slots /\ SavingDefault' \subseteq Slots /\ IsFiniteSet(Slots)
    BY ServiceAssumption DEF SavingDefault
  <2> QED BY <2>1, <2>2, FS_Subset, FS_CardinalityType
<1>1. Cardinality(Slots) \in Nat
  BY UserFacts
<1>2. ASSUME Defaults' \subseteq Defaults,
             Cardinality(SavingDefault') <= Cardinality(SavingDefault)
      PROVE  Cardinality(Defaults') + Cardinality(SavingDefault') <= Cardinality(Slots)
  <2>1. Cardinality(Defaults') <= Cardinality(Defaults)
    BY <1>0, <1>2, FS_Subset
  <2> QED BY <1>0, <1>1, <1>2, <2>1
<1>3. ASSUME NEW s \in Slots, NEW j, Goto(s, j), j.step \notin {"insert", "update"},
             UNCHANGED address
      PROVE  Cardinality(Defaults') + Cardinality(SavingDefault') <= Cardinality(Slots)
  <2>1. Cardinality(SavingDefault') <= Cardinality(SavingDefault)
    <3>1. Cardinality(SavingDefault') = Cardinality(SavingDefault)
            + (IF j.step \in {"insert", "update"} THEN 1 ELSE 0)
            - (IF job[s].step \in {"insert", "update"} THEN 1 ELSE 0)
      BY <1>3, UserHandlerMoves
    <3> QED BY <1>0, <1>3, <3>1
  <2>2. Defaults' \subseteq Defaults
    BY <1>3 DEF Defaults
  <2> QED BY <1>2, <2>1, <2>2
<1>4. ASSUME UNCHANGED job, Defaults' \subseteq Defaults
      PROVE  Cardinality(Defaults') + Cardinality(SavingDefault') <= Cardinality(Slots)
  BY <1>0, <1>2, <1>4 DEF SavingDefault
<1>5. ASSUME NEW s \in Slots, NEW a \in Addresses, NEW st \in {"insert", "update"},
             ClearDefaults(s, a, st)
      PROVE  Cardinality(Defaults') + Cardinality(SavingDefault') <= Cardinality(Slots)
  <2>1. Defaults' = {}
    BY <1>5 DEF ClearDefaults, Cleared, Defaults, UserTypeOK, AddressRow
  <2> QED BY <1>0, <1>1, <2>1, FS_EmptySet
<1>6. ASSUME NEW s \in Slots, SaveDefault(s)
      PROVE  Cardinality(Defaults') + Cardinality(SavingDefault') <= Cardinality(Slots)
  <2> DEFINE a == job[s].address
  <2>1. Cardinality(SavingDefault') = Cardinality(SavingDefault) - 1
    <3>1. Goto(s, Idle) /\ job[s].step \in {"insert", "update"}
      BY <1>6 DEF SaveDefault, Return
    <3>2. Cardinality(SavingDefault') = Cardinality(SavingDefault)
            + (IF Idle.step \in {"insert", "update"} THEN 1 ELSE 0)
            - (IF job[s].step \in {"insert", "update"} THEN 1 ELSE 0)
      BY <3>1, UserHandlerMoves
    <3> QED BY <1>0, <3>1, <3>2 DEF Idle
  <2>2. Defaults' \subseteq Defaults \cup {a}
    BY <1>6 DEF SaveDefault, Defaults, UserTypeOK
  <2>3. /\ IsFiniteSet(Defaults \cup {a})
        /\ Cardinality(Defaults \cup {a}) <= Cardinality(Defaults) + 1
        /\ Cardinality(Defaults \cup {a}) \in Nat
    <3>1. IsFiniteSet(Defaults \cup {a}) /\ Cardinality(Defaults \cup {a}) \in Nat
      BY <1>0, FS_AddElement, FS_CardinalityType
    <3>2. CASE a \in Defaults
      <4>1. Defaults \cup {a} = Defaults
        BY <3>2
      <4>2. Cardinality(Defaults \cup {a}) = Cardinality(Defaults)
        BY <4>1, Zenon
      <4> QED BY <1>0, <3>1, <4>2
    <3>3. CASE a \notin Defaults
      BY <1>0, <3>1, <3>3, FS_AddElement
    <3> QED BY <3>2, <3>3
  <2>4. Cardinality(Defaults') <= Cardinality(Defaults \cup {a})
    BY <2>2, <2>3, FS_Subset
  <2> QED BY <1>0, <1>1, <2>1, <2>3, <2>4
<1>7. ASSUME NEW a \in Addresses, AddAddress(a) \/ Undefault(a) \/ DeleteAddress(a)
      PROVE  Cardinality(Defaults') + Cardinality(SavingDefault') <= Cardinality(Slots)
  <2>1. UNCHANGED job /\ Defaults' \subseteq Defaults
    BY <1>7 DEF AddAddress, Undefault, DeleteAddress, Defaults, UserTypeOK
  <2> QED BY <1>4, <2>1
<1>8. CASE SaveProfile \/ DeleteProfile \/ VerifyDocument \/ UNCHANGED userVars
           \/ ApproveDriver \/ RejectDriver \/ ApproveMerchant \/ RejectMerchant
  <2>1. UNCHANGED <<job, address>>
    BY <1>8 DEF SaveProfile, DeleteProfile, VerifyDocument, userVars, ApproveDriver,
      RejectDriver, ApproveMerchant, RejectMerchant, Verify
  <2>2. Defaults' = Defaults
    BY <2>1 DEF Defaults
  <2> QED BY <1>4, <2>1, <2>2
<1>9. ASSUME NEW s \in Slots,
             \/ SaveRegistration(s) \/ WriteOnline(s) \/ InsertDocument(s)
             \/ ReplaceDocument(s) \/ AbandonUser(s)
      PROVE  Cardinality(Defaults') + Cardinality(SavingDefault') <= Cardinality(Slots)
  <2>1. Goto(s, Idle) /\ UNCHANGED address
    BY <1>9 DEF SaveRegistration, WriteOnline, InsertDocument, ReplaceDocument, AbandonUser,
      Return
  <2>2. Idle.step \notin {"insert", "update"}
    BY DEF Idle
  <2> QED BY <1>3, <2>1, <2>2
<1>10. ASSUME NEW s \in Slots, Upload(s)
       PROVE  Cardinality(Defaults') + Cardinality(SavingDefault') <= Cardinality(Slots)
  <2> DEFINE j == [step |-> IF document.rows = 0 THEN "upload" ELSE "probe"]
  <2>1. Goto(s, j) /\ UNCHANGED address /\ j.step \notin {"insert", "update"}
    BY <1>10 DEF Upload
  <2> QED BY <1>3, <2>1
<1>11. ASSUME NEW s \in Slots, ProbeDocument(s)
       PROVE  Cardinality(Defaults') + Cardinality(SavingDefault') <= Cardinality(Slots)
  <2> DEFINE j == [step |-> "replace", unverify |-> document.verified]
  <2>1. Goto(s, j) /\ UNCHANGED address /\ j.step \notin {"insert", "update"}
    BY <1>11 DEF ProbeDocument
  <2> QED BY <1>3, <2>1
<1>12. ASSUME NEW s \in Slots, NEW k \in Kinds, RegisterLicense(s, k)
       PROVE  Cardinality(Defaults') + Cardinality(SavingDefault') <= Cardinality(Slots)
  <2> DEFINE j == [step |-> "register", kind |-> k]
  <2>1. Goto(s, j) /\ UNCHANGED address /\ j.step \notin {"insert", "update"}
    BY <1>12 DEF RegisterLicense
  <2> QED BY <1>3, <2>1
<1>13. ASSUME NEW s \in Slots, NEW v \in BOOLEAN, SetOnline(s, v)
       PROVE  Cardinality(Defaults') + Cardinality(SavingDefault') <= Cardinality(Slots)
  <2> DEFINE j == [step |-> "online", value |-> v]
  <2>1. Goto(s, j) /\ UNCHANGED address /\ j.step \notin {"insert", "update"}
    BY <1>13 DEF SetOnline
  <2> QED BY <1>3, <2>1
<1> QED
  BY <1>5, <1>6, <1>7, <1>8, <1>9, <1>10, <1>11, <1>12, <1>13
     DEF UserNext, AddressRequests, ProfileRequests, VerificationRequests

\* The registrations: whoever registered saw none, and each saves once.
LEMMA LicensesStep ==
  ASSUME UserInv, UserTypeOK', [UserNext]_userVars, NEW k \in Kinds
  PROVE  /\ licensed'[k].status = "absent" => licensed'[k].saves = 0
         /\ licensed'[k].saves + Cardinality(Registering(k)') <= Cardinality(Slots)
<1> DEFINE Kept == /\ licensed'[k].status = "absent" => licensed'[k].saves = 0
                   /\ licensed'[k].saves + Cardinality(Registering(k)') <= Cardinality(Slots)
<1> SUFFICES Kept
  OBVIOUS
<1>0. /\ licensed[k].saves \in Nat /\ licensed'[k].saves \in Nat
      /\ Cardinality(Registering(k)) \in Nat /\ Cardinality(Registering(k)') \in Nat
      /\ Cardinality(Registering(k)') <= Cardinality(Slots) /\ Cardinality(Slots) \in Nat
      /\ licensed[k].status = "absent" => licensed[k].saves = 0
      /\ licensed[k].saves + Cardinality(Registering(k)) <= Cardinality(Slots)
  <2>1. Registering(k) \subseteq Slots /\ Registering(k)' \subseteq Slots /\ IsFiniteSet(Slots)
    BY ServiceAssumption DEF Registering
  <2>2. licensed[k].saves \in Nat /\ licensed'[k].saves \in Nat
    BY UserRecordsAssumption DEF UserInv, UserTypeOK, DriverProfile
  <2> QED BY <2>1, <2>2, FS_Subset, FS_CardinalityType DEF UserInv
<1>t. UserTypeOK /\ licensed \in [Kinds -> DriverProfile]
  BY DEF UserInv, UserTypeOK
<1>1. ASSUME licensed'[k].saves = licensed[k].saves,
             licensed'[k].status = "absent" => licensed[k].status = "absent",
             Cardinality(Registering(k)') <= Cardinality(Registering(k))
      PROVE  Kept
  BY <1>0, <1>1
<1>2. ASSUME NEW s \in Slots, NEW j, Goto(s, j)
      PROVE  Cardinality(Registering(k)') = Cardinality(Registering(k))
               + (IF j.step = "register" /\ j.kind = k THEN 1 ELSE 0)
               - (IF At(s, "register") /\ job[s].kind = k THEN 1 ELSE 0)
  BY <1>t, <1>2, UserHandlerMoves
<1>3. ASSUME NEW s \in Slots, NEW j, Goto(s, j), j.step # "register",
             licensed'[k].saves = licensed[k].saves,
             licensed'[k].status = "absent" => licensed[k].status = "absent"
      PROVE  Kept
  <2>1. Cardinality(Registering(k)') <= Cardinality(Registering(k))
    BY <1>0, <1>2, <1>3
  <2> QED BY <1>1, <1>3, <2>1
<1>4. ASSUME UNCHANGED job, licensed'[k].saves = licensed[k].saves,
             licensed'[k].status = "absent" => licensed[k].status = "absent"
      PROVE  Kept
  <2>1. Registering(k)' = Registering(k)
    BY <1>4 DEF Registering, At
  <2> QED BY <1>0, <1>1, <1>4, <2>1
<1>5. ASSUME NEW s \in Slots, NEW c \in Kinds, RegisterLicense(s, c)
      PROVE  Kept
  <2>1. CASE c = k
    <3>1. licensed[k].status = "absent" /\ licensed' = licensed
      BY <1>5, <2>1 DEF RegisterLicense
    <3> QED BY <1>0, <3>1
  <2>2. CASE c # k
    <3> DEFINE j == [step |-> "register", kind |-> c]
    <3>1. Goto(s, j) /\ j.kind # k /\ licensed' = licensed
      BY <1>5, <2>2 DEF RegisterLicense
    <3> HIDE DEF j
    <3>2. Cardinality(Registering(k)') <= Cardinality(Registering(k))
      BY <1>0, <1>2, <3>1
    <3> QED BY <1>1, <3>1, <3>2
  <2> QED BY <2>1, <2>2
<1>6. ASSUME NEW s \in Slots, SaveRegistration(s)
      PROVE  Kept
  <2> DEFINE c == job[s].kind
  <2>0. At(s, "register") /\ Goto(s, Idle) /\ Idle.step # "register" /\ c \in Kinds
    BY <1>6, <1>t, UserFacts DEF SaveRegistration, Return, Idle
  <2>1. \/ licensed' = licensed
        \/ licensed' = [licensed EXCEPT ![c].saves = @ + 1,
                          ![c].status = IF @ = "absent" THEN "PENDING" ELSE @]
    BY <1>6 DEF SaveRegistration
  <2> HIDE DEF c
  <2>2. CASE licensed' = licensed
    BY <1>3, <2>0, <2>2
  <2>3. CASE licensed' # licensed
    <3>1. CASE c # k
      <4>1. licensed'[k] = licensed[k]
        BY <1>t, <2>0, <2>1, <2>3, <3>1
      <4> QED BY <1>3, <2>0, <4>1
    <3>2. CASE c = k
      <4>1. licensed'[k].saves = licensed[k].saves + 1
            /\ licensed'[k].status # "absent"
        <5>1. licensed[k] \in DriverProfile
              /\ licensed'[k] = [licensed[k] EXCEPT !.saves = @ + 1,
                          !.status = IF @ = "absent" THEN "PENDING" ELSE @]
          BY <1>t, <2>1, <2>3, <3>2
        <5> QED BY <5>1 DEF DriverProfile
      <4>2. Cardinality(Registering(k)') = Cardinality(Registering(k)) - 1
        <5>1. job[s].kind = k
          BY <3>2 DEF c
        <5>2. Cardinality(Registering(k)') = Cardinality(Registering(k))
               + (IF Idle.step = "register" /\ Idle.kind = k THEN 1 ELSE 0)
               - (IF At(s, "register") /\ job[s].kind = k THEN 1 ELSE 0)
          BY <1>2, <2>0
        <5> QED BY <1>0, <2>0, <5>1, <5>2
      <4> QED BY <1>0, <4>1, <4>2
    <3> QED BY <3>1, <3>2
  <2> QED BY <2>2, <2>3
<1>7. ASSUME NEW c \in Kinds, NEW st \in {"APPROVED", "REJECTED"}, Verify(c, st)
      PROVE  Kept
  <2>1. licensed'[k].saves = licensed[k].saves /\ licensed'[k].status \in {licensed[k].status, st}
    <3>1. licensed[k] \in DriverProfile
          /\ licensed'[k] \in {licensed[k], [licensed[k] EXCEPT !.status = st]}
      BY <1>7, <1>t DEF Verify
    <3> QED BY <3>1 DEF DriverProfile
  <2> QED BY <1>4, <1>7, <2>1 DEF Verify
<1>8. ASSUME NEW s \in Slots, WriteOnline(s)
      PROVE  Kept
  <2>1. licensed'[k].saves = licensed[k].saves /\ licensed'[k].status = licensed[k].status
    <3>1. licensed[k] \in DriverProfile
          /\ licensed'[k] \in {licensed[k], [licensed[k] EXCEPT !.online = job[s].value]}
      BY <1>8, <1>t DEF WriteOnline, Kinds
    <3> QED BY <3>1 DEF DriverProfile
  <2>2. Goto(s, Idle) /\ Idle.step # "register"
    BY <1>8 DEF WriteOnline, Return, Idle
  <2> QED BY <1>3, <2>1, <2>2
<1>9. CASE SaveProfile \/ DeleteProfile \/ VerifyDocument \/ UNCHANGED userVars
           \/ \E a \in Addresses : AddAddress(a) \/ Undefault(a) \/ DeleteAddress(a)
  <2>1. UNCHANGED <<job, licensed>>
    BY <1>9 DEF SaveProfile, DeleteProfile, VerifyDocument, userVars, AddAddress, Undefault,
      DeleteAddress
  <2> QED BY <1>4, <2>1
<1>10. ASSUME NEW s \in Slots,
              SaveDefault(s) \/ InsertDocument(s) \/ ReplaceDocument(s) \/ AbandonUser(s)
       PROVE  Kept
  <2>1. Goto(s, Idle) /\ UNCHANGED licensed /\ Idle.step # "register"
    BY <1>10 DEF SaveDefault, InsertDocument, ReplaceDocument, AbandonUser, Return, Idle
  <2> QED BY <1>3, <2>1
<1>11. ASSUME NEW s \in Slots, Upload(s)
       PROVE  Kept
  <2> DEFINE j == [step |-> IF document.rows = 0 THEN "upload" ELSE "probe"]
  <2>1. Goto(s, j) /\ UNCHANGED licensed /\ j.step # "register"
    BY <1>11 DEF Upload
  <2> HIDE DEF j
  <2> QED BY <1>3, <2>1
<1>12. ASSUME NEW s \in Slots, ProbeDocument(s)
       PROVE  Kept
  <2> DEFINE j == [step |-> "replace", unverify |-> document.verified]
  <2>1. Goto(s, j) /\ UNCHANGED licensed /\ j.step # "register"
    BY <1>12 DEF ProbeDocument
  <2> HIDE DEF j
  <2> QED BY <1>3, <2>1
<1>13. ASSUME NEW s \in Slots, NEW v \in BOOLEAN, SetOnline(s, v)
       PROVE  Kept
  <2> DEFINE j == [step |-> "online", value |-> v]
  <2>1. Goto(s, j) /\ UNCHANGED licensed /\ j.step # "register"
    BY <1>13 DEF SetOnline
  <2> HIDE DEF j
  <2> QED BY <1>3, <2>1
<1>14. ASSUME NEW s \in Slots, NEW a \in Addresses, NEW st \in {"insert", "update"},
              ClearDefaults(s, a, st)
       PROVE  Kept
  <2> DEFINE j == [step |-> st, address |-> a]
  <2>1. Goto(s, j) /\ UNCHANGED licensed /\ j.step # "register"
    BY <1>14 DEF ClearDefaults
  <2> HIDE DEF j
  <2> QED BY <1>3, <2>1
<1>15. CASE ApproveDriver \/ RejectDriver \/ ApproveMerchant \/ RejectMerchant
  BY <1>7, <1>15 DEF ApproveDriver, RejectDriver, ApproveMerchant, RejectMerchant, Kinds
<1> HIDE DEF Kept
<1> QED
  BY <1>5, <1>6, <1>8, <1>9, <1>10, <1>11, <1>12, <1>13, <1>14, <1>15
     DEF UserNext, AddressRequests, ProfileRequests, VerificationRequests

\* The documents: whoever uploads saw none, and each inserts once.
LEMMA DocumentsStep ==
  ASSUME UserInv, UserTypeOK', [UserNext]_userVars
  PROVE  document'.rows + Cardinality(Uploading') <= Cardinality(Slots)
<1> DEFINE Kept == document'.rows + Cardinality(Uploading') <= Cardinality(Slots)
<1> SUFFICES Kept
  OBVIOUS
<1>0. /\ document.rows \in Nat /\ document'.rows \in Nat
      /\ Cardinality(Uploading) \in Nat /\ Cardinality(Uploading') \in Nat
      /\ Cardinality(Uploading') <= Cardinality(Slots) /\ Cardinality(Slots) \in Nat
      /\ document.rows + Cardinality(Uploading) <= Cardinality(Slots)
  <2>1. Uploading \subseteq Slots /\ Uploading' \subseteq Slots /\ IsFiniteSet(Slots)
    BY ServiceAssumption DEF Uploading
  <2>2. document.rows \in Nat /\ document'.rows \in Nat
    BY UserRecordsAssumption DEF UserInv, UserTypeOK, Documents
  <2> QED BY <2>1, <2>2, FS_Subset, FS_CardinalityType DEF UserInv
<1>t. UserTypeOK /\ document \in Documents
  BY DEF UserInv, UserTypeOK
<1>1. ASSUME NEW s \in Slots, NEW j, Goto(s, j)
      PROVE  Cardinality(Uploading') = Cardinality(Uploading)
               + (IF j.step = "upload" THEN 1 ELSE 0) - (IF At(s, "upload") THEN 1 ELSE 0)
  BY <1>t, <1>1, UserHandlerMoves
<1>2. ASSUME NEW s \in Slots, NEW j, Goto(s, j), j.step # "upload", document'.rows = document.rows
      PROVE  Kept
  BY <1>0, <1>1, <1>2
<1>3. ASSUME UNCHANGED job, document'.rows = document.rows
      PROVE  Kept
  <2>1. Uploading' = Uploading
    BY <1>3 DEF Uploading, At
  <2> QED BY <1>0, <1>3, <2>1
<1>4. ASSUME NEW s \in Slots, Upload(s)
      PROVE  Kept
  <2>1. CASE document.rows = 0
    BY <1>0, <1>4, <2>1 DEF Upload
  <2>2. CASE document.rows # 0
    <3> DEFINE j == [step |-> "probe"]
    <3>1. Goto(s, j) /\ j.step # "upload" /\ document' = document
      BY <1>4, <2>2 DEF Upload
    <3> HIDE DEF j
    <3> QED BY <1>2, <3>1
  <2> QED BY <2>1, <2>2
<1>5. ASSUME NEW s \in Slots, InsertDocument(s)
      PROVE  Kept
  <2>1. Goto(s, Idle) /\ Idle.step # "upload" /\ At(s, "upload")
        /\ document'.rows = document.rows + 1
    BY <1>5, <1>t DEF InsertDocument, Return, Idle, Documents
  <2> QED BY <1>0, <1>1, <2>1
<1>6. ASSUME NEW s \in Slots, ReplaceDocument(s)
      PROVE  Kept
  <2>1. Goto(s, Idle) /\ Idle.step # "upload" /\ document'.rows = document.rows
    BY <1>6, <1>t DEF ReplaceDocument, Return, Idle, Documents
  <2> QED BY <1>2, <2>1
<1>7. CASE VerifyDocument
  <2>1. UNCHANGED job /\ document'.rows = document.rows
    BY <1>7, <1>t DEF VerifyDocument, Documents
  <2> QED BY <1>3, <2>1
<1>8. CASE \/ SaveProfile \/ DeleteProfile \/ UNCHANGED userVars
           \/ ApproveDriver \/ RejectDriver \/ ApproveMerchant \/ RejectMerchant
           \/ \E a \in Addresses : AddAddress(a) \/ Undefault(a) \/ DeleteAddress(a)
  <2>1. UNCHANGED <<job, document>>
    BY <1>8 DEF SaveProfile, DeleteProfile, userVars, AddAddress, Undefault, DeleteAddress,
      ApproveDriver, RejectDriver, ApproveMerchant, RejectMerchant, Verify
  <2> QED BY <1>3, <2>1
<1>9. ASSUME NEW s \in Slots,
             SaveDefault(s) \/ SaveRegistration(s) \/ WriteOnline(s) \/ AbandonUser(s)
      PROVE  Kept
  <2>1. Goto(s, Idle) /\ UNCHANGED document /\ Idle.step # "upload"
    BY <1>9 DEF SaveDefault, SaveRegistration, WriteOnline, AbandonUser, Return, Idle
  <2> QED BY <1>2, <2>1
<1>10. ASSUME NEW s \in Slots, ProbeDocument(s)
       PROVE  Kept
  <2> DEFINE j == [step |-> "replace", unverify |-> document.verified]
  <2>1. Goto(s, j) /\ UNCHANGED document /\ j.step # "upload"
    BY <1>10 DEF ProbeDocument
  <2> HIDE DEF j
  <2> QED BY <1>2, <2>1
<1>11. ASSUME NEW s \in Slots, NEW v \in BOOLEAN, SetOnline(s, v)
       PROVE  Kept
  <2> DEFINE j == [step |-> "online", value |-> v]
  <2>1. Goto(s, j) /\ UNCHANGED document /\ j.step # "upload"
    BY <1>11 DEF SetOnline
  <2> HIDE DEF j
  <2> QED BY <1>2, <2>1
<1>12. ASSUME NEW s \in Slots, NEW a \in Addresses, NEW st \in {"insert", "update"},
              ClearDefaults(s, a, st)
       PROVE  Kept
  <2> DEFINE j == [step |-> st, address |-> a]
  <2>1. Goto(s, j) /\ UNCHANGED document /\ j.step # "upload"
    BY <1>12 DEF ClearDefaults
  <2> HIDE DEF j
  <2> QED BY <1>2, <2>1
<1>13. ASSUME NEW s \in Slots, NEW k \in Kinds, RegisterLicense(s, k)
       PROVE  Kept
  <2> DEFINE j == [step |-> "register", kind |-> k]
  <2>1. Goto(s, j) /\ UNCHANGED document /\ j.step # "upload"
    BY <1>13 DEF RegisterLicense
  <2> HIDE DEF j
  <2> QED BY <1>2, <2>1
<1> HIDE DEF Kept
<1> QED
  BY <1>4, <1>5, <1>6, <1>7, <1>8, <1>9, <1>10, <1>11, <1>12, <1>13
     DEF UserNext, AddressRequests, ProfileRequests, VerificationRequests

\* No step leaves the invariant.
LEMMA UserStepInv == UserInv /\ [UserNext]_userVars => UserInv'
<1> SUFFICES ASSUME UserInv, [UserNext]_userVars PROVE UserInv'
  OBVIOUS
<1>1. UserTypeOK'
  BY UserTypeStep DEF UserInv
<1>2. Cardinality(Defaults') + Cardinality(SavingDefault') <= Cardinality(Slots)
  BY <1>1, DefaultsStep
<1>3. document'.rows + Cardinality(Uploading') <= Cardinality(Slots)
  BY <1>1, DocumentsStep
<1>4. \A k \in Kinds :
        /\ licensed'[k].status = "absent" => licensed'[k].saves = 0
        /\ licensed'[k].saves + Cardinality(Registering(k)') <= Cardinality(Slots)
  BY <1>1, LicensesStep
<1> QED
  BY <1>1, <1>2, <1>3, <1>4 DEF UserInv

\* What is under way is not negative.
LEMMA UserInvBounds == UserInv => UserRowsWithinOverlap
<1> SUFFICES ASSUME UserInv PROVE UserRowsWithinOverlap
  OBVIOUS
<1>1. ASSUME NEW S \in SUBSET Slots PROVE Cardinality(S) \in Nat
  BY ServiceAssumption, FS_Subset, FS_CardinalityType
<1>2. /\ SavingDefault \in SUBSET Slots /\ Uploading \in SUBSET Slots
      /\ \A k \in Kinds : Registering(k) \in SUBSET Slots
  BY DEF SavingDefault, Uploading, Registering
<1>3. IsFiniteSet(Defaults) /\ Cardinality(Defaults) \in Nat
  BY UserRecordsAssumption, FS_Subset, FS_CardinalityType DEF Defaults
<1>4. /\ \A k \in Kinds : licensed[k].saves \in Nat
      /\ document.rows \in Nat /\ Cardinality(Slots) \in Nat
  BY UserFacts DEF UserInv
<1> QED
  BY <1>1, <1>2, <1>3, <1>4 DEF UserInv, UserRowsWithinOverlap

\* However requests overlap, a user has no more default addresses, registrations
\* of a kind and documents of a type than handlers can be under way at once.
THEOREM UserRowsOverlap == UserSpec => []UserRowsWithinOverlap
<1> QED
  BY UserInitInv, UserStepInv, UserInvBounds, PTL DEF UserSpec

-----------------------------------------------------------------------------
(* Menus: what a menu shows that is read while merchants write.            *)

\* A menu under way shows an item nobody has touched since exactly if its
\* category is one of those already queried.
ShownSoFar(j, i) ==
  i \in j.touched \/
    j.shown[i] = IF IsItem(i) /\ item[i].available /\ item[i].category \in j.listed \ j.left
                 THEN 1 ELSE 0

MenusInv ==
  /\ MenusTypeOK
  /\ \A s \in Slots : At(s, "items") =>
       job[s].left \subseteq job[s].listed /\ \A i \in Items : ShownSoFar(job[s], i)

\* No menu is read in an empty restaurant.
LEMMA MenusInitInv == MenusInit => MenusInv
<1> SUFFICES ASSUME MenusInit PROVE MenusInv
  OBVIOUS
<1>1. job \in [Slots -> TreeJob \cup {Idle}] /\ \A s \in Slots : job[s].step = "idle"
  BY DEF MenusInit, AllIdle, Idle
<1> QED
  BY <1>1 DEF MenusInit, MenusInv, MenusTypeOK, At, RestaurantRow, CategoryRow

\* The locals of a menu being read are those of TreeJob.
LEMMA TreeJobFields ==
  ASSUME NEW j \in TreeJob
  PROVE  /\ j.step = "items" /\ j.left \subseteq Categories /\ j.listed \subseteq Categories
         /\ j.shown \in [Items -> Nat] /\ j.touched \subseteq Items
BY DEF TreeJob

\* A write to an item is remembered by the menus under way and says nothing of
\* any other item.
LEMMA TouchInv ==
  ASSUME MenusInv, NEW i \in Items, Touch(i), UNCHANGED <<restaurant, category>>,
         item' \in [Items -> ItemRow \cup {NoItem}],
         \A k \in Items \ {i} : item'[k] = item[k]
  PROVE  MenusInv'
<1>0. /\ MenusTypeOK /\ job \in [Slots -> TreeJob \cup {Idle}]
      /\ \A s \in Slots : At(s, "items") =>
           job[s].left \subseteq job[s].listed /\ \A k \in Items : ShownSoFar(job[s], k)
  BY DEF MenusInv, MenusTypeOK
<1>1. ASSUME NEW s \in Slots
      PROVE  \/ job[s] = Idle /\ job'[s] = Idle
             \/ job[s] \in TreeJob /\ job'[s] = [job[s] EXCEPT !.touched = @ \cup {i}]
  BY <1>0 DEF Touch, IsIdle, Idle, TreeJob
<1>2. ASSUME NEW j \in TreeJob
      PROVE  LET jj == [j EXCEPT !.touched = @ \cup {i}]
             IN /\ jj \in TreeJob /\ jj.left = j.left /\ jj.listed = j.listed
                /\ jj.shown = j.shown /\ jj.touched = j.touched \cup {i}
  BY DEF TreeJob
<1>3. job' \in [Slots -> TreeJob \cup {Idle}]
  <2>1. job' = [s \in Slots |-> job'[s]]
    BY DEF Touch
  <2>2. \A s \in Slots : job'[s] \in TreeJob \cup {Idle}
    BY <1>1, <1>2
  <2> QED BY <2>1, <2>2
<1>4. ASSUME NEW s \in Slots, At(s, "items")'
      PROVE  job'[s].left \subseteq job'[s].listed
             /\ \A k \in Items : ShownSoFar(job[s], k)'
  <2>1. /\ job[s] \in TreeJob
        /\ job'[s].left = job[s].left /\ job'[s].listed = job[s].listed
        /\ job'[s].shown = job[s].shown /\ job'[s].touched = job[s].touched \cup {i}
    <3>1. job'[s] # Idle
      BY <1>4 DEF At, Idle
    <3>2. job[s] \in TreeJob /\ job'[s] = [job[s] EXCEPT !.touched = @ \cup {i}]
      BY <1>1, <3>1
    <3> QED BY <1>2, <3>2
  <2>2. job[s].left \subseteq job[s].listed /\ \A k \in Items : ShownSoFar(job[s], k)
    BY <1>0, <2>1, TreeJobFields DEF At
  <2>3. ASSUME NEW k \in Items PROVE ShownSoFar(job[s], k)'
    <3>1. CASE k = i
      BY <2>1, <3>1 DEF ShownSoFar
    <3>2. CASE k # i
      <4>1. item'[k] = item[k] /\ ShownSoFar(job[s], k)
        BY <2>2, <3>2
      <4> QED BY <2>1, <4>1 DEF ShownSoFar, IsItem
    <3> QED BY <3>1, <3>2
  <2> QED BY <2>1, <2>2, <2>3
<1>5. MenusTypeOK'
  BY <1>0, <1>3 DEF MenusTypeOK
<1> QED
  BY <1>4, <1>5 DEF MenusInv

\* Every step keeps what the menus under way show true to the items.
LEMMA MenusStepInv == MenusInv /\ [MenusNext]_menuVars => MenusInv'
<1> SUFFICES ASSUME MenusInv, [MenusNext]_menuVars PROVE MenusInv'
  OBVIOUS
<1>0. /\ MenusTypeOK /\ job \in [Slots -> TreeJob \cup {Idle}]
      /\ item \in [Items -> ItemRow \cup {NoItem}]
      /\ category \in [Categories -> CategoryRow] /\ restaurant \in RestaurantRow
      /\ \A s \in Slots : At(s, "items") =>
           job[s].left \subseteq job[s].listed /\ \A k \in Items : ShownSoFar(job[s], k)
  BY DEF MenusInv, MenusTypeOK
<1>1. ASSUME UNCHANGED <<job, item>>, restaurant' \in RestaurantRow,
             category' \in [Categories -> CategoryRow]
      PROVE  MenusInv'
  BY <1>0, <1>1 DEF MenusInv, MenusTypeOK, At, ShownSoFar, IsItem
<1>2. ASSUME NEW s \in Slots, NEW j \in TreeJob \cup {Idle}, Goto(s, j),
             UNCHANGED <<restaurant, category, item>>,
             j = Idle \/ (j.left \subseteq j.listed /\ \A k \in Items : ShownSoFar(j, k))
      PROVE  MenusInv'
  <2>1. /\ job' \in [Slots -> TreeJob \cup {Idle}] /\ job'[s] = j
        /\ \A x \in Slots \ {s} : job'[x] = job[x]
    BY <1>0, <1>2 DEF Goto
  <2>2. ASSUME NEW x \in Slots, At(x, "items")'
        PROVE  job'[x].left \subseteq job'[x].listed
               /\ \A k \in Items : ShownSoFar(job[x], k)'
    <3>1. CASE x = s
      <4>1. j # Idle
        BY <2>1, <2>2, <3>1 DEF At, Idle
      <4> QED BY <1>2, <2>1, <3>1, <4>1 DEF ShownSoFar, IsItem
    <3>2. CASE x # s
      <4>1. job'[x] = job[x] /\ At(x, "items")
        BY <2>1, <2>2, <3>2 DEF At
      <4> QED BY <1>0, <1>2, <4>1 DEF ShownSoFar, IsItem
    <3> QED BY <3>1, <3>2
  <2> QED BY <1>0, <1>2, <2>1, <2>2 DEF MenusInv, MenusTypeOK
<1>3. ASSUME NEW st \in {"new", "open", "closed", "gone"}, SetRestaurant(st) PROVE MenusInv'
  <2>1. restaurant' \in RestaurantRow
    BY <1>3 DEF SetRestaurant, RestaurantRow
  <2> QED BY <1>0, <1>1, <1>3, <2>1 DEF SetRestaurant
<1>4. ASSUME NEW c \in Categories, OpenCategory(c) \/ HideCategory(c) PROVE MenusInv'
  <2>1. category' \in [Categories -> CategoryRow]
    BY <1>0, <1>4 DEF OpenCategory, HideCategory, CategoryRow
  <2> QED BY <1>0, <1>1, <1>4, <2>1 DEF OpenCategory, HideCategory
<1>5. ASSUME NEW i \in Items, NEW c \in Categories, NEW on \in BOOLEAN, PutItem(i, c, on)
      PROVE  MenusInv'
  <2>1. [available |-> on, category |-> c] \in ItemRow
    BY DEF ItemRow
  <2> QED BY <1>0, <1>5, <2>1, TouchInv DEF PutItem
<1>6. ASSUME NEW i \in Items, DeleteItem(i) PROVE MenusInv'
  BY <1>0, <1>6, TouchInv DEF DeleteItem
<1>7. ASSUME NEW s \in Slots, ListCategories(s) PROVE MenusInv'
  <2> DEFINE j == [step |-> "items", left |-> Active, listed |-> Active,
                   shown |-> [i \in Items |-> 0], touched |-> {}]
  <2>1. j \in TreeJob
    BY DEF TreeJob, Active
  <2>2. j.left \subseteq j.listed /\ \A k \in Items : ShownSoFar(j, k)
    BY DEF ShownSoFar
  <2>3. Goto(s, j) /\ UNCHANGED <<restaurant, category, item>>
    BY <1>7 DEF ListCategories
  <2> QED BY <1>2, <2>1, <2>2, <2>3
<1>8. ASSUME NEW s \in Slots, NEW c \in Categories, ListItems(s, c) PROVE MenusInv'
  <2> DEFINE j == job[s]
             n == [i \in Items |-> IF i \in Offered(c) THEN j.shown[i] + 1 ELSE j.shown[i]]
             k == [j EXCEPT !.left = j.left \ {c}, !.shown = n]
  <2>1. /\ j \in TreeJob /\ c \in j.left
        /\ j.left \subseteq j.listed /\ \A i \in Items : ShownSoFar(j, i)
    BY <1>0, <1>8 DEF ListItems, At, Idle
  <2>2. n \in [Items -> Nat]
    BY <2>1, TreeJobFields
  <2>3. /\ k \in TreeJob /\ k.left = j.left \ {c} /\ k.listed = j.listed
        /\ k.shown = n /\ k.touched = j.touched
    <3> HIDE DEF n
    <3> QED BY <2>1, <2>2 DEF TreeJob
  <2>4. ASSUME NEW i \in Items PROVE ShownSoFar(k, i)
    <3>1. ShownSoFar(j, i) /\ j.shown[i] \in Nat
      BY <2>1, TreeJobFields
    <3>2. i \in Offered(c) <=> IsItem(i) /\ item[i].available /\ item[i].category = c
      BY DEF Offered
    <3> QED BY <2>1, <2>3, <3>1, <3>2 DEF ShownSoFar
  <2>5. Goto(s, k) /\ UNCHANGED <<restaurant, category, item>>
    BY <1>8 DEF ListItems
  <2> HIDE DEF k
  <2> QED BY <1>2, <2>1, <2>3, <2>4, <2>5
<1>9. ASSUME NEW s \in Slots, SendTree(s) PROVE MenusInv'
  BY <1>2, <1>9 DEF SendTree, Return
<1>10. CASE UNCHANGED menuVars
  BY <1>0, <1>1, <1>10 DEF menuVars
<1> QED
  BY <1>3, <1>4, <1>5, <1>6, <1>7, <1>8, <1>9, <1>10
     DEF MenusNext, RestaurantRequests, MenuRequests

\* A menu shows every item that was left alone exactly once, if it is offered
\* in a category that was listed, however merchants write meanwhile.
THEOREM MenusUntouchedItemsShownOnce == MenusSpec => []UntouchedItemsShownOnce
<1>1. MenusInv => UntouchedItemsShownOnce
  <2> SUFFICES ASSUME MenusInv, NEW s \in Slots, At(s, "items"), job[s].left = {},
                      NEW i \in Items \ job[s].touched
               PROVE  job[s].shown[i] =
                        IF IsItem(i) /\ item[i].available /\ item[i].category \in job[s].listed
                        THEN 1 ELSE 0
    BY DEF UntouchedItemsShownOnce
  <2>1. ShownSoFar(job[s], i)
    BY DEF MenusInv
  <2> QED BY <2>1 DEF ShownSoFar
<1> QED
  BY <1>1, MenusInitInv, MenusStepInv, PTL DEF MenusSpec

-----------------------------------------------------------------------------
(* Tracking: the expiry of a ride's path.                                  *)

TrackingInv == TrackingTypeOK /\ PathExpires

\* A ride nobody tracks has no path.
LEMMA TrackingInitInv == TrackingInit => TrackingInv
<1> SUFFICES ASSUME TrackingInit PROVE TrackingInv
  OBVIOUS
<1>1. job \in [Slots -> TrackingJob \cup {Idle}]
  BY DEF TrackingInit, AllIdle
<1>2. 0 \in 0..MaxPoints
  BY TrackingAssumption
<1> QED
  BY <1>1, <1>2 DEF TrackingInit, TrackingInv, TrackingTypeOK, PathExpires

\* What a handler holds when it goes on has its type.
LEMMA TrackingTypeStep ==
  TrackingTypeOK /\ [TrackingNext]_trackingVars => TrackingTypeOK'
<1> SUFFICES ASSUME TrackingTypeOK, [TrackingNext]_trackingVars PROVE TrackingTypeOK'
  OBVIOUS
<1> USE DEF TrackingTypeOK
<1>1. ASSUME NEW s \in Slots, NEW st \in RideStatus, NEW d \in Users \cup {"none"},
             GetForUpdate(s, st, d)
      PROVE  TrackingTypeOK'
  <2>1. active \in ActiveRide
    BY <1>1 DEF GetForUpdate
  <2>2. [step |-> "set", state |-> [status |-> st,
           driver |-> IF d = "none" THEN active.driver ELSE d]] \in TrackingJob
    BY <2>1 DEF TrackingJob, ActiveRide
  <2> QED BY <1>1, <2>2 DEF GetForUpdate, Goto
<1>2. ASSUME NEW s \in Slots, SetUpdated(s) PROVE TrackingTypeOK'
  <2>1. job[s].state \in ActiveRide
    BY <1>2 DEF SetUpdated, At, TrackingJob, Idle
  <2> QED BY <1>2, <2>1 DEF SetUpdated, Return, Goto
<1>3. ASSUME NEW s \in Slots, PushPoint(s) PROVE TrackingTypeOK'
  <2>1. path + 1 \in 0..MaxPoints
    BY <1>3, TrackingAssumption DEF PushPoint
  <2> QED BY <1>3, <2>1 DEF PushPoint, Goto, TrackingJob
<1>4. ASSUME NEW s \in Slots, ExpirePath(s) PROVE TrackingTypeOK'
  BY <1>4 DEF ExpirePath, Return, Goto
<1>5. ASSUME NEW s \in Slots, AbandonTracking(s) PROVE TrackingTypeOK'
  <2>1. unset < MaxPoints => unset + 1 \in 0..MaxPoints
    BY TrackingAssumption
  <2> QED BY <1>5, <2>1 DEF AbandonTracking, Return, Goto
<1>6. ASSUME NEW st \in RideStatus, SetActiveRide(st) PROVE TrackingTypeOK'
  BY <1>6 DEF SetActiveRide, ActiveRide
<1>7. CASE DeleteActiveRide
  BY <1>7 DEF DeleteActiveRide
<1>8. CASE ClearPath
  <2>1. 0 \in 0..MaxPoints
    BY TrackingAssumption
  <2> QED BY <1>8, <2>1 DEF ClearPath
<1>9. CASE UNCHANGED trackingVars
  BY <1>9 DEF trackingVars
<1> QED
  BY <1>1, <1>2, <1>3, <1>4, <1>5, <1>6, <1>7, <1>8, <1>9 DEF TrackingNext

\* The append that made a path last is still under way, has failed, or has
\* given it its time to live.
LEMMA TrackingStepInv == TrackingInv /\ [TrackingNext]_trackingVars => TrackingInv'
<1> SUFFICES ASSUME TrackingInv, [TrackingNext]_trackingVars PROVE PathExpires'
  BY TrackingTypeStep DEF TrackingInv
<1>0. /\ PathExpires /\ job \in [Slots -> TrackingJob \cup {Idle}]
      /\ path \in 0..MaxPoints /\ unset \in 0..MaxPoints /\ MaxPoints \in Nat
  BY TrackingAssumption DEF TrackingInv, TrackingTypeOK
<1>1. ASSUME NEW s \in Slots, NEW j, Goto(s, j), ~At(s, "expire"), NEW x \in Slots,
             At(x, "expire")
      PROVE  At(x, "expire")'
  BY <1>0, <1>1 DEF Goto, At
<1>2. ASSUME NEW s \in Slots, NEW st \in RideStatus, NEW d \in Users \cup {"none"},
             GetForUpdate(s, st, d)
      PROVE  PathExpires'
  <2> PICK j : Goto(s, j)
    BY <1>2 DEF GetForUpdate
  <2>1. ~At(s, "expire") /\ UNCHANGED <<path, expires, unset>>
    BY <1>2 DEF GetForUpdate, IsIdle, At
  <2> QED BY <1>0, <1>1, <2>1 DEF PathExpires
<1>3. ASSUME NEW s \in Slots, SetUpdated(s) PROVE PathExpires'
  <2>1. Goto(s, Idle) /\ ~At(s, "expire") /\ UNCHANGED <<path, expires, unset>>
    BY <1>3 DEF SetUpdated, Return, At
  <2> QED BY <1>0, <1>1, <2>1 DEF PathExpires
<1>4. ASSUME NEW s \in Slots, PushPoint(s) PROVE PathExpires'
  <2>1. At(s, "expire")'
    BY <1>0, <1>4 DEF PushPoint, Goto, At
  <2> QED BY <2>1 DEF PathExpires
<1>5. ASSUME NEW s \in Slots, ExpirePath(s) PROVE PathExpires'
  BY <1>5 DEF ExpirePath, PathExpires
<1>6. ASSUME NEW s \in Slots, AbandonTracking(s) PROVE PathExpires'
  <2>1. Goto(s, Idle) /\ UNCHANGED <<path, expires>>
    BY <1>6 DEF AbandonTracking, Return
  <2>2. CASE path > 0 /\ At(s, "expire")
    <3>1. unset' > 0
      BY <1>0, <1>6, <2>2 DEF AbandonTracking
    <3> QED BY <3>1 DEF PathExpires
  <2>3. CASE path > 0 /\ ~At(s, "expire")
    <3>1. unset' = unset
      BY <1>6, <2>3 DEF AbandonTracking
    <3> QED BY <1>0, <1>1, <2>1, <2>3, <3>1 DEF PathExpires
  <2>4. CASE ~(path > 0)
    BY <2>1, <2>4 DEF PathExpires
  <2> QED BY <2>2, <2>3, <2>4
<1>7. CASE ClearPath
  BY <1>7 DEF ClearPath, PathExpires
<1>8. CASE UNCHANGED <<job, path, expires, unset>>
  BY <1>0, <1>8 DEF PathExpires, At
<1> QED
  BY <1>2, <1>3, <1>4, <1>5, <1>6, <1>7, <1>8
     DEF TrackingNext, SetActiveRide, DeleteActiveRide, trackingVars

\* A path in Redis has a time to live, or an append that will set it or failed to.
THEOREM TrackingPathExpires == TrackingSpec => []PathExpires
<1>1. TrackingInv => PathExpires
  BY DEF TrackingInv
<1> QED
  BY <1>1, TrackingInitInv, TrackingStepInv, PTL DEF TrackingSpec

-----------------------------------------------------------------------------
(* Notifications: the copies of one event.                                 *)

\* A handler that may still store a document, and one that holds a queue job.
Sending(j) == j.step \in {"preferences", "default", "create"}
Holding(j) == j.step \in {"finish", "throw"} \/ (Sending(j) /\ j.queued)

Unstored(k) == {s \in Slots : Sending(job[s]) /\ job[s].key = k}

\* How often the queue may still run a job, and how often it was asked for one.
RunsLeft(q) ==
  IF q.state = "waiting" THEN (MaxTries - q.made) + (MaxStalls - q.stalls)
  ELSE IF q.state = "active" THEN (MaxTries - q.made) + (MaxStalls - q.stalls) - 1
  ELSE 0

Runs(q) == q.asked * (MaxTries + MaxStalls) + q.direct

\* Every copy is one of the runs that are no longer left.
CopiesAccountedFor(k) ==
  inbox[k].created + Cardinality(Unstored(k)) + RunsLeft(queue[k]) <= Runs(queue[k])

\* A job that runs again has an attempt left; one that is done has its document.
KeyInv(k) ==
  /\ CopiesAccountedFor(k)
  /\ queue[k].state \in {"waiting", "active"} => queue[k].made < MaxTries
  /\ queue[k].state = "completed" => inbox[k].created >= 1
  /\ inbox[k].unread <= inbox[k].kept

\* A job is held by one worker at most, and is active as long as it is.
HoldersInv ==
  /\ \A s \in Slots : Holding(job[s]) => queue[job[s].key].state = "active"
  /\ \A s, x \in Slots : Holding(job[s]) /\ Holding(job[x]) /\ s # x => job[s].key # job[x].key
  /\ \A s \in Slots : At(s, "finish") => inbox[job[s].key].created >= 1

NotificationsInv ==
  NotificationsTypeOK /\ HoldersInv /\ \A k \in Keys : KeyInv(k)

\* The locals of the handlers, the jobs of the queue and the documents.
LEMMA NotificationFacts ==
  ASSUME NotificationsTypeOK
  PROVE  /\ job \in [Slots -> NotificationJob \cup {Idle}]
         /\ \A s \in Slots : Sending(job[s]) \/ Holding(job[s]) =>
              job[s] \in NotificationJob /\ job[s].key \in Keys
         /\ \A s \in Slots : Sending(job[s]) => job[s].queued \in BOOLEAN
         /\ \A s \in Slots : At(s, "create") => job[s].tokens \subseteq PushTokens
         /\ \A k \in Keys :
              /\ queue[k] \in QueueJob /\ inbox[k] \in Inbox
              /\ queue[k].made \in Nat /\ queue[k].stalls \in Nat /\ queue[k].stalls <= MaxStalls
              /\ queue[k].asked \in Nat /\ queue[k].direct \in Nat
              /\ inbox[k].created \in Nat /\ inbox[k].kept \in Nat /\ inbox[k].unread \in Nat
         /\ MaxTries \in Nat /\ MaxTries >= 1 /\ MaxStalls \in Nat
<1>1. \A s \in Slots : job[s] \in NotificationJob \cup {Idle}
  BY DEF NotificationsTypeOK
<1>2. ASSUME NEW j \in NotificationJob \cup {Idle}
      PROVE  /\ j.step \in {"preferences", "default", "create", "finish", "throw"} =>
                  j \in NotificationJob /\ j.key \in Keys
             /\ j.step \in {"preferences", "default", "create"} => j.queued \in BOOLEAN
             /\ j.step = "create" => j.tokens \subseteq PushTokens
  BY DEF NotificationJob, Idle
<1>3. ASSUME NEW k \in Keys
      PROVE  /\ queue[k] \in QueueJob /\ inbox[k] \in Inbox
             /\ queue[k].made \in Nat /\ queue[k].stalls \in Nat /\ queue[k].stalls <= MaxStalls
             /\ queue[k].asked \in Nat /\ queue[k].direct \in Nat
             /\ inbox[k].created \in Nat /\ inbox[k].kept \in Nat /\ inbox[k].unread \in Nat
  <2>1. queue[k] \in QueueJob /\ inbox[k] \in Inbox
    BY DEF NotificationsTypeOK
  <2> QED BY <2>1, NotificationsAssumption DEF QueueJob, Inbox
<1>4. MaxTries \in Nat /\ MaxTries >= 1 /\ MaxStalls \in Nat
  BY NotificationsAssumption
<1> QED
  BY <1>1, <1>2, <1>3, <1>4 DEF NotificationsTypeOK, Sending, Holding, At

\* The handlers of a key are no more than there are slots.
LEMMA UnstoredCounted ==
  ASSUME NEW k
  PROVE  Cardinality(Unstored(k)) \in Nat /\ Cardinality(Unstored(k)') \in Nat
<1>1. Unstored(k) \subseteq Slots /\ Unstored(k)' \subseteq Slots
  BY DEF Unstored
<1> QED
  BY <1>1, ServiceAssumption, FS_Subset, FS_CardinalityType

\* Nothing is asked for, stored or under way at first.
LEMMA NotificationsInitInv == NotificationsInit => NotificationsInv
<1> SUFFICES ASSUME NotificationsInit PROVE NotificationsInv
  OBVIOUS
<1>0. /\ job = [s \in Slots |-> Idle] /\ queue = [k \in Keys |-> NoJob]
      /\ inbox = [k \in Keys |-> [created |-> 0, kept |-> 0, unread |-> 0]]
  BY DEF NotificationsInit, AllIdle
<1>1. NotificationsTypeOK
  <2>1. NoJob \in QueueJob
    BY NotificationsAssumption DEF NoJob, QueueJob
  <2>2. [created |-> 0, kept |-> 0, unread |-> 0] \in Inbox
    BY DEF Inbox
  <2>3. [exists |-> FALSE, tokens |-> {}] \in Preferences
    BY DEF Preferences
  <2> QED BY <1>0, <2>1, <2>2, <2>3 DEF NotificationsInit, NotificationsTypeOK
<1>2. \A s \in Slots : ~Sending(job[s]) /\ ~Holding(job[s]) /\ ~At(s, "finish")
  BY <1>0 DEF Idle, Sending, Holding, At
<1>3. ASSUME NEW k \in Keys PROVE KeyInv(k)
  <2>1. Unstored(k) = {}
    BY <1>2 DEF Unstored
  <2>2. /\ queue[k].state = "absent" /\ queue[k].asked = 0 /\ queue[k].direct = 0
        /\ inbox[k].created = 0 /\ inbox[k].kept = 0 /\ inbox[k].unread = 0
    BY <1>0 DEF NoJob
  <2>3. Runs(queue[k]) = 0
    BY <2>2, NotificationsAssumption DEF Runs
  <2>4. RunsLeft(queue[k]) = 0
    BY <2>2 DEF RunsLeft
  <2>5. Cardinality(Unstored(k)) = 0
    BY <2>1, FS_EmptySet, Zenon
  <2> QED BY <2>2, <2>3, <2>4, <2>5 DEF KeyInv, CopiesAccountedFor
<1> QED
  BY <1>1, <1>2, <1>3 DEF NotificationsInv, HoldersInv

\* Handler s, which works on key k alone, goes on; what it stores and how its
\* job changes is paid for, and nobody else holds a job it gives up or takes.
LEMMA HandlerPays ==
  ASSUME NotificationsInv, NotificationsTypeOK', NEW s \in Slots, NEW k \in Keys, NEW j,
         Goto(s, j),
         Sending(job[s]) \/ Holding(job[s]) => job[s].key = k,
         Sending(j) \/ Holding(j) => j.key = k,
         \A c \in Keys \ {k} : queue'[c] = queue[c] /\ inbox'[c] = inbox[c],
         inbox'[k].created + (IF Sending(j) THEN 1 ELSE 0) + RunsLeft(queue'[k]) + Runs(queue[k])
           <= inbox[k].created + (IF Sending(job[s]) THEN 1 ELSE 0) + RunsLeft(queue[k])
                + Runs(queue'[k]),
         inbox'[k].created >= inbox[k].created,
         inbox'[k].unread <= inbox'[k].kept,
         queue'[k].state \in {"waiting", "active"} => queue'[k].made < MaxTries,
         queue'[k].state = "completed" => inbox'[k].created >= 1,
         j.step = "finish" => inbox'[k].created >= 1,
         Holding(j) => queue'[k].state = "active",
         queue'[k].state # queue[k].state \/ (Holding(j) /\ ~Holding(job[s])) =>
           \A x \in Slots \ {s} : Holding(job[x]) => job[x].key # k
  PROVE  NotificationsInv'
<1>0. NotificationsTypeOK
  BY DEF NotificationsInv
<1>1. job'[s] = j /\ \A x \in Slots \ {s} : job'[x] = job[x]
  BY <1>0 DEF Goto, NotificationsTypeOK
<1>2. \A c \in Keys \ {k} : Unstored(c)' = Unstored(c)
  BY <1>1 DEF Unstored
<1>3. Cardinality(Unstored(k)') = Cardinality(Unstored(k))
        + (IF Sending(j) THEN 1 ELSE 0) - (IF Sending(job[s]) THEN 1 ELSE 0)
  <2>1. /\ Unstored(k) \subseteq Slots /\ Unstored(k)' \subseteq Slots
        /\ Unstored(k) \ {s} = Unstored(k)' \ {s}
        /\ s \in Unstored(k) <=> Sending(job[s])
        /\ s \in Unstored(k)' <=> Sending(j)
    BY <1>1 DEF Unstored
  <2>2. Cardinality(Unstored(k)') = Cardinality(Unstored(k))
          + (IF s \in Unstored(k)' THEN 1 ELSE 0) - (IF s \in Unstored(k) THEN 1 ELSE 0)
    BY <2>1, ServiceAssumption, CountChange
  <2> QED BY <2>1, <2>2
<1>4. KeyInv(k)'
  <2>1. /\ RunsLeft(queue[k]) \in Int /\ RunsLeft(queue'[k]) \in Int
        /\ Runs(queue[k]) \in Int /\ Runs(queue'[k]) \in Int
        /\ inbox[k].created \in Int /\ inbox'[k].created \in Int
    <3>1. ASSUME NEW q \in QueueJob PROVE RunsLeft(q) \in Int /\ Runs(q) \in Int
      BY NotificationsAssumption DEF QueueJob, RunsLeft, Runs
    <3> QED BY <1>0, <3>1 DEF NotificationsTypeOK, Inbox
  <2>2. Cardinality(Unstored(k)) \in Nat /\ Cardinality(Unstored(k)') \in Nat
    BY UnstoredCounted
  <2>3. inbox[k].created + Cardinality(Unstored(k)) + RunsLeft(queue[k]) <= Runs(queue[k])
    BY DEF NotificationsInv, KeyInv, CopiesAccountedFor
  <2> DEFINE a == IF Sending(j) THEN 1 ELSE 0
             b == IF Sending(job[s]) THEN 1 ELSE 0
  <2>4. a \in Int /\ b \in Int
    OBVIOUS
  <2>5. inbox'[k].created + a + RunsLeft(queue'[k]) + Runs(queue[k])
          <= inbox[k].created + b + RunsLeft(queue[k]) + Runs(queue'[k])
    OBVIOUS
  <2>6. Cardinality(Unstored(k)') = Cardinality(Unstored(k)) + a - b
    BY <1>3
  <2> HIDE DEF a, b
  <2>7. inbox'[k].created + Cardinality(Unstored(k)') + RunsLeft(queue'[k]) <= Runs(queue'[k])
    BY <2>1, <2>2, <2>3, <2>4, <2>5, <2>6
  <2>8. CopiesAccountedFor(k)'
    BY <2>7 DEF CopiesAccountedFor, RunsLeft, Runs
  <2> QED BY <2>8 DEF KeyInv
<1>5. ASSUME NEW c \in Keys \ {k} PROVE KeyInv(c)'
  <2>1. KeyInv(c) /\ queue'[c] = queue[c] /\ inbox'[c] = inbox[c]
    BY DEF NotificationsInv
  <2>2. Cardinality(Unstored(c)') = Cardinality(Unstored(c))
    BY <1>2, Zenon
  <2> QED BY <2>1, <2>2 DEF KeyInv, CopiesAccountedFor, RunsLeft, Runs
<1>6. ASSUME NEW x \in Slots, Holding(job'[x]) PROVE queue'[job'[x].key].state = "active"
  <2>1. CASE x = s
    BY <1>1, <1>6, <2>1
  <2>2. CASE x # s
    <3>1. job'[x] = job[x] /\ Holding(job[x]) /\ job[x].key \in Keys
          /\ queue[job[x].key].state = "active"
      BY <1>0, <1>1, <1>6, <2>2, NotificationFacts DEF NotificationsInv, HoldersInv
    <3>2. CASE job[x].key = k
      BY <2>2, <3>1, <3>2
    <3>3. CASE job[x].key # k
      BY <3>1, <3>3
    <3> QED BY <3>2, <3>3
  <2> QED BY <2>1, <2>2
<1>7. ASSUME NEW x \in Slots \ {s}, Holding(job'[x]), Holding(j)
      PROVE  job'[x].key # k
  <2>1. job'[x] = job[x] /\ Holding(job[x])
    BY <1>1, <1>7
  <2>2. CASE Holding(job[s])
    <3>1. job[x].key # job[s].key /\ job[s].key = k
      BY <1>7, <2>1, <2>2 DEF NotificationsInv, HoldersInv
    <3> QED BY <2>1, <3>1
  <2>3. CASE ~Holding(job[s])
    BY <1>7, <2>1, <2>3
  <2> QED BY <2>2, <2>3
<1>8. ASSUME NEW y \in Slots, NEW x \in Slots, Holding(job'[y]), Holding(job'[x]), y # x
      PROVE  job'[y].key # job'[x].key
  <2>1. CASE y = s
    BY <1>1, <1>7, <1>8, <2>1
  <2>2. CASE x = s
    BY <1>1, <1>7, <1>8, <2>2
  <2>3. CASE y # s /\ x # s
    BY <1>1, <1>8, <2>3 DEF NotificationsInv, HoldersInv
  <2> QED BY <2>1, <2>2, <2>3
<1>9. ASSUME NEW x \in Slots, job'[x].step = "finish" PROVE inbox'[job'[x].key].created >= 1
  <2>1. CASE x = s
    <3>1. j.step = "finish" /\ j.key = k /\ job'[x] = j
      BY <1>1, <1>9, <2>1 DEF Holding
    <3> QED BY <3>1
  <2>2. CASE x # s
    <3>1. job'[x] = job[x] /\ At(x, "finish") /\ job[x].key \in Keys
          /\ inbox[job[x].key].created >= 1
      BY <1>0, <1>1, <1>9, <2>2, NotificationFacts DEF NotificationsInv, HoldersInv, At, Holding
    <3>2. CASE job[x].key = k
      <4>1. inbox[k].created \in Int /\ inbox'[k].created \in Int
        BY <1>0 DEF NotificationsTypeOK, Inbox
      <4> QED BY <3>1, <3>2, <4>1
    <3>3. CASE job[x].key # k
      BY <3>1, <3>3
    <3> QED BY <3>2, <3>3
  <2> QED BY <2>1, <2>2
<1>10. HoldersInv'
  BY <1>6, <1>8, <1>9 DEF HoldersInv, Holding, Sending, At
<1> QED
  BY <1>4, <1>5, <1>10 DEF NotificationsInv

\* The same where no handler is involved: whoever changes the state of a job
\* changes one that nobody holds.
LEMMA KeyPays ==
  ASSUME NotificationsInv, NotificationsTypeOK', NEW k \in Keys, UNCHANGED job,
         \A c \in Keys \ {k} : queue'[c] = queue[c] /\ inbox'[c] = inbox[c],
         inbox'[k].created + RunsLeft(queue'[k]) + Runs(queue[k])
           <= inbox[k].created + RunsLeft(queue[k]) + Runs(queue'[k]),
         inbox'[k].created >= inbox[k].created,
         inbox'[k].unread <= inbox'[k].kept,
         queue'[k].state \in {"waiting", "active"} => queue'[k].made < MaxTries,
         queue'[k].state = "completed" => inbox'[k].created >= 1,
         queue'[k].state # queue[k].state => \A x \in Slots : Holding(job[x]) => job[x].key # k
  PROVE  NotificationsInv'
<1>0. NotificationsTypeOK
  BY DEF NotificationsInv
<1>1. \A c : Unstored(c)' = Unstored(c)
  BY DEF Unstored
<1>2. KeyInv(k)'
  <2>1. /\ RunsLeft(queue[k]) \in Int /\ RunsLeft(queue'[k]) \in Int
        /\ Runs(queue[k]) \in Int /\ Runs(queue'[k]) \in Int
        /\ inbox[k].created \in Int /\ inbox'[k].created \in Int
    <3>1. ASSUME NEW q \in QueueJob PROVE RunsLeft(q) \in Int /\ Runs(q) \in Int
      BY NotificationsAssumption DEF QueueJob, RunsLeft, Runs
    <3> QED BY <1>0, <3>1 DEF NotificationsTypeOK, Inbox
  <2>2. Cardinality(Unstored(k)) \in Nat
    BY UnstoredCounted
  <2>3. Cardinality(Unstored(k)') = Cardinality(Unstored(k))
    BY <1>1, Zenon
  <2>4. inbox[k].created + Cardinality(Unstored(k)) + RunsLeft(queue[k]) <= Runs(queue[k])
    BY DEF NotificationsInv, KeyInv, CopiesAccountedFor
  <2>5. inbox'[k].created + Cardinality(Unstored(k)') + RunsLeft(queue'[k]) <= Runs(queue'[k])
    BY <2>1, <2>2, <2>3, <2>4
  <2>6. CopiesAccountedFor(k)'
    BY <2>5 DEF CopiesAccountedFor, RunsLeft, Runs
  <2> QED BY <2>6 DEF KeyInv
<1>3. ASSUME NEW c \in Keys \ {k} PROVE KeyInv(c)'
  <2>1. KeyInv(c) /\ queue'[c] = queue[c] /\ inbox'[c] = inbox[c]
    BY DEF NotificationsInv
  <2>2. Cardinality(Unstored(c)') = Cardinality(Unstored(c))
    BY <1>1, Zenon
  <2> QED BY <2>1, <2>2 DEF KeyInv, CopiesAccountedFor, RunsLeft, Runs
<1>4. ASSUME NEW x \in Slots, Holding(job[x]) PROVE queue'[job[x].key].state = "active"
  <2>1. job[x].key \in Keys /\ queue[job[x].key].state = "active"
    BY <1>0, <1>4, NotificationFacts DEF NotificationsInv, HoldersInv
  <2> QED BY <1>4, <2>1
<1>5. ASSUME NEW x \in Slots, At(x, "finish") PROVE inbox'[job[x].key].created >= 1
  <2>1. job[x].key \in Keys /\ inbox[job[x].key].created >= 1
    BY <1>0, <1>5, NotificationFacts DEF NotificationsInv, HoldersInv, At, Holding
  <2>2. inbox[k].created \in Int /\ inbox'[k].created \in Int
    BY <1>0 DEF NotificationsTypeOK, Inbox
  <2> QED BY <2>1, <2>2
<1>6. HoldersInv'
  BY <1>4, <1>5 DEF HoldersInv, NotificationsInv, Holding, Sending, At
<1> QED
  BY <1>2, <1>3, <1>6 DEF NotificationsInv

\* Nothing is created, and handlers at most disappear.
LEMMA NothingCreated ==
  ASSUME NotificationsInv, NotificationsTypeOK', UNCHANGED queue,
         \A s \in Slots : job'[s] = job[s] \/ job'[s] = Idle,
         \A k \in Keys : inbox'[k].created = inbox[k].created /\ inbox'[k].unread <= inbox'[k].kept
  PROVE  NotificationsInv'
<1>0. NotificationsTypeOK
  BY DEF NotificationsInv
<1>1. ASSUME NEW k \in Keys PROVE KeyInv(k)'
  <2>1. Unstored(k)' \subseteq Unstored(k) /\ Unstored(k) \subseteq Slots
    BY DEF Unstored, Sending, Idle
  <2>2. Cardinality(Unstored(k)') <= Cardinality(Unstored(k))
        /\ Cardinality(Unstored(k)) \in Nat /\ Cardinality(Unstored(k)') \in Nat
    BY <2>1, UnstoredCounted, ServiceAssumption, FS_Subset
  <2>3. /\ RunsLeft(queue[k]) \in Int /\ Runs(queue[k]) \in Int /\ inbox[k].created \in Int
    <3>1. ASSUME NEW q \in QueueJob PROVE RunsLeft(q) \in Int /\ Runs(q) \in Int
      BY NotificationsAssumption DEF QueueJob, RunsLeft, Runs
    <3> QED BY <1>0, <3>1 DEF NotificationsTypeOK, Inbox
  <2>4. KeyInv(k)
    BY DEF NotificationsInv
  <2>5. inbox'[k].created + Cardinality(Unstored(k)') + RunsLeft(queue[k]) <= Runs(queue[k])
    BY <2>2, <2>3, <2>4 DEF KeyInv, CopiesAccountedFor
  <2> QED BY <2>4, <2>5 DEF KeyInv, CopiesAccountedFor, RunsLeft, Runs
<1>2. \A x \in Slots : Holding(job'[x]) \/ job'[x].step = "finish" =>
        job'[x] = job[x] /\ Holding(job[x]) /\ job[x].key \in Keys
  BY <1>0, NotificationFacts DEF Holding, Sending, Idle
<1>3. HoldersInv'
  BY <1>2 DEF HoldersInv, NotificationsInv, Holding, Sending, At
<1> QED
  BY <1>1, <1>3 DEF NotificationsInv

\* Every step keeps the types of the collections, the queue and the locals.
LEMMA NotificationsTypeStep ==
  NotificationsInv /\ [NotificationsNext]_notificationVars => NotificationsTypeOK'
<1> SUFFICES ASSUME NotificationsInv, [NotificationsNext]_notificationVars
             PROVE NotificationsTypeOK'
  OBVIOUS
<1>0. /\ queue \in [Keys -> QueueJob] /\ inbox \in [Keys -> Inbox] /\ prefs \in Preferences
      /\ dead \subseteq PushTokens
      /\ delivering \subseteq [key : Keys, tokens : SUBSET PushTokens]
      /\ job \in [Slots -> NotificationJob \cup {Idle}] /\ NotificationsTypeOK
  BY DEF NotificationsInv, NotificationsTypeOK
<1> DEFINE Jobs == job' \in [Slots -> NotificationJob \cup {Idle}]
           Queues == queue' \in [Keys -> QueueJob]
           Boxes == inbox' \in [Keys -> Inbox]
           Tokens == prefs' \in Preferences
<1>1. ASSUME NEW s \in Slots, NEW j \in NotificationJob \cup {Idle}, Goto(s, j) PROVE Jobs
  BY <1>0, <1>1 DEF Goto
<1>2. ASSUME NEW s \in Slots, Return(s) PROVE Jobs
  BY <1>1, <1>2 DEF Return
<1>3. ASSUME NEW s \in Slots, Fail(s), Sending(job[s]) PROVE Jobs
  <2>1. [step |-> "throw", key |-> job[s].key] \in NotificationJob
    BY <1>0, <1>3, NotificationFacts DEF NotificationJob
  <2> QED BY <1>1, <1>2, <1>3, <2>1 DEF Fail
<1>4. ASSUME NEW k \in Keys, Stored(k) PROVE Boxes
  <2>1. [inbox[k] EXCEPT !.created = @ + 1, !.kept = @ + 1, !.unread = @ + 1] \in Inbox
    <3>1. inbox[k] \in Inbox
      BY <1>0
    <3>2. /\ inbox[k].created + 1 \in Nat /\ inbox[k].kept + 1 \in Nat
          /\ inbox[k].unread + 1 \in Nat
      BY <1>0, NotificationFacts
    <3>3. ASSUME NEW b \in Inbox, NEW x \in Nat, NEW y \in Nat, NEW z \in Nat
          PROVE  [b EXCEPT !.created = x, !.kept = y, !.unread = z] \in Inbox
      BY DEF Inbox
    <3> QED BY <3>1, <3>2, <3>3
  <2>2. inbox' = [inbox EXCEPT ![k] =
                    [inbox[k] EXCEPT !.created = @ + 1, !.kept = @ + 1, !.unread = @ + 1]]
    BY <1>0, <1>4 DEF Stored
  <2> QED BY <1>0, <2>1, <2>2
<1>5. ASSUME NEW k \in Keys, NEW q \in QueueJob, queue' = [queue EXCEPT ![k] = q] PROVE Queues
  BY <1>0, <1>5
<1>6. ASSUME Jobs, Queues, Boxes, Tokens, dead' = dead, delivering' \subseteq delivering
      PROVE  NotificationsTypeOK'
  BY <1>0, <1>6 DEF NotificationsTypeOK
<1>7. (job' = job => Jobs) /\ (queue' = queue => Queues) /\ (inbox' = inbox => Boxes)
      /\ (prefs' = prefs => Tokens)
  BY <1>0
<1> HIDE DEF Jobs, Queues, Boxes
<1>8. ASSUME NEW k \in Keys, Enqueue(k) PROVE NotificationsTypeOK'
  <2> DEFINE q == [queue[k] EXCEPT !.state = "waiting", !.made = 0, !.stalls = 0,
                                   !.asked = @ + 1]
  <2>1. q \in QueueJob
    <3>1. queue[k] \in QueueJob /\ queue[k].asked \in Nat /\ queue[k].asked < MaxRequests
      BY <1>0, <1>8, NotificationFacts DEF Enqueue
    <3>2. queue[k].asked + 1 \in 0..MaxRequests /\ 0 \in 0..MaxTries /\ 0 \in 0..MaxStalls
      BY <3>1, NotificationsAssumption
    <3>3. ASSUME NEW p \in QueueJob, NEW n \in 0..MaxRequests
          PROVE  [p EXCEPT !.state = "waiting", !.made = 0, !.stalls = 0, !.asked = n] \in QueueJob
      BY <3>2 DEF QueueJob
    <3> QED BY <3>1, <3>2, <3>3
  <2>2. queue' = [queue EXCEPT ![k] = q]
    BY <1>0, <1>8 DEF Enqueue
  <2> HIDE DEF q
  <2>3. Queues
    BY <1>5, <2>1, <2>2
  <2> QED BY <1>6, <1>7, <1>8, <2>3 DEF Enqueue
<1>9. ASSUME NEW k \in Keys, NEW st \in {"absent", "active", "completed"},
             queue' = [queue EXCEPT ![k].state = st]
      PROVE  Queues
  <2> DEFINE q == [queue[k] EXCEPT !.state = st]
  <2>1. q \in QueueJob
    BY <1>0 DEF QueueJob
  <2>2. queue' = [queue EXCEPT ![k] = q]
    BY <1>9
  <2> HIDE DEF q
  <2> QED BY <1>5, <2>1, <2>2
<1>10. ASSUME NEW k \in Keys, ForgetJob(k) PROVE NotificationsTypeOK'
  BY <1>6, <1>7, <1>9, <1>10 DEF ForgetJob
<1>11. ASSUME NEW k \in Keys, Stalled(k) PROVE NotificationsTypeOK'
  <2> DEFINE q == [queue[k] EXCEPT
                     !.state = IF queue[k].stalls < MaxStalls THEN "waiting" ELSE "failed",
                     !.stalls = IF @ < MaxStalls THEN @ + 1 ELSE @]
  <2>1. q \in QueueJob
    <3>1. ASSUME NEW p \in QueueJob, NEW st \in {"waiting", "failed"}, NEW n \in 0..MaxStalls
          PROVE  [p EXCEPT !.state = st, !.stalls = n] \in QueueJob
      BY DEF QueueJob
    <3>2. queue[k] \in QueueJob /\ queue[k].stalls \in 0..MaxStalls
      BY <1>0 DEF QueueJob
    <3>3. (IF queue[k].stalls < MaxStalls THEN queue[k].stalls + 1 ELSE queue[k].stalls)
            \in 0..MaxStalls
      BY <3>2, NotificationsAssumption
    <3> QED BY <3>1, <3>2, <3>3
  <2>2. queue' = [queue EXCEPT ![k] = q]
    BY <1>0, <1>11 DEF Stalled
  <2> HIDE DEF q
  <2>3. Queues
    BY <1>5, <2>1, <2>2
  <2> QED BY <1>6, <1>7, <1>11, <2>3 DEF Stalled
<1>12. ASSUME NEW s \in Slots, NEW k \in Keys, TakeJob(s, k) PROVE NotificationsTypeOK'
  <2>1. [step |-> "preferences", key |-> k, queued |-> TRUE] \in NotificationJob
    BY DEF NotificationJob
  <2>2. Jobs
    BY <1>1, <1>12, <2>1 DEF TakeJob
  <2>3. Queues
    BY <1>9, <1>12 DEF TakeJob
  <2> QED BY <1>6, <1>7, <1>12, <2>2, <2>3 DEF TakeJob
<1>13. ASSUME NEW s \in Slots, FinishJob(s) PROVE NotificationsTypeOK'
  <2>1. job[s].key \in Keys
    BY <1>0, <1>13, NotificationFacts DEF FinishJob, At, Holding
  <2>2. Queues
    BY <1>9, <1>13, <2>1 DEF FinishJob
  <2> QED BY <1>2, <1>6, <1>7, <1>13, <2>2 DEF FinishJob
<1>14. ASSUME NEW s \in Slots, ThrowJob(s) PROVE NotificationsTypeOK'
  <2> DEFINE k == job[s].key
             q == [queue[k] EXCEPT !.made = @ + 1,
                     !.state = IF queue[k].made + 1 < MaxTries THEN "waiting" ELSE "failed"]
  <2>1. k \in Keys /\ Holding(job[s])
    BY <1>0, <1>14, NotificationFacts DEF ThrowJob, At, Holding
  <2>2. queue[k].made < MaxTries
    BY <2>1 DEF NotificationsInv, HoldersInv, KeyInv
  <2>3. queue' = [queue EXCEPT ![k] = q]
    BY <1>0, <1>14, <2>1 DEF ThrowJob
  <2>4. q \in QueueJob
    <3>1. ASSUME NEW p \in QueueJob, NEW n \in 0..MaxTries, NEW st \in {"waiting", "failed"}
          PROVE  [p EXCEPT !.made = n, !.state = st] \in QueueJob
      BY DEF QueueJob
    <3> HIDE DEF k
    <3>2. queue[k] \in QueueJob
      BY <1>0, <2>1
    <3>3. queue[k].made + 1 \in 0..MaxTries
      BY <1>0, <2>1, <2>2, NotificationFacts
    <3> QED BY <3>1, <3>2, <3>3
  <2> HIDE DEF q, k
  <2>5. Queues
    BY <1>5, <2>1, <2>3, <2>4
  <2> QED BY <1>2, <1>6, <1>7, <1>14, <2>5 DEF ThrowJob
<1>15. ASSUME NEW k \in Keys, queue[k].direct < MaxRequests,
              queue' = [queue EXCEPT ![k].direct = @ + 1]
       PROVE  Queues
  <2> DEFINE q == [queue[k] EXCEPT !.direct = @ + 1]
  <2>1. q \in QueueJob
    <3>1. queue[k] \in QueueJob
      BY <1>0
    <3> QED BY <1>15, <3>1, NotificationsAssumption DEF QueueJob
  <2>2. queue' = [queue EXCEPT ![k] = q]
    BY <1>0, <1>15
  <2> HIDE DEF q
  <2> QED BY <1>5, <2>1, <2>2
<1>16. ASSUME NEW s \in Slots, NEW k \in Keys, SendDirectly(s, k) PROVE NotificationsTypeOK'
  <2>1. [step |-> "preferences", key |-> k, queued |-> FALSE] \in NotificationJob
    BY DEF NotificationJob
  <2>2. Jobs /\ Queues
    BY <1>1, <1>15, <1>16, <2>1 DEF SendDirectly
  <2> QED BY <1>6, <1>7, <1>16, <2>2 DEF SendDirectly
<1>17. ASSUME NEW k \in Keys, Broadcast(k) PROVE NotificationsTypeOK'
  BY <1>4, <1>6, <1>7, <1>15, <1>17 DEF Broadcast
<1>18. ASSUME NEW s \in Slots, FindPreferences(s) PROVE NotificationsTypeOK'
  <2>1. Sending(job[s]) /\ job[s].key \in Keys /\ job[s].queued \in BOOLEAN
    BY <1>0, <1>18, NotificationFacts DEF FindPreferences, At, Sending
  <2>2. [step |-> "create", key |-> job[s].key, queued |-> job[s].queued,
         tokens |-> prefs.tokens] \in NotificationJob
    BY <1>0, <2>1 DEF NotificationJob, Preferences
  <2>3. [job[s] EXCEPT !.step = "default"] \in NotificationJob
    <3>1. ASSUME NEW i \in NotificationJob, i.step = "preferences"
          PROVE  [i EXCEPT !.step = "default"] \in NotificationJob
      BY <3>1 DEF NotificationJob
    <3> QED BY <1>0, <1>18, <2>1, <3>1, NotificationFacts DEF FindPreferences, At
  <2>4. Jobs
    BY <1>1, <1>18, <2>2, <2>3 DEF FindPreferences
  <2> QED BY <1>6, <1>7, <1>18, <2>4 DEF FindPreferences
<1>19. ASSUME NEW s \in Slots, CreatePreferences(s) PROVE NotificationsTypeOK'
  <2>1. Sending(job[s]) /\ job[s].key \in Keys /\ job[s].queued \in BOOLEAN
    BY <1>0, <1>19, NotificationFacts DEF CreatePreferences, At, Sending
  <2>2. [step |-> "create", key |-> job[s].key, queued |-> job[s].queued, tokens |-> {}]
          \in NotificationJob
    BY <2>1 DEF NotificationJob
  <2>3. Jobs
    BY <1>1, <1>3, <1>19, <2>1, <2>2 DEF CreatePreferences
  <2>4. Tokens
    BY <1>0, <1>19 DEF CreatePreferences, Preferences
  <2> QED BY <1>6, <1>7, <1>19, <2>3, <2>4 DEF CreatePreferences
<1>20. ASSUME NEW s \in Slots, CreateNotification(s) PROVE NotificationsTypeOK'
  <2>1. Sending(job[s]) /\ job[s].key \in Keys /\ job[s].tokens \subseteq PushTokens
    BY <1>0, <1>20, NotificationFacts DEF CreateNotification, At, Sending
  <2>2. [step |-> "finish", key |-> job[s].key] \in NotificationJob
    BY <2>1 DEF NotificationJob
  <2>3. Jobs
    BY <1>1, <1>2, <1>20, <2>2 DEF CreateNotification
  <2>4. Boxes
    BY <1>4, <1>20, <2>1 DEF CreateNotification
  <2>5. delivering' \subseteq [key : Keys, tokens : SUBSET PushTokens]
    BY <1>0, <1>20, <2>1 DEF CreateNotification
  <2> QED BY <1>0, <1>7, <1>20, <2>3, <2>4, <2>5
          DEF CreateNotification, NotificationsTypeOK, Jobs, Queues, Boxes
<1>21. ASSUME NEW s \in Slots, SendFails(s) PROVE NotificationsTypeOK'
  <2>1. Sending(job[s]) /\ job[s].key \in Keys
    BY <1>0, <1>21, NotificationFacts DEF SendFails, Sending
  <2>2. Jobs
    BY <1>3, <1>21, <2>1 DEF SendFails
  <2>3. Boxes
    BY <1>4, <1>7, <1>21, <2>1 DEF SendFails
  <2> QED BY <1>6, <1>7, <1>21, <2>2, <2>3 DEF SendFails
<1>22. ASSUME NEW d \in delivering, Deliver(d) PROVE NotificationsTypeOK'
  <2>1. Tokens
    BY <1>0, <1>22 DEF Deliver, Preferences
  <2> QED BY <1>6, <1>7, <1>22, <2>1 DEF Deliver
<1>23. ASSUME NEW K \in SUBSET Keys, MarkNotifications(K) PROVE NotificationsTypeOK'
  <2>1. \A k \in Keys : [inbox[k] EXCEPT !.unread = 0] \in Inbox /\ inbox[k] \in Inbox
    BY <1>0 DEF Inbox
  <2>2. Boxes
    BY <1>23, <2>1 DEF MarkNotifications, Boxes
  <2> QED BY <1>6, <1>7, <1>23, <2>2 DEF MarkNotifications
<1>24. ASSUME NEW k \in Keys, DeleteNotification(k) PROVE NotificationsTypeOK'
  <2>1. PICK n \in {inbox[k].unread, inbox[k].unread - 1} \cap 0..(inbox[k].kept - 1) :
          inbox' = [inbox EXCEPT ![k].kept = @ - 1, ![k].unread = n]
    BY <1>24 DEF DeleteNotification
  <2> DEFINE b == [inbox[k] EXCEPT !.kept = @ - 1, !.unread = n]
  <2>2. b \in Inbox
    <3>1. inbox[k] \in Inbox /\ inbox[k].kept > 0 /\ inbox[k].kept \in Nat
      BY <1>0, <1>24, NotificationFacts DEF DeleteNotification
    <3>2. inbox[k].kept - 1 \in Nat /\ n \in Nat
      BY <2>1, <3>1
    <3>3. ASSUME NEW c \in Inbox, NEW x \in Nat, NEW y \in Nat
          PROVE  [c EXCEPT !.kept = x, !.unread = y] \in Inbox
      BY DEF Inbox
    <3> QED BY <3>1, <3>2, <3>3
  <2>3. inbox' = [inbox EXCEPT ![k] = b]
    BY <1>0, <2>1
  <2> HIDE DEF b
  <2>4. Boxes
    BY <1>0, <2>2, <2>3 DEF Boxes
  <2> QED BY <1>6, <1>7, <1>24, <2>4 DEF DeleteNotification
<1>25. ASSUME NEW t \in PushTokens, NEW on \in BOOLEAN, SetPushToken(t, on)
       PROVE  NotificationsTypeOK'
  <2>1. Tokens
    BY <1>0, <1>25 DEF SetPushToken, Preferences
  <2> QED BY <1>6, <1>7, <1>25, <2>1 DEF SetPushToken
<1>26. ASSUME NEW t \in PushTokens, LoseToken(t) PROVE NotificationsTypeOK'
  BY <1>0, <1>26 DEF LoseToken, NotificationsTypeOK
<1>27. CASE CrashNotifications
  <2>1. Jobs
    BY <1>27 DEF CrashNotifications, Jobs
  <2> QED BY <1>6, <1>7, <1>27, <2>1 DEF CrashNotifications
<1>28. CASE UNCHANGED notificationVars
  BY <1>6, <1>7, <1>28 DEF notificationVars
<1> QED
  BY <1>8, <1>10, <1>11, <1>12, <1>13, <1>14, <1>16, <1>17, <1>18, <1>19, <1>20, <1>21,
     <1>22, <1>23, <1>24, <1>25, <1>26, <1>27, <1>28
     DEF NotificationsNext, QueueStep, NotificationRequests, PreferenceRequests, SendStep

\* The arithmetic of the runs.
LEMMA RunsFacts ==
  ASSUME NEW q \in QueueJob, NEW p \in QueueJob
  PROVE  /\ RunsLeft(q) \in Int /\ Runs(q) \in Int
         /\ q.made < MaxTries => RunsLeft(q) >= 0
         /\ p.asked = q.asked /\ p.direct = q.direct => Runs(p) = Runs(q)
         /\ p.asked = q.asked /\ p.direct = q.direct + 1 => Runs(p) = Runs(q) + 1
         /\ p.asked = q.asked + 1 /\ p.direct = q.direct =>
              Runs(p) = Runs(q) + (MaxTries + MaxStalls)
<1>1. /\ q.made \in Nat /\ q.stalls \in Nat /\ q.stalls <= MaxStalls /\ q.asked \in Nat
      /\ q.direct \in Nat /\ p.asked \in Nat /\ p.direct \in Nat
      /\ MaxTries \in Nat /\ MaxStalls \in Nat
  BY NotificationsAssumption DEF QueueJob
<1>2. ASSUME NEW a \in Nat, NEW b \in Nat PROVE (a + 1) * b = a * b + b
  OBVIOUS
<1>3. (q.asked + 1) * (MaxTries + MaxStalls)
        = q.asked * (MaxTries + MaxStalls) + (MaxTries + MaxStalls)
  BY <1>1, <1>2
<1>4. q.asked * (MaxTries + MaxStalls) \in Int
  BY <1>1
<1>5. RunsLeft(q) \in Int /\ (q.made < MaxTries => RunsLeft(q) >= 0)
  BY <1>1 DEF RunsLeft
<1> QED
  BY <1>1, <1>3, <1>4, <1>5 DEF Runs

\* One document more.
LEMMA StoredFacts ==
  ASSUME NotificationsTypeOK, NEW k \in Keys, Stored(k)
  PROVE  /\ inbox'[k].created = inbox[k].created + 1 /\ inbox'[k].kept = inbox[k].kept + 1
         /\ inbox'[k].unread = inbox[k].unread + 1
         /\ \A c \in Keys \ {k} : inbox'[c] = inbox[c]
<1>1. inbox \in [Keys -> Inbox] /\ inbox[k] \in Inbox
  BY DEF NotificationsTypeOK
<1>2. inbox' = [inbox EXCEPT ![k] = [inbox[k] EXCEPT !.created = @ + 1, !.kept = @ + 1,
                                                       !.unread = @ + 1]]
  BY <1>1 DEF Stored
<1>3. ASSUME NEW b \in Inbox, NEW c, c = [b EXCEPT !.created = @ + 1, !.kept = @ + 1, !.unread = @ + 1]
      PROVE  c.created = b.created + 1 /\ c.kept = b.kept + 1 /\ c.unread = b.unread + 1
  BY <1>3 DEF Inbox
<1>4. inbox'[k] = [inbox[k] EXCEPT !.created = @ + 1, !.kept = @ + 1, !.unread = @ + 1]
  BY <1>1, <1>2
<1> QED
  BY <1>1, <1>2, <1>3, <1>4

\* The queue's own steps, without a worker.
LEMMA QueueKept ==
  ASSUME NotificationsInv, NotificationsTypeOK', NEW k \in Keys,
         Enqueue(k) \/ ForgetJob(k) \/ Stalled(k) \/ Broadcast(k)
  PROVE  NotificationsInv'
<1>0. /\ NotificationsTypeOK /\ queue \in [Keys -> QueueJob] /\ KeyInv(k) /\ job' = job
      /\ queue'[k] \in QueueJob
  BY DEF NotificationsInv, NotificationsTypeOK, Enqueue, ForgetJob, Stalled, Broadcast
<1>1. PICK q \in QueueJob : q = queue[k]
  BY <1>0
<1>2. PICK p \in QueueJob : p = queue'[k]
  BY <1>0
<1>3. /\ inbox[k].created \in Nat /\ inbox[k].unread \in Nat /\ inbox[k].kept \in Nat
      /\ inbox[k].unread <= inbox[k].kept
      /\ q.made \in Nat /\ q.stalls \in Nat /\ q.stalls <= MaxStalls
      /\ MaxTries \in Nat /\ MaxTries >= 1 /\ MaxStalls \in Nat
      /\ RunsLeft(q) \in Int /\ RunsLeft(p) \in Int /\ Runs(q) \in Int
      /\ q.state \in {"waiting", "active"} => q.made < MaxTries
      /\ q.state = "completed" => inbox[k].created >= 1
  BY <1>0, <1>1, NotificationFacts, RunsFacts DEF KeyInv
<1>4. \A x \in Slots : Holding(job[x]) /\ job[x].key = k => q.state = "active"
  BY <1>1 DEF NotificationsInv, HoldersInv
<1>5. CASE Enqueue(k)
  <2>1. /\ q.state = "absent" /\ inbox' = inbox
        /\ p.state = "waiting" /\ p.made = 0 /\ p.stalls = 0 /\ p.asked = q.asked + 1
        /\ p.direct = q.direct /\ \A c \in Keys \ {k} : queue'[c] = queue[c]
    BY <1>0, <1>1, <1>2, <1>5 DEF Enqueue, QueueJob
  <2>2. RunsLeft(p) = MaxTries + MaxStalls /\ RunsLeft(q) = 0
        /\ Runs(p) = Runs(q) + (MaxTries + MaxStalls)
    BY <1>3, <2>1, RunsFacts DEF RunsLeft
  <2>3. inbox'[k].created + RunsLeft(p) + Runs(q) <= inbox[k].created + RunsLeft(q) + Runs(p)
    BY <1>3, <2>1, <2>2
  <2>4. \A x \in Slots : Holding(job[x]) => job[x].key # k
    BY <1>4, <2>1
  <2> QED BY <1>0, <1>1, <1>2, <1>3, <2>1, <2>3, <2>4, KeyPays
<1>6. CASE ForgetJob(k)
  <2>1. /\ q.state \in {"completed", "failed"} /\ inbox' = inbox
        /\ p.state = "absent" /\ p.asked = q.asked
        /\ p.direct = q.direct /\ \A c \in Keys \ {k} : queue'[c] = queue[c]
    BY <1>0, <1>1, <1>2, <1>6 DEF ForgetJob, QueueJob
  <2>2. RunsLeft(p) = 0 /\ RunsLeft(q) = 0 /\ Runs(p) = Runs(q)
    BY <1>3, <2>1, RunsFacts DEF RunsLeft
  <2>3. inbox'[k].created + RunsLeft(p) + Runs(q) <= inbox[k].created + RunsLeft(q) + Runs(p)
    BY <1>3, <2>1, <2>2
  <2>4. \A x \in Slots : Holding(job[x]) => job[x].key # k
    BY <1>4, <2>1
  <2> QED BY <1>0, <1>1, <1>2, <1>3, <2>1, <2>3, <2>4, KeyPays
<1>7. CASE Stalled(k)
  <2>1. /\ q.state = "active" /\ ~Working(k) /\ inbox' = inbox /\ p.made = q.made
        /\ p.asked = q.asked /\ p.direct = q.direct
        /\ IF q.stalls < MaxStalls THEN p.state = "waiting" /\ p.stalls = q.stalls + 1
           ELSE p.state = "failed"
        /\ \A c \in Keys \ {k} : queue'[c] = queue[c]
    BY <1>0, <1>1, <1>2, <1>7 DEF Stalled, QueueJob
  <2>2. RunsLeft(p) <= RunsLeft(q) /\ Runs(p) = Runs(q)
    BY <1>3, <2>1, RunsFacts DEF RunsLeft
  <2>3. inbox'[k].created + RunsLeft(p) + Runs(q) <= inbox[k].created + RunsLeft(q) + Runs(p)
    BY <1>3, <2>1, <2>2
  <2>4. \A x \in Slots : Holding(job[x]) => job[x].key # k
    BY <2>1 DEF Working, IsIdle, Holding, Sending
  <2> QED BY <1>0, <1>1, <1>2, <1>3, <2>1, <2>3, <2>4, KeyPays
<1>8. CASE Broadcast(k)
  <2>1. /\ p.state = q.state /\ p.made = q.made /\ p.stalls = q.stalls
        /\ p.asked = q.asked /\ p.direct = q.direct + 1
        /\ \A c \in Keys \ {k} : queue'[c] = queue[c]
    BY <1>0, <1>1, <1>2, <1>8 DEF Broadcast, QueueJob
  <2>2. RunsLeft(p) = RunsLeft(q) /\ Runs(p) = Runs(q) + 1
    BY <1>3, <2>1, RunsFacts DEF RunsLeft
  <2>3. /\ inbox'[k].created = inbox[k].created + 1 /\ inbox'[k].kept = inbox[k].kept + 1
        /\ inbox'[k].unread = inbox[k].unread + 1
        /\ \A c \in Keys \ {k} : inbox'[c] = inbox[c]
    BY <1>0, <1>8, StoredFacts DEF Broadcast
  <2>4. inbox'[k].created + RunsLeft(p) + Runs(q) <= inbox[k].created + RunsLeft(q) + Runs(p)
    BY <1>3, <2>2, <2>3
  <2> QED BY <1>0, <1>1, <1>2, <1>3, <2>1, <2>3, <2>4, KeyPays
<1> QED
  BY <1>5, <1>6, <1>7, <1>8

\* A worker takes a job, finishes it or throws; a request is sent directly.
LEMMA WorkerKept ==
  ASSUME NotificationsInv, NotificationsTypeOK', NEW s \in Slots,
         FinishJob(s) \/ ThrowJob(s) \/ \E k \in Keys : TakeJob(s, k) \/ SendDirectly(s, k)
  PROVE  NotificationsInv'
<1>0. /\ NotificationsTypeOK /\ queue \in [Keys -> QueueJob] /\ queue' \in [Keys -> QueueJob]
      /\ inbox' = inbox
  BY DEF NotificationsInv, NotificationsTypeOK, FinishJob, ThrowJob, TakeJob, SendDirectly
<1>1. ASSUME NEW k \in Keys
      PROVE  /\ inbox[k].created \in Nat /\ inbox[k].unread <= inbox[k].kept
             /\ queue[k].made \in Nat /\ queue[k].stalls \in Nat /\ queue[k].stalls <= MaxStalls
             /\ MaxTries \in Nat /\ MaxTries >= 1 /\ MaxStalls \in Nat
             /\ RunsLeft(queue[k]) \in Int /\ RunsLeft(queue'[k]) \in Int /\ Runs(queue[k]) \in Int
             /\ queue[k].state \in {"waiting", "active"} => queue[k].made < MaxTries
             /\ queue[k].state = "completed" => inbox[k].created >= 1
  <2>1. queue[k] \in QueueJob /\ queue'[k] \in QueueJob /\ KeyInv(k)
    BY <1>0 DEF NotificationsInv
  <2> QED BY <1>0, <2>1, NotificationFacts, RunsFacts DEF KeyInv
<1>2. ~Sending(Idle) /\ ~Holding(Idle) /\ Idle.step # "finish"
  BY DEF Idle, Sending, Holding
<1>3. ASSUME NEW k \in Keys, TakeJob(s, k) PROVE NotificationsInv'
  <2> DEFINE j == [step |-> "preferences", key |-> k, queued |-> TRUE]
  <2>1. PICK q \in QueueJob : q = queue[k]
    BY <1>0
  <2>2. PICK p \in QueueJob : p = queue'[k]
    BY <1>0
  <2>3. /\ Goto(s, j) /\ IsIdle(s) /\ q.state = "waiting"
        /\ p.state = "active" /\ p.made = q.made /\ p.stalls = q.stalls
        /\ p.asked = q.asked /\ p.direct = q.direct
        /\ \A c \in Keys \ {k} : queue'[c] = queue[c]
    BY <1>0, <1>3, <2>1, <2>2 DEF TakeJob, QueueJob
  <2>4. Sending(j) /\ Holding(j) /\ j.key = k /\ j.step # "finish"
    BY DEF Sending, Holding
  <2>5. ~Sending(job[s]) /\ ~Holding(job[s])
    BY <2>3 DEF IsIdle, Sending, Holding
  <2>6. \A x \in Slots \ {s} : Holding(job[x]) => job[x].key # k
    BY <2>1, <2>3 DEF NotificationsInv, HoldersInv
  <2> HIDE DEF j
  <2>7. RunsLeft(p) = RunsLeft(q) - 1 /\ Runs(p) = Runs(q)
    BY <1>1, <2>1, <2>3, RunsFacts DEF RunsLeft
  <2>8. inbox'[k].created + (IF Sending(j) THEN 1 ELSE 0) + RunsLeft(p) + Runs(q)
          <= inbox[k].created + (IF Sending(job[s]) THEN 1 ELSE 0) + RunsLeft(q) + Runs(p)
    BY <1>0, <1>1, <2>1, <2>4, <2>5, <2>7
  <2> QED BY <1>0, <1>1, <2>1, <2>2, <2>3, <2>4, <2>5, <2>6, <2>8, HandlerPays
<1>4. ASSUME NEW k \in Keys, SendDirectly(s, k) PROVE NotificationsInv'
  <2> DEFINE j == [step |-> "preferences", key |-> k, queued |-> FALSE]
  <2>1. PICK q \in QueueJob : q = queue[k]
    BY <1>0
  <2>2. PICK p \in QueueJob : p = queue'[k]
    BY <1>0
  <2>3. /\ Goto(s, j) /\ IsIdle(s)
        /\ p.state = q.state /\ p.made = q.made /\ p.stalls = q.stalls
        /\ p.asked = q.asked /\ p.direct = q.direct + 1
        /\ \A c \in Keys \ {k} : queue'[c] = queue[c]
    BY <1>0, <1>4, <2>1, <2>2 DEF SendDirectly, QueueJob
  <2>4. Sending(j) /\ ~Holding(j) /\ j.key = k /\ j.step # "finish"
    BY DEF Sending, Holding
  <2>5. ~Sending(job[s]) /\ ~Holding(job[s])
    BY <2>3 DEF IsIdle, Sending, Holding
  <2> HIDE DEF j
  <2>6. RunsLeft(p) = RunsLeft(q) /\ Runs(p) = Runs(q) + 1
    BY <1>1, <2>1, <2>3, RunsFacts DEF RunsLeft
  <2>7. inbox'[k].created + (IF Sending(j) THEN 1 ELSE 0) + RunsLeft(p) + Runs(q)
          <= inbox[k].created + (IF Sending(job[s]) THEN 1 ELSE 0) + RunsLeft(q) + Runs(p)
    BY <1>0, <1>1, <2>1, <2>4, <2>5, <2>6
  <2> QED BY <1>0, <1>1, <2>1, <2>2, <2>3, <2>4, <2>5, <2>7, HandlerPays
<1>5. CASE FinishJob(s) \/ ThrowJob(s)
  <2>0. PICK k \in Keys : k = job[s].key
    BY <1>0, <1>5, NotificationFacts DEF FinishJob, ThrowJob, At, Holding
  <2>1. PICK q \in QueueJob : q = queue[k]
    BY <1>0
  <2>2. PICK p \in QueueJob : p = queue'[k]
    BY <1>0
  <2>3. /\ Goto(s, Idle) /\ Holding(job[s]) /\ ~Sending(job[s]) /\ q.state = "active"
    BY <1>5, <2>0, <2>1 DEF FinishJob, ThrowJob, Return, At, Holding, Sending,
      NotificationsInv, HoldersInv
  <2>4. \A x \in Slots \ {s} : Holding(job[x]) => job[x].key # k
    BY <2>0, <2>3 DEF NotificationsInv, HoldersInv
  <2>5. /\ p.stalls = q.stalls /\ p.asked = q.asked /\ p.direct = q.direct
        /\ \A c \in Keys \ {k} : queue'[c] = queue[c]
        /\ \/ p.state = "completed" /\ inbox[k].created >= 1
           \/ p.state = "waiting" /\ p.made = q.made + 1 /\ p.made < MaxTries
           \/ p.state = "failed"
    <3>1. CASE FinishJob(s)
      <4>1. queue' = [queue EXCEPT ![k].state = "completed"] /\ inbox[k].created >= 1
        BY <2>0, <3>1 DEF FinishJob, NotificationsInv, HoldersInv
      <4> QED BY <1>0, <2>1, <2>2, <4>1 DEF QueueJob
    <3>2. CASE ThrowJob(s)
      <4>1. queue' = [queue EXCEPT ![k].made = @ + 1,
                        ![k].state = IF q.made + 1 < MaxTries THEN "waiting" ELSE "failed"]
        BY <2>0, <2>1, <3>2 DEF ThrowJob
      <4>2. p = [q EXCEPT !.made = @ + 1,
                   !.state = IF q.made + 1 < MaxTries THEN "waiting" ELSE "failed"]
        BY <1>0, <2>1, <2>2, <4>1
      <4>3. \A c \in Keys \ {k} : queue'[c] = queue[c]
        BY <1>0, <4>1
      <4> QED BY <4>2, <4>3 DEF QueueJob
    <3> QED BY <1>5, <3>1, <3>2
  <2>6. RunsLeft(p) <= RunsLeft(q) /\ Runs(p) = Runs(q)
    BY <1>1, <2>1, <2>3, <2>5, RunsFacts DEF RunsLeft
  <2>7. inbox'[k].created + (IF Sending(Idle) THEN 1 ELSE 0) + RunsLeft(p) + Runs(q)
          <= inbox[k].created + (IF Sending(job[s]) THEN 1 ELSE 0) + RunsLeft(q) + Runs(p)
    <3>1. RunsLeft(p) \in Int
      BY <1>1, <2>2
    <3> QED BY <1>0, <1>1, <1>2, <2>1, <2>3, <2>6, <3>1
  <2>8. p.state \in {"waiting", "active"} => p.made < MaxTries
    BY <2>5
  <2>9. p.state = "completed" => inbox'[k].created >= 1
    BY <1>0, <2>5
  <2>10. inbox'[k].created >= inbox[k].created /\ inbox'[k].unread <= inbox'[k].kept
    BY <1>0, <1>1
  <2> QED
    BY <1>0, <1>2, <2>0, <2>1, <2>2, <2>3, <2>4, <2>5, <2>7, <2>8, <2>9, <2>10, HandlerPays
<1> QED
  BY <1>3, <1>4, <1>5

\* send() on its way: the key of the handler stays the same.
LEMMA SendKept ==
  ASSUME NotificationsInv, NotificationsTypeOK', NEW s \in Slots, SendStep(s)
  PROVE  NotificationsInv'
<1>0. /\ NotificationsTypeOK /\ queue \in [Keys -> QueueJob] /\ queue' = queue
      /\ Sending(job[s])
  BY DEF NotificationsInv, NotificationsTypeOK, SendStep, FindPreferences, CreatePreferences,
     CreateNotification, SendFails, At, Sending
<1>1. PICK i \in NotificationJob : i = job[s]
  BY <1>0, NotificationFacts
<1>2. PICK k \in Keys : k = i.key
  BY <1>0, <1>1, NotificationFacts
<1>3. /\ inbox[k].created \in Nat /\ inbox[k].unread <= inbox[k].kept
      /\ inbox[k].unread \in Nat /\ inbox[k].kept \in Nat
      /\ RunsLeft(queue[k]) \in Int /\ Runs(queue[k]) \in Int
      /\ queue[k].state \in {"waiting", "active"} => queue[k].made < MaxTries
      /\ queue[k].state = "completed" => inbox[k].created >= 1
      /\ Holding(i) => queue[k].state = "active"
  <2>1. queue[k] \in QueueJob /\ KeyInv(k)
    BY <1>0 DEF NotificationsInv
  <2>2. Holding(i) => queue[k].state = "active"
    BY <1>1, <1>2 DEF NotificationsInv, HoldersInv
  <2> QED BY <1>0, <2>1, <2>2, NotificationFacts, RunsFacts DEF KeyInv
<1>4. ASSUME NEW j, Goto(s, j), Sending(j) \/ Holding(j) => j.key = k, Holding(j) => Holding(i),
             \/ inbox' = inbox /\ j.step # "finish"
             \/ Stored(k) /\ ~Sending(j)
      PROVE  NotificationsInv'
  <2>1. CASE inbox' = inbox /\ j.step # "finish"
    <3>1. inbox'[k].created + (IF Sending(j) THEN 1 ELSE 0) + RunsLeft(queue'[k]) + Runs(queue[k])
            <= inbox[k].created + (IF Sending(job[s]) THEN 1 ELSE 0) + RunsLeft(queue[k])
                 + Runs(queue'[k])
      BY <1>0, <1>3, <2>1
    <3>2. inbox'[k].created >= inbox[k].created
      BY <1>3, <2>1
    <3> QED BY <1>0, <1>1, <1>2, <1>3, <1>4, <2>1, <3>1, <3>2, HandlerPays
  <2>2. CASE Stored(k) /\ ~Sending(j)
    <3>1. /\ inbox'[k].created = inbox[k].created + 1 /\ inbox'[k].kept = inbox[k].kept + 1
          /\ inbox'[k].unread = inbox[k].unread + 1
          /\ \A c \in Keys \ {k} : inbox'[c] = inbox[c]
      BY <1>0, <2>2, StoredFacts
    <3>2. inbox'[k].created + (IF Sending(j) THEN 1 ELSE 0) + RunsLeft(queue'[k]) + Runs(queue[k])
            <= inbox[k].created + (IF Sending(job[s]) THEN 1 ELSE 0) + RunsLeft(queue[k])
                 + Runs(queue'[k])
      BY <1>0, <1>3, <2>2, <3>1
    <3>3. inbox'[k].created >= inbox[k].created /\ inbox'[k].created >= 1
          /\ inbox'[k].unread <= inbox'[k].kept
      BY <1>3, <3>1
    <3> QED BY <1>0, <1>1, <1>2, <1>3, <1>4, <3>1, <3>2, <3>3, HandlerPays
  <2> QED BY <1>4, <2>1, <2>2
<1>5. ~Sending(Idle) /\ ~Holding(Idle) /\ Idle.step # "finish"
  BY DEF Idle, Sending, Holding
<1>6. ASSUME Fail(s), inbox' = inbox \/ Stored(k) PROVE NotificationsInv'
  <2>1. CASE i.queued
    <3> DEFINE j == [step |-> "throw", key |-> k]
    <3>1. Goto(s, j)
      BY <1>1, <1>2, <1>6, <2>1 DEF Fail
    <3>2. ~Sending(j) /\ j.key = k /\ j.step # "finish" /\ Holding(i)
      BY <1>0, <1>1, <2>1 DEF Sending, Holding
    <3> HIDE DEF j
    <3> QED BY <1>4, <1>6, <3>1, <3>2
  <2>2. CASE ~i.queued
    <3>1. Goto(s, Idle)
      BY <1>1, <1>6, <2>2 DEF Fail, Return
    <3> QED BY <1>4, <1>5, <1>6, <3>1
  <2> QED BY <2>1, <2>2
<1>7. CASE FindPreferences(s)
  <2>1. CASE prefs.exists
    <3> DEFINE j == [step |-> "create", key |-> k, queued |-> i.queued, tokens |-> prefs.tokens]
    <3>1. Goto(s, j) /\ inbox' = inbox
      BY <1>1, <1>2, <1>7, <2>1 DEF FindPreferences
    <3>2. j.key = k /\ j.step # "finish" /\ (Holding(j) => Holding(i))
      BY <1>0, <1>1 DEF Sending, Holding
    <3> HIDE DEF j
    <3> QED BY <1>4, <3>1, <3>2
  <2>2. CASE ~prefs.exists
    <3> DEFINE j == [i EXCEPT !.step = "default"]
    <3>1. Goto(s, j) /\ inbox' = inbox /\ i.step = "preferences"
      BY <1>1, <1>7, <2>2 DEF FindPreferences, At
    <3>2. j.key = k /\ j.step = "default" /\ j.queued = i.queued
      BY <1>2, <3>1 DEF NotificationJob
    <3>3. Holding(j) => Holding(i)
      BY <3>1, <3>2 DEF Holding, Sending
    <3> HIDE DEF j
    <3> QED BY <1>4, <3>1, <3>2, <3>3
  <2> QED BY <2>1, <2>2
<1>8. CASE CreatePreferences(s)
  <2>1. CASE prefs.exists
    BY <1>6, <1>8, <2>1 DEF CreatePreferences
  <2>2. CASE ~prefs.exists
    <3> DEFINE j == [step |-> "create", key |-> k, queued |-> i.queued, tokens |-> {}]
    <3>1. Goto(s, j) /\ inbox' = inbox
      BY <1>1, <1>2, <1>8, <2>2 DEF CreatePreferences
    <3>2. j.key = k /\ j.step # "finish" /\ (Holding(j) => Holding(i))
      BY <1>0, <1>1 DEF Sending, Holding
    <3> HIDE DEF j
    <3> QED BY <1>4, <3>1, <3>2
  <2> QED BY <2>1, <2>2
<1>9. CASE CreateNotification(s)
  <2>1. Stored(k)
    BY <1>1, <1>2, <1>9 DEF CreateNotification
  <2>2. CASE i.queued
    <3> DEFINE j == [step |-> "finish", key |-> k]
    <3>1. Goto(s, j)
      BY <1>1, <1>2, <1>9, <2>2 DEF CreateNotification
    <3>2. ~Sending(j) /\ j.key = k /\ Holding(i)
      BY <1>0, <1>1, <2>2 DEF Sending, Holding
    <3> HIDE DEF j
    <3> QED BY <1>4, <2>1, <3>1, <3>2
  <2>3. CASE ~i.queued
    <3>1. Goto(s, Idle)
      BY <1>1, <1>9, <2>3 DEF CreateNotification, Return
    <3> QED BY <1>4, <1>5, <2>1, <3>1
  <2> QED BY <2>2, <2>3
<1>10. CASE SendFails(s)
  <2>1. Fail(s) /\ (inbox' = inbox \/ Stored(k))
    BY <1>1, <1>2, <1>10 DEF SendFails
  <2> QED BY <1>6, <2>1
<1> QED
  BY <1>7, <1>8, <1>9, <1>10 DEF SendStep

\* No step leaves the invariant.
LEMMA NotificationsStepInv ==
  NotificationsInv /\ [NotificationsNext]_notificationVars => NotificationsInv'
<1> SUFFICES ASSUME NotificationsInv, [NotificationsNext]_notificationVars
             PROVE NotificationsInv'
  OBVIOUS
<1>1. NotificationsTypeOK' /\ NotificationsTypeOK
  BY NotificationsTypeStep DEF NotificationsInv
<1>2. \A k \in Keys : inbox[k].unread <= inbox[k].kept
  BY DEF NotificationsInv, KeyInv
<1>3. CASE \/ \E d \in delivering : Deliver(d)
           \/ \E t \in PushTokens : LoseToken(t)
           \/ PreferenceRequests \/ UNCHANGED notificationVars
  <2>1. UNCHANGED <<job, queue, inbox>>
    BY <1>3 DEF Deliver, LoseToken, PreferenceRequests, SetPushToken, notificationVars
  <2> QED BY <1>1, <1>2, <2>1, NothingCreated
<1>4. CASE CrashNotifications
  <2>1. UNCHANGED <<queue, inbox>> /\ \A s \in Slots : job'[s] = Idle
    BY <1>4 DEF CrashNotifications
  <2> QED BY <1>1, <1>2, <2>1, NothingCreated
<1>5. ASSUME NEW K \in SUBSET Keys, MarkNotifications(K) PROVE NotificationsInv'
  <2>1. UNCHANGED <<job, queue>>
    BY <1>5 DEF MarkNotifications
  <2>2. ASSUME NEW k \in Keys
        PROVE  inbox'[k].created = inbox[k].created /\ inbox'[k].unread <= inbox'[k].kept
    <3>1. inbox[k] \in Inbox /\ inbox[k].unread <= inbox[k].kept
      BY <1>1, <1>2 DEF NotificationsTypeOK
    <3>2. inbox'[k] = inbox[k] \/ inbox'[k] = [inbox[k] EXCEPT !.unread = 0]
      BY <1>5 DEF MarkNotifications
    <3>3. ASSUME NEW b \in Inbox, NEW c, c = [b EXCEPT !.unread = 0]
          PROVE  c.created = b.created /\ c.unread <= c.kept
      BY <3>3 DEF Inbox
    <3> QED BY <3>1, <3>2, <3>3
  <2> QED BY <1>1, <2>1, <2>2, NothingCreated
<1>6. ASSUME NEW k \in Keys, DeleteNotification(k) PROVE NotificationsInv'
  <2>1. UNCHANGED <<job, queue>>
    BY <1>6 DEF DeleteNotification
  <2>2. PICK n \in {inbox[k].unread, inbox[k].unread - 1} \cap 0..(inbox[k].kept - 1) :
          inbox' = [inbox EXCEPT ![k].kept = @ - 1, ![k].unread = n]
    BY <1>6 DEF DeleteNotification
  <2>3. inbox \in [Keys -> Inbox] /\ inbox[k] \in Inbox
    BY <1>1 DEF NotificationsTypeOK
  <2>4. inbox'[k] = [inbox[k] EXCEPT !.kept = @ - 1, !.unread = n]
    BY <2>2, <2>3
  <2>5. ASSUME NEW b \in Inbox, NEW c, c = [b EXCEPT !.kept = @ - 1, !.unread = n],
               n <= b.kept - 1
        PROVE  c.created = b.created /\ c.unread <= c.kept
    BY <2>5 DEF Inbox
  <2>6. inbox[k].kept \in Nat /\ n <= inbox[k].kept - 1
    BY <1>1, <2>2, NotificationFacts
  <2>7. inbox'[k].created = inbox[k].created /\ inbox'[k].unread <= inbox'[k].kept
    BY <2>3, <2>4, <2>5, <2>6
  <2>8. \A c \in Keys \ {k} : inbox'[c] = inbox[c]
    BY <2>2, <2>3
  <2>9. \A c \in Keys : inbox'[c].created = inbox[c].created /\ inbox'[c].unread <= inbox'[c].kept
    BY <1>2, <2>7, <2>8
  <2> QED BY <1>1, <2>1, <2>9, NothingCreated
<1> QED
  BY <1>1, <1>3, <1>4, <1>5, <1>6, QueueKept, WorkerKept, SendKept
     DEF NotificationsNext, QueueStep, NotificationRequests

\* What is under way or may still run is not negative.
LEMMA NotificationsInvBounds == NotificationsInv => CopiesBounded
<1> SUFFICES ASSUME NotificationsInv, NEW k \in Keys
             PROVE  /\ queue[k].state = "completed" => inbox[k].created >= 1
                    /\ inbox[k].created
                         <= queue[k].asked * (MaxTries + MaxStalls) + queue[k].direct
                    /\ inbox[k].unread <= inbox[k].kept
  BY DEF CopiesBounded
<1>1. /\ queue[k] \in QueueJob /\ inbox[k].created \in Nat
      /\ queue[k].made \in Nat /\ queue[k].stalls \in Nat /\ queue[k].stalls <= MaxStalls
      /\ MaxTries \in Nat /\ MaxStalls \in Nat
  BY NotificationFacts DEF NotificationsInv
<1>2. KeyInv(k)
  BY DEF NotificationsInv
<1>3. Cardinality(Unstored(k)) \in Nat
  BY UnstoredCounted
<1>4. Runs(queue[k]) \in Int /\ RunsLeft(queue[k]) >= 0 /\ RunsLeft(queue[k]) \in Int
  <2>1. Runs(queue[k]) \in Int /\ RunsLeft(queue[k]) \in Int
    BY <1>1, RunsFacts
  <2>2. queue[k].state \in {"waiting", "active"} => queue[k].made < MaxTries
    BY <1>2 DEF KeyInv
  <2> QED BY <1>1, <2>1, <2>2 DEF RunsLeft
<1>5. inbox[k].created <= Runs(queue[k])
  BY <1>1, <1>2, <1>3, <1>4 DEF KeyInv, CopiesAccountedFor
<1> QED
  BY <1>2, <1>5 DEF KeyInv, Runs

\* An event the queue completed is stored, and stored no more often than it was
\* asked for, retried, stalled or sent past the queue.
THEOREM NotificationsCopiesBounded == NotificationsSpec => []CopiesBounded
<1> QED
  BY NotificationsInitInv, NotificationsStepInv, NotificationsInvBounds, PTL
  DEF NotificationsSpec

=============================================================================
