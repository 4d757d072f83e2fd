---------------------------- MODULE AccessProofs ----------------------------
(***************************************************************************)
(* Proofs about what limits the access to the services: refresh tokens,    *)
(* the Idempotency-Key, the rate limit, the lock of an account, one-time   *)
(* codes, for any number of handlers, tokens, seconds, requests, codes,    *)
(* limits and failures of Redis.                                           *)
(***************************************************************************)
EXTENDS RefreshTokens, Requests, Login, Otp, SumTheorems, TLAPS

-----------------------------------------------------------------------------
(* Refresh tokens: exchanged only by requests that overlap.                *)
\* The handlers that found row r and have not revoked it yet.
Holders(r) == {s \in Slots : At(s, "revoke") /\ job[s].row = r}

\* A token that may still be exchanged never was.
UnspentUntilDead == \A r \in Rows : token[r].state # "dead" => token[r].spent = 0

\* Every handler that holds a row can spend it once more, and no handler can
\* come to hold a row that is dead.
SpendersOverlap == \A r \in Rows : token[r].spent + Cardinality(Holders(r)) <= Cardinality(Slots)

TokensInv == TokensTypeOK /\ UnspentUntilDead /\ SpendersOverlap

-----------------------------------------------------------------------------
(* Counting.                                                               *)

\* The handlers of a row are some of the slots.
LEMMA HoldersFinite ==
  ASSUME NEW r \in Rows
  PROVE  /\ IsFiniteSet(Holders(r))
         /\ Cardinality(Holders(r)) \in Nat
         /\ Cardinality(Holders(r)) <= Cardinality(Slots)
         /\ Cardinality(Slots) \in Nat
  <1>1. Holders(r) \in SUBSET Slots
    BY DEF Holders
  <1>2. IsFiniteSet(Slots)
    BY ServiceAssumption
  <1>3. IsFiniteSet(Holders(r)) /\ Cardinality(Holders(r)) <= Cardinality(Slots)
    BY <1>1, <1>2, FS_Subset
  <1> QED
    BY <1>2, <1>3, FS_CardinalityType

\* Fewer handlers, fewer spenders.
LEMMA FewerHolders ==
  ASSUME NEW r \in Rows, Holders(r)' \subseteq Holders(r)
  PROVE  Cardinality(Holders(r)') <= Cardinality(Holders(r)) /\ Cardinality(Holders(r)') \in Nat
  <1>1. IsFiniteSet(Holders(r)) /\ Holders(r)' \in SUBSET Holders(r)
    BY HoldersFinite
  <1> QED
    BY <1>1, FS_Subset, FS_CardinalityType

\* A handler of the row that is done leaves one less.
LEMMA OneHolderLess ==
  ASSUME NEW r \in Rows, NEW s \in Holders(r), Holders(r)' \subseteq Holders(r) \ {s}
  PROVE  Cardinality(Holders(r)') <= Cardinality(Holders(r)) - 1 /\ Cardinality(Holders(r)') \in Nat
  <1>1. IsFiniteSet(Holders(r))
    BY HoldersFinite
  <1>2. IsFiniteSet(Holders(r) \ {s}) /\ Cardinality(Holders(r) \ {s}) = Cardinality(Holders(r)) - 1
    BY <1>1, FS_RemoveElement
  <1>3. Holders(r)' \in SUBSET (Holders(r) \ {s})
    OBVIOUS
  <1> QED
    BY <1>2, <1>3, FS_Subset, FS_CardinalityType

-----------------------------------------------------------------------------
(* The initial states and the steps.                                       *)

\* An empty table.
LEMMA TokensInitInv == TokensInit => TokensInv
  <1>1. SUFFICES ASSUME TokensInit PROVE TokensInv
    OBVIOUS
  <1>2. TokensTypeOK
    BY <1>1, RefreshTokensAssumption DEF TokensInit, TokensTypeOK, AllIdle, NoToken, TokenRow, Seconds
  <1>3. \A r \in Rows : token[r].spent = 0
    BY <1>1 DEF TokensInit, NoToken
  <1>4. SpendersOverlap
    BY <1>3, HoldersFinite DEF SpendersOverlap
  <1> QED
    BY <1>2, <1>3, <1>4 DEF TokensInv, UnspentUntilDead

\* A step that leaves the rows as they are, or makes a live or absent row live
\* or dead without spending it, keeps what is known of the rows if no handler
\* comes to hold a row that is dead.
LEMMA UnspentStep ==
  ASSUME TokensInv, TokensTypeOK',
         \A r \in Rows : token'[r].spent = token[r].spent,
         \A r \in Rows : token[r].state = "dead" => token'[r].state = "dead",
         \A r \in Rows : token[r].state = "dead" => Holders(r)' \subseteq Holders(r)
  PROVE  TokensInv'
  <1>1. \A r \in Rows : token[r].spent \in Nat
    BY DEF TokensInv, TokensTypeOK, TokenRow
  <1>2. UnspentUntilDead'
    BY DEF TokensInv, UnspentUntilDead
  <1>3. SpendersOverlap'
    <2>1. SUFFICES ASSUME NEW r \in Rows
                   PROVE  token'[r].spent + Cardinality(Holders(r)') <= Cardinality(Slots)
      BY DEF SpendersOverlap
    <2>2. CASE token[r].state = "dead"
      <3>1. Cardinality(Holders(r)') <= Cardinality(Holders(r)) /\ Cardinality(Holders(r)') \in Nat
        BY <2>2, FewerHolders
      <3>2. token[r].spent + Cardinality(Holders(r)) <= Cardinality(Slots)
        BY DEF TokensInv, SpendersOverlap
      <3> QED
        BY <1>1, <3>1, <3>2, HoldersFinite
    <2>3. CASE token[r].state # "dead"
      <3>1. token'[r].spent = 0
        BY <2>3 DEF TokensInv, UnspentUntilDead
      <3>2. Holders(r)' \in SUBSET Slots
        BY DEF Holders
      <3>3. Cardinality(Holders(r)') <= Cardinality(Slots) /\ Cardinality(Holders(r)') \in Nat
        BY <3>2, ServiceAssumption, FS_Subset, FS_CardinalityType
      <3> QED
        BY <3>1, <3>3
    <2> QED
      BY <2>2, <2>3
  <1> QED
    BY <1>2, <1>3 DEF TokensInv

\* Steps of the clock, and requests that only read.
LEMMA QuietSteps ==
  ASSUME TokensInv,
         NextSecond
         \/ \E s \in Slots : \/ SignIn(s) \/ DeleteSessions(s) \/ AbandonToken(s)
                             \/ \E t \in Seconds : FindToken(s, t)
  PROVE  TokensInv'
  <1> USE DEF Goto, Return, At, IsIdle, Idle
  <1>1. TokensTypeOK
    BY DEF TokensInv
  <1>2. token' = token
    BY DEF NextSecond, SignIn, DeleteSessions, AbandonToken, FindToken
  <1>3. TokensTypeOK'
    <2>1. second' \in Seconds
      BY <1>1, RefreshTokensAssumption
      DEF TokensTypeOK, Seconds, NextSecond, SignIn, DeleteSessions, AbandonToken, FindToken
    <2>2. job' \in [Slots -> TokenJob \cup {Idle}]
      BY <1>1 DEF TokensTypeOK, TokenJob, NextSecond, SignIn, DeleteSessions, AbandonToken, FindToken
    <2> QED
      BY <1>1, <1>2, <2>1, <2>2 DEF TokensTypeOK
  <1>4. ASSUME NEW r \in Rows, token[r].state = "dead"
        PROVE  Holders(r)' \subseteq Holders(r)
    <2>1. SUFFICES ASSUME NEW q \in Slots, job'[q].step = "revoke", job'[q].row = r
                   PROVE  job'[q] = job[q]
      BY DEF Holders
    <2>2. job \in [Slots -> TokenJob \cup {Idle}]
      BY <1>1 DEF TokensTypeOK
    <2> QED
      BY <1>4, <2>1, <2>2 DEF NextSecond, SignIn, DeleteSessions, AbandonToken, FindToken
  <1> QED
    BY <1>2, <1>3, <1>4, UnspentStep

\* A row is issued.
LEMMA GenerateTokensInv ==
  ASSUME TokensInv, NEW s \in Slots, GenerateTokens(s) PROVE TokensInv'
  <1> USE DEF Goto, Return, At, Idle
  <1>1. TokensTypeOK
    BY DEF TokensInv
  <1>2. PICK n \in Rows : /\ token[n].state = "absent"
                          /\ token' = [token EXCEPT ![n].state = "live", ![n].second = second]
    BY DEF GenerateTokens
  <1>3. job' = [job EXCEPT ![s] = [step |-> "idle"]] /\ second' = second
    BY DEF GenerateTokens
  <1>4. TokensTypeOK'
    BY <1>1, <1>2, <1>3 DEF TokensTypeOK, TokenRow, TokenJob
  <1>5. ASSUME NEW r \in Rows, token[r].state = "dead"
        PROVE  token'[r].state = "dead" /\ Holders(r)' \subseteq Holders(r)
    BY <1>1, <1>2, <1>3, <1>5 DEF TokensTypeOK, Holders
  <1>6. \A r \in Rows : token'[r].spent = token[r].spent
    BY <1>1, <1>2 DEF TokensTypeOK, TokenRow
  <1> QED
    BY <1>4, <1>5, <1>6, UnspentStep

\* A set of rows is revoked, or one expires.
LEMMA RevokeInv ==
  ASSUME TokensInv,
         \/ \E r \in Rows : ExpireToken(r)
         \/ \E t \in Seconds : Logout(t)
         \/ \E s \in Slots : RevokeAll(s)
  PROVE  TokensInv'
  <1> USE DEF Goto, IsIdle, Idle
  <1>1. TokensTypeOK
    BY DEF TokensInv
  <1>2. /\ token' \in [Rows -> TokenRow]
        /\ \A r \in Rows : /\ token'[r].spent = token[r].spent
                           /\ token[r].state = "dead" => token'[r].state = "dead"
    <2>1. CASE \E r \in Rows : ExpireToken(r)
      BY <1>1, <2>1 DEF ExpireToken, TokensTypeOK, TokenRow
    <2>2. ASSUME NEW R, Revoke(R)
          PROVE  /\ token' \in [Rows -> TokenRow]
                 /\ \A r \in Rows : /\ token'[r].spent = token[r].spent
                                    /\ token[r].state = "dead" => token'[r].state = "dead"
      BY <1>1, <2>2 DEF Revoke, TokensTypeOK, TokenRow
    <2> QED
      BY <2>1, <2>2 DEF Logout, RevokeAll
  <1>3. /\ second' = second
        /\ \/ job' = job
           \/ \E s \in Slots : job' = [job EXCEPT ![s] = [step |-> "sessions"]]
    BY DEF ExpireToken, Logout, RevokeAll
  <1>4. TokensTypeOK'
    BY <1>1, <1>2, <1>3 DEF TokensTypeOK, TokenJob
  <1>5. \A r \in Rows : Holders(r)' \subseteq Holders(r)
    BY <1>1, <1>3 DEF Holders, At, TokensTypeOK
  <1> QED
    BY <1>2, <1>4, <1>5, UnspentStep

\* A row is spent by one of its handlers, and dead from then on.
LEMMA RevokeTokenInv ==
  ASSUME TokensInv, NEW s \in Slots, RevokeToken(s) PROVE TokensInv'
  <1> USE DEF Goto, At, Idle
  <1>1. TokensTypeOK
    BY DEF TokensInv
  <1> DEFINE n == job[s].row
  <1>2. n \in Rows /\ s \in Holders(n)
    BY <1>1 DEF RevokeToken, TokensTypeOK, TokenJob, Holders
  <1>3. /\ token' = [token EXCEPT ![n].state = "dead", ![n].spent = @ + 1]
        /\ job' = [job EXCEPT ![s] = [step |-> "issue"]]
        /\ second' = second
    BY DEF RevokeToken
  <1>4. TokensTypeOK'
    BY <1>1, <1>2, <1>3 DEF TokensTypeOK, TokenRow, TokenJob
  <1>5. UnspentUntilDead'
    BY <1>1, <1>2, <1>3 DEF TokensInv, TokensTypeOK, TokenRow, UnspentUntilDead
  <1>6. ASSUME NEW r \in Rows
        PROVE  token'[r].spent + Cardinality(Holders(r)') <= Cardinality(Slots)
    <2>1. token[r].spent \in Nat /\ token[r].spent + Cardinality(Holders(r)) <= Cardinality(Slots)
      BY <1>1 DEF TokensInv, SpendersOverlap, TokensTypeOK, TokenRow
    <2>2. Holders(r)' \subseteq Holders(r) \ {s}
      BY <1>1, <1>3 DEF Holders, TokensTypeOK
    <2>3. CASE r = n
      <3>1. token'[r].spent = token[r].spent + 1
        BY <1>1, <1>2, <1>3, <2>3 DEF TokensTypeOK, TokenRow
      <3>2. Cardinality(Holders(r)') <= Cardinality(Holders(r)) - 1 /\ Cardinality(Holders(r)') \in Nat
        BY <1>2, <2>2, <2>3, OneHolderLess
      <3> QED
        BY <2>1, <3>1, <3>2, HoldersFinite
    <2>4. CASE r # n
      <3>1. token'[r].spent = token[r].spent
        BY <1>1, <1>2, <1>3, <2>4 DEF TokensTypeOK
      <3>2. Cardinality(Holders(r)') <= Cardinality(Holders(r)) /\ Cardinality(Holders(r)') \in Nat
        BY <2>2, FewerHolders
      <3> QED
        BY <2>1, <3>1, <3>2, HoldersFinite
    <2> QED
      BY <2>3, <2>4
  <1> QED
    BY <1>4, <1>5, <1>6 DEF TokensInv, SpendersOverlap

\* No step leaves the invariant.
LEMMA TokensStepInv == TokensInv /\ [TokensNext]_tokenVars => TokensInv'
  <1>1. SUFFICES ASSUME TokensInv, [TokensNext]_tokenVars PROVE TokensInv'
    OBVIOUS
  <1>2. CASE NextSecond
    BY <1>1, <1>2, QuietSteps
  <1>3. CASE \E r \in Rows : ExpireToken(r)
    BY <1>1, <1>3, RevokeInv
  <1>4. CASE \E t \in Seconds : Logout(t)
    BY <1>1, <1>4, RevokeInv
  <1>5. ASSUME NEW s \in Slots,
               \/ SignIn(s) \/ DeleteSessions(s) \/ AbandonToken(s)
               \/ \E t \in Seconds : FindToken(s, t)
        PROVE  TokensInv'
    BY <1>1, <1>5, QuietSteps
  <1>6. ASSUME NEW s \in Slots, GenerateTokens(s) PROVE TokensInv'
    BY <1>1, <1>6, GenerateTokensInv
  <1>7. ASSUME NEW s \in Slots, RevokeToken(s) PROVE TokensInv'
    BY <1>1, <1>7, RevokeTokenInv
  <1>8. ASSUME NEW s \in Slots, RevokeAll(s) PROVE TokensInv'
    BY <1>1, <1>8, RevokeInv
  <1>9. CASE UNCHANGED tokenVars
    BY <1>1, <1>9
    DEF tokenVars, TokensInv, TokensTypeOK, UnspentUntilDead, SpendersOverlap, Holders, At
  <1> QED
    BY <1>1, <1>2, <1>3, <1>4, <1>5, <1>6, <1>7, <1>8, <1>9 DEF TokensNext

-----------------------------------------------------------------------------
\* The invariant holds in every state of every behaviour.
LEMMA TokensAlwaysInv == TokensSpec => []TokensInv
  BY TokensInitInv, TokensStepInv, PTL DEF TokensSpec

\* The table and the handlers' locals keep their types, whatever the number of
\* handlers.
THEOREM TokensTypeCorrect == TokensSpec => []TokensTypeOK
  <1>1. TokensInv => TokensTypeOK
    BY DEF TokensInv
  <1> QED
    BY <1>1, TokensAlwaysInv, PTL

\* refresh() exchanges a row at most once for each handler that found it before
\* the first of them revoked it, and never while it is live: over the rows that
\* one token names, its exchanges are those of the rows that are dead.
THEOREM TokensExchangedWithinRows == TokensSpec => []ExchangesWithinRows
  <1> DEFINE spent == [r \in Rows |-> token[r].spent]
             Dead(t) == {r \in RowsOf(t) : token[r].state = "dead"}
  <1>1. ASSUME TokensInv, NEW r \in Rows
        PROVE  /\ spent[r] \in Nat /\ spent[r] <= Cardinality(Slots)
               /\ r \in Rows /\ token[r].state # "dead" => spent[r] = 0
    <2>1. token[r].spent \in Nat /\ token[r].spent + Cardinality(Holders(r)) <= Cardinality(Slots)
      BY <1>1 DEF TokensInv, SpendersOverlap, TokensTypeOK, TokenRow
    <2>2. token[r].state # "dead" => token[r].spent = 0
      BY <1>1 DEF TokensInv, UnspentUntilDead
    <2> QED
      BY <2>1, <2>2, HoldersFinite
  <1>2. ASSUME TokensInv, NEW t \in Seconds
        PROVE  Sum(spent, RowsOf(t)) <= Cardinality(Slots) * Cardinality(Dead(t))
    <2> DEFINE live == RowsOf(t) \ Dead(t)
    <2>1. /\ IsFiniteSet(RowsOf(t)) /\ IsFiniteSet(Dead(t)) /\ IsFiniteSet(live)
          /\ live \cap Dead(t) = {} /\ RowsOf(t) = live \cup Dead(t)
          /\ Cardinality(Slots) \in Nat /\ Cardinality(live) \in Nat /\ Cardinality(Dead(t)) \in Nat
      <3>1. RowsOf(t) \in SUBSET Rows /\ Dead(t) \in SUBSET Rows /\ live \in SUBSET Rows
        BY DEF RowsOf
      <3>2. IsFiniteSet(RowsOf(t)) /\ IsFiniteSet(Dead(t)) /\ IsFiniteSet(live)
        BY <3>1, RefreshTokensAssumption, FS_Subset
      <3> QED
        BY <3>2, ServiceAssumption, FS_CardinalityType
    <2>2. /\ \A r \in live : spent[r] \in Int /\ spent[r] \in 0..0
          /\ \A r \in Dead(t) : spent[r] \in Int /\ spent[r] \in 0..Cardinality(Slots)
      <3>1. \A r \in RowsOf(t) : r \in Rows
        BY DEF RowsOf
      <3>2. ASSUME NEW r \in live PROVE spent[r] = 0
        BY <1>1, <1>2, <3>1
      <3>3. ASSUME NEW r \in Dead(t)
            PROVE  spent[r] \in Nat /\ spent[r] <= Cardinality(Slots)
        BY <1>1, <1>2, <3>1
      <3> HIDE DEF spent, live, Dead
      <3> QED
        BY <2>1, <3>2, <3>3
    <2> HIDE DEF spent, live, Dead
    <2>3. Sum(spent, live) \in 0..(0 * Cardinality(live))
      BY <2>1, <2>2, SumUpTo
    <2>4. Sum(spent, Dead(t)) \in 0..(Cardinality(Slots) * Cardinality(Dead(t)))
      BY <2>1, <2>2, SumUpTo
    <2>5. Sum(spent, live \cup Dead(t)) = Sum(spent, live) + Sum(spent, Dead(t))
      BY <2>1, <2>2, SumUnion
    <2>6. Sum(spent, live) = 0
      BY <2>1, <2>3
    <2>7. Cardinality(Slots) * Cardinality(Dead(t)) \in Nat
      BY <2>1
    <2>8. Sum(spent, RowsOf(t)) = Sum(spent, live) + Sum(spent, Dead(t))
      BY <2>1, <2>5, Zenon
    <2> QED
      BY <2>4, <2>6, <2>7, <2>8
  <1>3. TokensInv => ExchangesWithinRows
    BY <1>2 DEF ExchangesWithinRows
  <1> QED
    BY <1>3, TokensAlwaysInv, PTL

-----------------------------------------------------------------------------
(* Requests: the handler of an Idempotency-Key runs again only where its   *)
(* requests overlap or where an answer was lost.                           *)

SlotsAt(st) == {s \in Slots : At(s, st)}

AtOnce == Cardinality(Slots)

\* While no answer is cached, every request that ran its handler since the last
\* failure still waits to store the answer; once one is, the handlers that are
\* under way are the only ones that can still run.
RunsAccountedFor ==
  /\ ~cached => runs <= AtOnce * lapses + Cardinality(SlotsAt("cache"))
  /\ cached  => runs + Cardinality(SlotsAt("handler")) <= AtOnce * lapses + AtOnce

RequestsInv == RequestsTypeOK /\ RunsAccountedFor

-----------------------------------------------------------------------------
(* Counting.                                                               *)

\* There is a slot.
LEMMA HandlersCounted == IsFiniteSet(Slots) /\ AtOnce \in Nat /\ AtOnce >= 1
  <1>1. IsFiniteSet(Slots) /\ Slots # {}
    BY ServiceAssumption
  <1>2. AtOnce \in Nat /\ AtOnce # 0
    BY <1>1, FS_CardinalityType, FS_EmptySet DEF AtOnce
  <1> QED
    BY <1>1, <1>2

\* No more requests are at a step than there are slots.
LEMMA SlotsAtCounted ==
  ASSUME NEW st
  PROVE  /\ IsFiniteSet(SlotsAt(st)) /\ Cardinality(SlotsAt(st)) \in 0..AtOnce
         /\ IsFiniteSet(SlotsAt(st)') /\ Cardinality(SlotsAt(st)') \in 0..AtOnce
  <1>1. ASSUME NEW T \in SUBSET Slots PROVE IsFiniteSet(T) /\ Cardinality(T) \in 0..AtOnce
    <2>1. IsFiniteSet(T) /\ Cardinality(T) <= AtOnce
      BY HandlersCounted, FS_Subset DEF AtOnce
    <2>2. Cardinality(T) \in Nat
      BY <2>1, FS_CardinalityType
    <2> QED
      BY <2>1, <2>2, HandlersCounted
  <1>2. SlotsAt(st) \in SUBSET Slots /\ SlotsAt(st)' \in SUBSET Slots
    BY DEF SlotsAt
  <1> QED
    BY <1>1, <1>2

\* Those at "handler" and those at "cache" are different slots.
LEMMA HandlersAndCaches ==
  Cardinality(SlotsAt("handler")) + Cardinality(SlotsAt("cache")) <= AtOnce
  <1> DEFINE H == SlotsAt("handler")
             C == SlotsAt("cache")
  <1>1. H \cap C = {} /\ H \cup C \in SUBSET Slots
    BY DEF SlotsAt, At
  <1>2. IsFiniteSet(H) /\ IsFiniteSet(C) /\ Cardinality(H) \in Nat /\ Cardinality(C) \in Nat
    BY SlotsAtCounted, HandlersCounted
  <1>3. Cardinality(H \cup C) = Cardinality(H) + Cardinality(C) - Cardinality(H \cap C)
    BY <1>2, FS_Union
  <1>4. Cardinality(H \cap C) = 0
    BY <1>1, FS_EmptySet
  <1>5. Cardinality(H \cup C) <= AtOnce
    BY <1>1, HandlersCounted, FS_Subset DEF AtOnce
  <1> QED
    BY <1>2, <1>3, <1>4, <1>5

\* A request that reaches a step is one more there, one that leaves it one less.
LEMMA OneMoves ==
  ASSUME RequestsTypeOK, NEW s \in Slots, NEW j, Goto(s, j), NEW st
  PROVE  /\ ~At(s, st) /\ j.step # st => SlotsAt(st)' = SlotsAt(st)
         /\ ~At(s, st) /\ j.step = st =>
              Cardinality(SlotsAt(st)') = Cardinality(SlotsAt(st)) + 1
         /\ At(s, st) /\ j.step # st =>
              Cardinality(SlotsAt(st)') = Cardinality(SlotsAt(st)) - 1
  <1>1. \A t \in Slots : job'[t] = IF t = s THEN j ELSE job[t]
    BY DEF Goto, RequestsTypeOK
  <1>2. IsFiniteSet(SlotsAt(st))
    BY SlotsAtCounted
  <1>3. ASSUME ~At(s, st), j.step # st PROVE SlotsAt(st)' = SlotsAt(st)
    BY <1>1, <1>3 DEF SlotsAt, At
  <1>4. ASSUME ~At(s, st), j.step = st
        PROVE  Cardinality(SlotsAt(st)') = Cardinality(SlotsAt(st)) + 1
    <2>1. SlotsAt(st)' = SlotsAt(st) \cup {s} /\ s \notin SlotsAt(st)
      BY <1>1, <1>4 DEF SlotsAt, At
    <2> QED
      BY <1>2, <2>1, FS_AddElement
  <1>5. ASSUME At(s, st), j.step # st
        PROVE  Cardinality(SlotsAt(st)') = Cardinality(SlotsAt(st)) - 1
    <2>1. SlotsAt(st)' = SlotsAt(st) \ {s} /\ s \in SlotsAt(st)
      BY <1>1, <1>5 DEF SlotsAt, At
    <2> QED
      BY <1>2, <2>1, FS_RemoveElement
  <1> QED
    BY <1>3, <1>4, <1>5

-----------------------------------------------------------------------------
(* Types.                                                                  *)

\* Nothing counted, nothing stored.
LEMMA RequestsInitInv == RequestsInit => RequestsInv
  <1>1. SUFFICES ASSUME RequestsInit PROVE RequestsInv
    OBVIOUS
  <1>2. RequestsTypeOK
    <2>1. 0 \in 0..(Limit + 1) /\ 0 \in 0..WindowMs /\ 0 \in 0..MaxLapses
      BY RequestsAssumption
    <2>2. admitted \in [0..(WindowMs - 1) -> Nat] /\ job \in [Slots -> RequestJob \cup {Idle}]
      BY <1>1 DEF RequestsInit, AllIdle
    <2> QED
      BY <1>1, <2>1, <2>2 DEF RequestsInit, RequestsTypeOK
  <1>3. runs = 0 /\ lapses = 0 /\ ~cached
    BY <1>1 DEF RequestsInit
  <1> QED
    BY <1>2, <1>3, SlotsAtCounted, HandlersCounted DEF RequestsInv, RunsAccountedFor

\* What a request of slot s does.
RequestStep(s) ==
  \/ EvalLua(s) \/ FailOpen(s) \/ TryReplay(s) \/ ReplayFails(s)
  \/ RunHandler(s) \/ HandlerThrows(s) \/ CacheResponse(s) \/ CacheFails(s)

\* The counter of the rate limit and its time to live stay in range.
LEMMA CounterType ==
  ASSUME RequestsTypeOK, Tick \/ CacheExpires \/ \E s \in Slots : RequestStep(s)
  PROVE  /\ count' \in 0..(Limit + 1) /\ ttl' \in 0..WindowMs
         /\ admitted' \in [0..(WindowMs - 1) -> Nat]
  <1> USE RequestsAssumption DEF RequestsTypeOK
  <1>1. 0 \in 0..(WindowMs - 1)
    OBVIOUS
  <1>2. CASE Tick
    <2>1. count' \in 0..(Limit + 1) /\ ttl' \in 0..WindowMs
      BY <1>2 DEF Tick
    <2>2. \A t \in 0..(WindowMs - 1) : (IF t = 0 THEN 0 ELSE admitted[t - 1]) \in Nat
      <3>1. SUFFICES ASSUME NEW t \in 0..(WindowMs - 1), t # 0 PROVE admitted[t - 1] \in Nat
        OBVIOUS
      <3>2. t - 1 \in 0..(WindowMs - 1)
        BY <3>1
      <3> QED
        BY <3>2
    <2>3. DOMAIN admitted = 0..(WindowMs - 1)
      OBVIOUS
    <2> QED
      BY <1>2, <2>1, <2>2, <2>3 DEF Tick
  <1>3. CASE CacheExpires
    BY <1>3 DEF CacheExpires
  <1>4. ASSUME NEW s \in Slots, EvalLua(s)
        PROVE  /\ count' \in 0..(Limit + 1) /\ ttl' \in 0..WindowMs
               /\ admitted' \in [0..(WindowMs - 1) -> Nat]
    <2>1. count' \in 0..(Limit + 1) /\ ttl' \in 0..WindowMs
      BY <1>4 DEF EvalLua, CountedTo
    <2>2. admitted' = admitted \/ admitted' = [admitted EXCEPT ![0] = @ + 1]
      BY <1>4 DEF EvalLua
    <2> QED
      BY <1>1, <2>1, <2>2
  <1>5. ASSUME NEW s \in Slots, RequestStep(s), ~EvalLua(s)
        PROVE  UNCHANGED <<count, ttl, admitted>>
    BY <1>5
    DEF RequestStep, FailOpen, TryReplay, ReplayFails, RunHandler, HandlerThrows, CacheResponse, CacheFails
  <1> QED
    BY <1>2, <1>3, <1>4, <1>5

\* So do the other variables.
LEMMA RequestsTypeStep ==
  ASSUME RequestsTypeOK, Tick \/ CacheExpires \/ \E s \in Slots : RequestStep(s)
  PROVE  RequestsTypeOK'
  <1> USE RequestsAssumption DEF RequestsTypeOK, RequestJob, Idle, Goto, Return, At, IsIdle, Lapse
  <1>1. CASE Tick \/ CacheExpires
    <2>1. /\ job' = job /\ runs' = runs /\ cached' \in BOOLEAN
          /\ lapses' = lapses \/ (lapses < MaxLapses /\ lapses' = lapses + 1)
      BY <1>1 DEF Tick, CacheExpires
    <2>2. /\ count' \in 0..(Limit + 1) /\ ttl' \in 0..WindowMs
          /\ admitted' \in [0..(WindowMs - 1) -> Nat]
      BY <1>1, CounterType
    <2> QED
      BY <2>1, <2>2
  <1>2. ASSUME NEW s \in Slots, RequestStep(s) PROVE RequestsTypeOK'
    <2>1. /\ runs' = runs \/ runs' = runs + 1
          /\ lapses' = lapses \/ (lapses < MaxLapses /\ lapses' = lapses + 1)
          /\ cached' \in BOOLEAN
      BY <1>2
      DEF RequestStep, EvalLua, FailOpen, TryReplay, ReplayFails, RunHandler, HandlerThrows,
          CacheResponse, CacheFails
    <2>2. \/ job' = job
          \/ \E st \in {"idle", "replay", "handler", "cache"} : job' = [job EXCEPT ![s] = [step |-> st]]
          \/ job' = [t \in Slots |-> [step |-> "idle"]]
      BY <1>2
      DEF RequestStep, EvalLua, FailOpen, TryReplay, ReplayFails, RunHandler, HandlerThrows,
          CacheResponse, CacheFails
    <2>3. job' \in [Slots -> RequestJob \cup {Idle}]
      BY <2>2
    <2>4. /\ count' \in 0..(Limit + 1) /\ ttl' \in 0..WindowMs
          /\ admitted' \in [0..(WindowMs - 1) -> Nat]
      BY <1>2, CounterType
    <2> QED
      BY <2>1, <2>3, <2>4
  <1> QED
    BY <1>1, <1>2

-----------------------------------------------------------------------------
(* What the runs are accounted for.                                        *)

\* A lapse pays for every slot once more, wherever the requests are.
LEMMA LapseStep ==
  ASSUME RequestsInv, lapses' = lapses + 1, runs' = runs, RequestsTypeOK',
         \/ cached' = FALSE
         \/ cached' = cached /\ \E s \in Slots : \E j : Goto(s, j)
         \/ cached' = cached /\ job' = [t \in Slots |-> Idle]
  PROVE  RunsAccountedFor'
  <1>1. runs \in Nat /\ lapses \in Nat /\ runs <= AtOnce * lapses + AtOnce
    BY SlotsAtCounted, HandlersCounted, RequestsAssumption
    DEF RequestsInv, RequestsTypeOK, RunsAccountedFor
  <1>2. AtOnce * lapses' = AtOnce * lapses + AtOnce /\ AtOnce * lapses \in Nat
    BY <1>1, HandlersCounted
  <1>3. Cardinality(SlotsAt("handler")') <= AtOnce /\ Cardinality(SlotsAt("handler")') \in Nat
    BY SlotsAtCounted, HandlersCounted
  <1>4. Cardinality(SlotsAt("cache")') \in Nat
    BY SlotsAtCounted, HandlersCounted
  <1>5. runs' <= AtOnce * lapses' + Cardinality(SlotsAt("cache")')
    BY <1>1, <1>2, <1>4, HandlersCounted
  <1>6. runs' + Cardinality(SlotsAt("handler")') <= AtOnce * lapses' + AtOnce
    BY <1>1, <1>2, <1>3, HandlersCounted
  <1> QED
    BY <1>5, <1>6 DEF RunsAccountedFor, AtOnce

\* The steps of a request in which everything is answered.
LEMMA AnsweredStep ==
  ASSUME RequestsInv, NEW s \in Slots,
         \/ EvalLua(s) \/ TryReplay(s) \/ RunHandler(s) \/ HandlerThrows(s) \/ CacheResponse(s)
  PROVE  RunsAccountedFor'
  <1> DEFINE H == Cardinality(SlotsAt("handler"))
             C == Cardinality(SlotsAt("cache"))
             K == AtOnce * lapses
  <1>1. RequestsTypeOK
    BY DEF RequestsInv
  <1>2. /\ runs \in Nat /\ K \in Nat /\ H \in 0..AtOnce /\ C \in 0..AtOnce /\ H + C <= AtOnce
        /\ H' \in 0..AtOnce /\ C' \in 0..AtOnce /\ AtOnce \in Nat /\ AtOnce' = AtOnce
    BY <1>1, SlotsAtCounted, HandlersCounted, HandlersAndCaches, RequestsAssumption
    DEF RequestsTypeOK, AtOnce
  <1>3. lapses' = lapses /\ K' = K
    BY DEF EvalLua, TryReplay, RunHandler, HandlerThrows, CacheResponse, AtOnce
  <1>4. (~cached => runs <= K + C) /\ (cached => runs + H <= K + AtOnce)
    BY DEF RequestsInv, RunsAccountedFor
  <1>5. SUFFICES (~cached' => runs' <= K' + C') /\ (cached' => runs' + H' <= K' + AtOnce')
    BY DEF RunsAccountedFor
  <1>6. CASE EvalLua(s)
    <2>1. cached' = cached /\ runs' = runs /\ (job' = job \/ Goto(s, [step |-> "replay"]))
      BY <1>6 DEF EvalLua
    <2>2. ~At(s, "handler") /\ ~At(s, "cache")
      BY <1>6 DEF EvalLua, IsIdle, At
    <2>3. SlotsAt("handler")' = SlotsAt("handler") /\ SlotsAt("cache")' = SlotsAt("cache")
      <3>1. CASE job' = job
        BY <3>1 DEF SlotsAt, At
      <3>2. CASE Goto(s, [step |-> "replay"])
        BY <1>1, <2>2, <3>2, OneMoves
      <3> QED
        BY <2>1, <3>1, <3>2
    <2> QED
      BY <1>2, <1>3, <1>4, <2>1, <2>3
  <1>7. CASE TryReplay(s)
    <2>1. cached' = cached /\ runs' = runs /\ ~At(s, "handler") /\ ~At(s, "cache")
      BY <1>7 DEF TryReplay, At
    <2>2. CASE cached
      <3>1. Goto(s, Idle) /\ Idle.step # "handler"
        BY <1>7, <2>2 DEF TryReplay, Idle
      <3>2. H' = H
        BY <1>1, <2>1, <3>1, OneMoves
      <3> QED
        BY <1>2, <1>3, <1>4, <2>1, <2>2, <3>2
    <2>3. CASE ~cached
      <3>1. Goto(s, [step |-> "handler"])
        BY <1>7, <2>3 DEF TryReplay
      <3>2. C' = C
        BY <1>1, <2>1, <3>1, OneMoves
      <3> QED
        BY <1>2, <1>3, <1>4, <2>1, <2>3, <3>2
    <2> QED
      BY <2>2, <2>3
  <1>8. CASE RunHandler(s)
    <2>1. /\ cached' = cached /\ runs' = runs + 1
          /\ At(s, "handler") /\ ~At(s, "cache") /\ Goto(s, [step |-> "cache"])
      BY <1>8 DEF RunHandler, At
    <2>2. H' = H - 1 /\ C' = C + 1
      BY <1>1, <2>1, OneMoves
    <2> QED
      BY <1>2, <1>3, <1>4, <2>1, <2>2
  <1>9. CASE HandlerThrows(s)
    <2>1. /\ cached' = cached /\ runs' = runs
          /\ At(s, "handler") /\ ~At(s, "cache") /\ Goto(s, Idle)
          /\ Idle.step # "handler" /\ Idle.step # "cache"
      BY <1>9 DEF HandlerThrows, At, Return, Idle
    <2>2. H' = H - 1 /\ C' = C
      BY <1>1, <2>1, OneMoves
    <2> QED
      BY <1>2, <1>3, <1>4, <2>1, <2>2
  <1>10. CASE CacheResponse(s)
    <2>1. /\ cached' = TRUE /\ runs' = runs /\ ~At(s, "handler") /\ Goto(s, Idle)
          /\ Idle.step # "handler"
      BY <1>10 DEF CacheResponse, At, Return, Idle
    <2>2. H' = H
      BY <1>1, <2>1, OneMoves
    <2>3. cached \in BOOLEAN
      BY <1>1 DEF RequestsTypeOK
    <2> QED
      BY <1>2, <1>3, <1>4, <2>1, <2>2, <2>3
  <1> QED
    BY <1>6, <1>7, <1>8, <1>9, <1>10

\* No step leaves the invariant.
LEMMA RequestsStepInv == RequestsInv /\ [RequestsNext]_requestVars => RequestsInv'
  <1>1. SUFFICES ASSUME RequestsInv, [RequestsNext]_requestVars PROVE RequestsInv'
    OBVIOUS
  <1>2. CASE UNCHANGED requestVars
    BY <1>1, <1>2
    DEF requestVars, RequestsInv, RequestsTypeOK, RunsAccountedFor, SlotsAt, At, AtOnce
  <1>3. CASE RequestsNext
    <2>1. Tick \/ CacheExpires \/ \E s \in Slots : RequestStep(s)
      BY <1>3 DEF RequestsNext, RequestStep
    <2>2. RequestsTypeOK'
      BY <1>1, <2>1, RequestsTypeStep DEF RequestsInv
    <2>3. CASE Tick
      BY <1>1, <2>2, <2>3 DEF Tick, RequestsInv, RunsAccountedFor, SlotsAt, At, AtOnce
    <2>4. CASE CacheExpires
      BY <1>1, <2>2, <2>4, LapseStep DEF CacheExpires, Lapse, RequestsInv
    <2>5. ASSUME NEW s \in Slots, FailOpen(s) \/ ReplayFails(s) \/ CacheFails(s)
          PROVE  RunsAccountedFor'
      <3>1. /\ lapses' = lapses + 1 /\ runs' = runs /\ cached' = cached
            /\ (\E j : Goto(s, j)) \/ job' = [t \in Slots |-> Idle]
        BY <2>5 DEF FailOpen, ReplayFails, CacheFails, Lapse, Goto
      <3> QED
        BY <1>1, <2>2, <3>1, LapseStep
    <2>6. ASSUME NEW s \in Slots,
                 \/ EvalLua(s) \/ TryReplay(s) \/ RunHandler(s) \/ HandlerThrows(s) \/ CacheResponse(s)
          PROVE  RunsAccountedFor'
      BY <1>1, <2>6, AnsweredStep
    <2> QED
      BY <2>1, <2>2, <2>3, <2>4, <2>5, <2>6 DEF RequestsInv, RequestStep
  <1> QED
    BY <1>1, <1>2, <1>3

-----------------------------------------------------------------------------
\* The invariant holds in every state of every behaviour.
LEMMA RequestsAlwaysInv == RequestsSpec => []RequestsInv
  BY RequestsInitInv, RequestsStepInv, PTL DEF RequestsSpec

\* The keys in Redis and the requests' locals keep their types.
THEOREM RequestsTypeCorrect == RequestsSpec => []RequestsTypeOK
  <1>1. RequestsInv => RequestsTypeOK
    BY DEF RequestsInv
  <1> QED
    BY <1>1, RequestsAlwaysInv, PTL

\* IdempotencyInterceptor: the handler of one key runs at most once for each
\* slot, and once more for each slot and each answer that was lost.
THEOREM RequestsRunsBounded == RequestsSpec => []RunsBounded
  <1>1. RequestsInv => RunsBounded
    <2>1. SUFFICES ASSUME RequestsInv PROVE runs <= AtOnce * (1 + lapses)
      BY DEF RunsBounded, AtOnce
    <2>2. runs \in Nat /\ lapses \in Nat /\ runs <= AtOnce * lapses + AtOnce
      BY <2>1, SlotsAtCounted, HandlersCounted, RequestsAssumption
      DEF RequestsInv, RequestsTypeOK, RunsAccountedFor
    <2>3. AtOnce * (1 + lapses) = AtOnce * lapses + AtOnce
      BY <2>2, HandlersCounted
    <2> QED
      BY <2>2, <2>3
  <1> QED
    BY <1>1, RequestsAlwaysInv, PTL

-----------------------------------------------------------------------------
(* Requests: the rate limit over any window of time.                       *)

\* The counter's window began WindowMs - ttl ticks ago.  Of the requests of the
\* last WindowMs ticks it has counted those since, and one window before it
\* all the others.
Since == 0..(WindowMs - ttl)
Before == (WindowMs - ttl + 1)..(WindowMs - 1)

WindowInv ==
  /\ RequestsTypeOK
  /\ count = 0 <=> ttl = 0
  /\ ttl = 0 => admitted[0] = 0 /\ Sum(admitted, 0..(WindowMs - 1)) <= Limit
  /\ ttl > 0 => /\ Sum(admitted, Since) <= count /\ Sum(admitted, Since) <= Limit
                /\ Sum(admitted, Before) <= Limit

\* Parts of a window are finite, and their counts natural numbers.
Part(f, i, k) ==
  /\ IsFiniteSet(i..k) /\ i..k \in SUBSET (0..(WindowMs - 1))
  /\ \A t \in i..k : f[t] \in Nat
  /\ Sum(f, i..k) \in Nat
  /\ Sum(f, i..k) <= Sum(f, 0..(WindowMs - 1)) /\ Sum(f, 0..(WindowMs - 1)) \in Nat

LEMMA WindowSums ==
  ASSUME NEW f \in [0..(WindowMs - 1) -> Nat], NEW i \in Nat, NEW k \in Int, k <= WindowMs - 1
  PROVE  Part(f, i, k)
<1>1. IsFiniteSet(0..(WindowMs - 1)) /\ IsFiniteSet(i..k)
  BY RequestsAssumption, FS_Interval
<1>2. i..k \in SUBSET (0..(WindowMs - 1))
  BY RequestsAssumption
<1>3. \A t \in 0..(WindowMs - 1) : f[t] \in Nat
  OBVIOUS
<1> QED BY <1>1, <1>2, <1>3, SumPart DEF Part

\* At first no window has begun.
LEMMA WindowInitInv == RequestsInit => WindowInv
<1> SUFFICES ASSUME RequestsInit PROVE WindowInv
  OBVIOUS
<1>1. RequestsTypeOK
  BY RequestsInitInv DEF RequestsInv
<1>2. /\ count = 0 /\ ttl = 0 /\ admitted = [t \in 0..(WindowMs - 1) |-> 0]
      /\ 0 \in 0..(WindowMs - 1)
  BY RequestsAssumption DEF RequestsInit
<1>3. Sum(admitted, 0..(WindowMs - 1)) = 0
  <2> DEFINE G == {n \in Nat : n <= WindowMs => Sum(admitted, 0..(n - 1)) = 0}
  <2>1. 0 \in G
    <3>1. 0..(0 - 1) = {}
      OBVIOUS
    <3> QED BY <3>1, SumEmpty, Zenon
  <2>2. ASSUME NEW n \in Nat, n \in G PROVE n + 1 \in G
    <3> SUFFICES ASSUME n + 1 <= WindowMs PROVE Sum(admitted, 0..((n + 1) - 1)) = 0
      OBVIOUS
    <3>1. 0..((n + 1) - 1) = (0..(n - 1)) \cup {n} /\ n \notin 0..(n - 1)
      OBVIOUS
    <3>2. IsFiniteSet(0..(n - 1)) /\ \A t \in 0..(n - 1) : admitted[t] \in Int
      BY <1>2, RequestsAssumption, FS_Interval
    <3>3. admitted[n] = 0
      BY <1>2, RequestsAssumption
    <3>4. Sum(admitted, (0..(n - 1)) \cup {n}) = Sum(admitted, 0..(n - 1)) + admitted[n]
      <4> DEFINE L == 0..(n - 1)
      <4>1. IsFiniteSet(L) /\ (\A t \in L : admitted[t] \in Int) /\ n \notin L
            /\ admitted[n] \in Int
        BY <3>1, <3>2, <3>3
      <4> HIDE DEF L
      <4>2. Sum(admitted, L \cup {n}) = Sum(admitted, L) + admitted[n]
        BY <4>1, SumAdd
      <4> QED BY <4>2 DEF L
    <3>5. Sum(admitted, 0..(n - 1)) = 0
      BY <2>2, RequestsAssumption
    <3>6. Sum(admitted, (0..(n - 1)) \cup {n}) = 0
      BY <3>3, <3>4, <3>5
    <3> QED BY <3>1, <3>6, Zenon
  <2>3. \A n \in Nat : n \in G
    <3> HIDE DEF G
    <3> QED BY <2>1, <2>2, NatSetInduction
  <2> QED BY <2>3, RequestsAssumption
<1> QED BY <1>1, <1>2, <1>3, RequestsAssumption DEF WindowInv

\* The script counts a request it lets through: in the window that runs, or as
\* the first of a new one.
LEMMA EvalLuaWindow ==
  ASSUME WindowInv, RequestsTypeOK', NEW s \in Slots, EvalLua(s)
  PROVE  WindowInv'
<1>0. /\ WindowMs \in Nat \ {0} /\ Limit \in Nat \ {0}
      /\ count \in 0..(Limit + 1) /\ ttl \in 0..WindowMs
      /\ admitted \in [0..(WindowMs - 1) -> Nat] /\ admitted' \in [0..(WindowMs - 1) -> Nat]
      /\ 0 \in 0..(WindowMs - 1)
  BY RequestsAssumption DEF WindowInv, RequestsTypeOK
<1>1. /\ count' = CountedTo(count + 1) /\ ttl' = IF count = 0 THEN WindowMs ELSE ttl
      /\ admitted' = IF count + 1 > Limit THEN admitted
                     ELSE [admitted EXCEPT ![0] = admitted[0] + 1]
  BY DEF EvalLua
<1>2. count' \in Nat /\ count' # 0 /\ count' >= count /\ (count + 1 <= Limit => count' = count + 1)
  BY <1>0, <1>1 DEF CountedTo
<1>3. /\ \A t \in 1..(WindowMs - 1) : admitted'[t] = admitted[t]
      /\ admitted'[0] = IF count + 1 > Limit THEN admitted[0] ELSE admitted[0] + 1
  BY <1>0, <1>1
<1>4. ASSUME NEW i \in Nat \ {0}
      PROVE  Sum(admitted', i..(WindowMs - 1)) = Sum(admitted, i..(WindowMs - 1))
  <2>1. /\ IsFiniteSet(i..(WindowMs - 1))
        /\ \A t \in i..(WindowMs - 1) : admitted[t] \in Nat /\ t \in 1..(WindowMs - 1)
    <3>1. Part(admitted, i, WindowMs - 1)
      BY <1>0, WindowSums
    <3> QED BY <1>0, <3>1 DEF Part
  <2>2. \A t \in i..(WindowMs - 1) : admitted[t] \in Int /\ admitted'[t] = admitted[t]
    BY <1>3, <2>1
  <2> QED BY <2>1, <2>2, SumSame
<1>5. CASE ttl = 0
  <2>1. /\ count = 0 /\ admitted[0] = 0 /\ Sum(admitted, 0..(WindowMs - 1)) <= Limit
        /\ count' = 1 /\ ttl' = WindowMs /\ admitted'[0] = 1
    BY <1>0, <1>1, <1>2, <1>3, <1>5 DEF WindowInv
  <2>2. Since' = 0..0 /\ Before' = 1..(WindowMs - 1)
    BY <1>0, <2>1 DEF Since, Before
  <2>3. Sum(admitted', 0..0) = 1
    <3>1. 0..0 = {0} /\ {0} \ {0} = {} /\ IsFiniteSet({0})
      BY FS_Singleton
    <3>2. Sum(admitted', {0}) = admitted'[0] + Sum(admitted', {0} \ {0})
      BY <2>1, <3>1, SumRemove
    <3>3. Sum(admitted', {0} \ {0}) = 0
      BY <3>1, SumEmpty, Zenon
    <3>4. Sum(admitted', {0}) = 1
      BY <2>1, <3>2, <3>3
    <3> QED BY <3>1, <3>4, Zenon
  <2>4. Sum(admitted', 1..(WindowMs - 1)) = Sum(admitted, 1..(WindowMs - 1))
    BY <1>4
  <2>5. /\ Sum(admitted, 1..(WindowMs - 1)) <= Sum(admitted, 0..(WindowMs - 1))
        /\ Sum(admitted, 1..(WindowMs - 1)) \in Nat /\ Sum(admitted, 0..(WindowMs - 1)) \in Nat
    <3>1. Part(admitted, 1, WindowMs - 1)
      BY <1>0, WindowSums
    <3> QED BY <3>1 DEF Part
  <2>6. Sum(admitted', 1..(WindowMs - 1)) <= Limit
    BY <1>0, <2>1, <2>4, <2>5
  <2>7. Sum(admitted', Since') = 1 /\ Sum(admitted', Before') <= Limit
    BY <2>2, <2>3, <2>6, Zenon
  <2> QED BY <1>0, <2>1, <2>7 DEF WindowInv
<1>6. CASE ttl # 0
  <2>1. /\ ttl > 0 /\ count # 0 /\ ttl' = ttl
        /\ Sum(admitted, Since) <= count /\ Sum(admitted, Since) <= Limit
        /\ Sum(admitted, Before) <= Limit
    BY <1>0, <1>1, <1>6 DEF WindowInv
  <2>2. /\ Since' = Since /\ Before' = Before /\ 0 \in Since /\ WindowMs - ttl + 1 \in Nat \ {0}
        /\ WindowMs - ttl \in Nat /\ WindowMs - ttl < WindowMs
    BY <1>0, <2>1 DEF Since, Before
  <2>3. Sum(admitted', Before) = Sum(admitted, Before)
    BY <1>4, <2>2 DEF Before
  <2>4. /\ IsFiniteSet(Since) /\ Sum(admitted, Since) \in Nat
        /\ \A t \in Since : admitted[t] \in Nat /\ admitted'[t] \in Nat /\ t \in 0..(WindowMs - 1)
    <3>1. Part(admitted, 0, WindowMs - ttl)
      BY <1>0, <2>2, WindowSums
    <3> QED BY <1>0, <3>1 DEF Part, Since
  <2>5. SameBut(admitted, admitted', Since, {0})
    BY <1>0, <1>3, <2>4 DEF SameBut
  <2>6. Sum(admitted', Since) = Sum(admitted, Since) + (admitted'[0] - admitted[0])
    BY <2>2, <2>4, <2>5, SumChange
  <2>7. Sum(admitted', Since) <= count' /\ Sum(admitted', Since) <= Limit
    BY <1>0, <1>2, <1>3, <2>1, <2>2, <2>4, <2>6
  <2>8. Sum(admitted', Since') <= count' /\ Sum(admitted', Since') <= Limit
        /\ Sum(admitted', Before') <= Limit
    BY <2>1, <2>2, <2>3, <2>7, Zenon
  <2> QED BY <1>2, <2>1, <2>8 DEF WindowInv
<1> QED BY <1>5, <1>6

\* A tick moves everything one place further into the past; when the counter
\* expires its window is all there is.
LEMMA TickWindow ==
  ASSUME WindowInv, RequestsTypeOK', Tick
  PROVE  WindowInv'
<1>0. /\ WindowMs \in Nat \ {0} /\ Limit \in Nat \ {0}
      /\ count \in 0..(Limit + 1) /\ ttl \in 0..WindowMs
      /\ admitted \in [0..(WindowMs - 1) -> Nat] /\ admitted' \in [0..(WindowMs - 1) -> Nat]
      /\ 0 \in 0..(WindowMs - 1)
  BY RequestsAssumption DEF WindowInv, RequestsTypeOK
<1>1. /\ ttl' = IF ttl > 0 THEN ttl - 1 ELSE 0
      /\ count' = IF ttl <= 1 THEN 0 ELSE count
      /\ admitted'[0] = 0
      /\ \A t \in 1..(WindowMs - 1) : admitted'[t] = admitted[t - 1]
  BY <1>0 DEF Tick
<1>2. ASSUME NEW i \in Nat, NEW k \in Int, k < WindowMs - 1
      PROVE  Sum(admitted', (i + 1)..(k + 1)) = Sum(admitted, i..k)
  <2>1. \A t \in i..k : t + 1 \in 1..(WindowMs - 1) /\ (t + 1) - 1 = t /\ t \in 0..(WindowMs - 1)
    BY <1>0, <1>2
  <2>2. \A t \in i..k : admitted[t] \in Int /\ admitted'[t + 1] = admitted[t]
    BY <1>0, <1>1, <2>1
  <2> QED BY <2>2, SumMovedUp
<1>3. ASSUME NEW k \in Nat, k <= WindowMs - 1
      PROVE  Sum(admitted', 0..k) = Sum(admitted, 0..(k - 1))
  <2>1. 0..k = (1..k) \cup {0} /\ 0 \notin 1..k /\ (k - 1) + 1 = k /\ 0 + 1 = 1 /\ 1 \in Nat
        /\ k < WindowMs /\ k - 1 < WindowMs /\ k - 1 < WindowMs - 1
    BY <1>0, <1>3
  <2>2. IsFiniteSet(1..k) /\ \A t \in 1..k : admitted'[t] \in Int
    <3>1. k \in Int /\ 1 \in Nat /\ k <= WindowMs - 1
      BY <1>3
    <3>2. Part(admitted', 1, k)
      BY <1>0, <3>1, WindowSums
    <3> QED BY <3>2 DEF Part
  <2>3. Sum(admitted', (1..k) \cup {0}) = Sum(admitted', 1..k) + admitted'[0]
    <3> DEFINE L == 1..k
    <3>1. IsFiniteSet(L) /\ (\A t \in L : admitted'[t] \in Int) /\ 0 \notin L
          /\ admitted'[0] \in Int
      BY <1>1, <2>1, <2>2
    <3> HIDE DEF L
    <3>2. Sum(admitted', L \cup {0}) = Sum(admitted', L) + admitted'[0]
      BY <3>1, SumAdd
    <3> QED BY <3>2 DEF L
  <2>4. Sum(admitted', (0 + 1)..((k - 1) + 1)) = Sum(admitted, 0..(k - 1))
    BY <1>2, <2>1
  <2>5. Sum(admitted', 1..k) = Sum(admitted, 0..(k - 1))
    BY <2>1, <2>4, Zenon
  <2>6. Sum(admitted, 0..(k - 1)) \in Nat
    <3>1. Part(admitted, 0, k - 1)
      BY <1>0, <1>3, WindowSums
    <3> QED BY <3>1 DEF Part
  <2>7. Sum(admitted', (1..k) \cup {0}) = Sum(admitted, 0..(k - 1))
    BY <1>1, <2>3, <2>5, <2>6
  <2> QED BY <2>1, <2>7, Zenon
<1>4. CASE ttl <= 1
  <2>1. ttl' = 0 /\ count' = 0
    BY <1>0, <1>1, <1>4
  <2>2. Sum(admitted', 0..(WindowMs - 1)) = Sum(admitted, 0..(WindowMs - 1 - 1))
    BY <1>0, <1>3
  <2>3. /\ Sum(admitted, 0..(WindowMs - 1 - 1)) <= Sum(admitted, 0..(WindowMs - 1))
        /\ Sum(admitted, 0..(WindowMs - 1 - 1)) \in Nat /\ Sum(admitted, 0..(WindowMs - 1)) \in Nat
    <3>1. Part(admitted, 0, WindowMs - 1 - 1)
      BY <1>0, WindowSums
    <3> QED BY <3>1 DEF Part
  <2>4. Sum(admitted, 0..(WindowMs - 1)) <= Limit
    <3>1. CASE ttl = 0
      BY <3>1 DEF WindowInv
    <3>2. CASE ttl = 1
      BY <1>0, <3>2 DEF WindowInv, Since
    <3> QED BY <1>0, <1>4, <3>1, <3>2
  <2>5. Sum(admitted', 0..(WindowMs - 1)) <= Limit
    BY <1>0, <2>2, <2>3, <2>4
  <2> QED BY <1>1, <2>1, <2>5 DEF WindowInv
<1>5. CASE ttl > 1
  <2>1. /\ ttl' = ttl - 1 /\ count' = count /\ count # 0 /\ ttl' > 0 /\ ttl' # 0
        /\ Sum(admitted, Since) <= count /\ Sum(admitted, Since) <= Limit
        /\ Sum(admitted, Before) <= Limit
    BY <1>0, <1>1, <1>5 DEF WindowInv
  <2> DEFINE k == WindowMs - ttl + 1
  <2>2. k \in Nat /\ k <= WindowMs - 1 /\ WindowMs - 1 - 1 < WindowMs - 1 /\ WindowMs - 1 - 1 \in Int
        /\ (WindowMs - 1 - 1) + 1 = WindowMs - 1
    BY <1>0, <1>5
  <2>3. /\ Since' = 0..k /\ Since = 0..(k - 1)
        /\ Before' = (k + 1)..(WindowMs - 1) /\ Before = k..(WindowMs - 1)
    BY <1>0, <1>5, <2>1 DEF Since, Before
  <2> HIDE DEF k
  <2>4. Sum(admitted', 0..k) = Sum(admitted, 0..(k - 1))
    BY <1>3, <2>2
  <2>5. Sum(admitted', (k + 1)..((WindowMs - 1 - 1) + 1)) = Sum(admitted, k..(WindowMs - 1 - 1))
    BY <1>2, <2>2
  <2>6. /\ Sum(admitted, k..(WindowMs - 1 - 1)) <= Sum(admitted, k..(WindowMs - 1))
        /\ Sum(admitted, k..(WindowMs - 1 - 1)) \in Nat /\ Sum(admitted, k..(WindowMs - 1)) \in Nat
    <3>1. k..(WindowMs - 1 - 1) \in SUBSET (k..(WindowMs - 1))
      BY <1>0, <2>2
    <3>2. IsFiniteSet(k..(WindowMs - 1)) /\ \A t \in k..(WindowMs - 1) : admitted[t] \in Nat
      <4>1. WindowMs - 1 \in Int /\ WindowMs - 1 <= WindowMs - 1
        BY <1>0
      <4>2. Part(admitted, k, WindowMs - 1)
        BY <1>0, <2>2, <4>1, WindowSums
      <4> QED BY <4>2 DEF Part
    <3> QED BY <3>1, <3>2, SumPart
  <2>7. /\ Sum(admitted', Since') = Sum(admitted, Since)
        /\ Sum(admitted', Before') = Sum(admitted, k..(WindowMs - 1 - 1))
        /\ Sum(admitted, Before) = Sum(admitted, k..(WindowMs - 1))
    BY <2>2, <2>3, <2>4, <2>5, Zenon
  <2>8. Sum(admitted', Before') <= Limit
    BY <1>0, <2>1, <2>6, <2>7
  <2>9. Sum(admitted', Since') <= count' /\ Sum(admitted', Since') <= Limit
    BY <2>1, <2>7
  <2> QED BY <2>1, <2>8, <2>9 DEF WindowInv
<1> QED BY <1>0, <1>4, <1>5

\* Every step keeps the counter true to what it let through.
LEMMA WindowStepInv ==
  RequestsInv /\ WindowInv /\ [RequestsNext]_requestVars => WindowInv'
<1> SUFFICES ASSUME RequestsInv, WindowInv, [RequestsNext]_requestVars PROVE WindowInv'
  OBVIOUS
<1>0. RequestsTypeOK'
  BY RequestsStepInv DEF RequestsInv
<1>1. ASSUME UNCHANGED <<count, ttl, admitted>> PROVE WindowInv'
  BY <1>0, <1>1 DEF WindowInv, Since, Before
<1>2. ASSUME NEW s \in Slots, EvalLua(s) PROVE WindowInv'
  BY <1>0, <1>2, EvalLuaWindow
<1>3. CASE Tick
  BY <1>0, <1>3, TickWindow
<1> QED
  BY <1>1, <1>2, <1>3
     DEF RequestsNext, requestVars, CacheExpires, FailOpen, TryReplay, ReplayFails,
         RunHandler, HandlerThrows, CacheResponse, CacheFails

\* However the window slides, it sees at most twice the limit of requests.
THEOREM RequestsAtMostTwiceLimit == RequestsSpec => []AtMostTwiceLimit
<1>1. WindowInv => AtMostTwiceLimit
  <2> SUFFICES ASSUME WindowInv PROVE AtMostTwiceLimit
    OBVIOUS
  <2>0. /\ WindowMs \in Nat \ {0} /\ Limit \in Nat \ {0} /\ ttl \in 0..WindowMs
        /\ admitted \in [0..(WindowMs - 1) -> Nat] /\ DOMAIN admitted = 0..(WindowMs - 1)
    BY RequestsAssumption DEF WindowInv, RequestsTypeOK
  <2>1. CASE ttl = 0
    <3>1. Sum(admitted, 0..(WindowMs - 1)) <= Limit /\ Sum(admitted, 0..(WindowMs - 1)) \in Nat
      <4>1. Part(admitted, 0, WindowMs - 1)
        BY <2>0, WindowSums
      <4> QED BY <2>1, <4>1 DEF WindowInv, Part
    <3>2. Sum(admitted, 0..(WindowMs - 1)) <= 2 * Limit
      BY <2>0, <3>1
    <3> QED BY <2>0, <3>2, Zenon DEF AtMostTwiceLimit
  <2>2. CASE ttl > 0
    <3>1. Sum(admitted, Since) <= Limit /\ Sum(admitted, Before) <= Limit
      BY <2>2 DEF WindowInv
    <3>2. /\ 0 \in Nat /\ WindowMs - ttl \in Nat /\ WindowMs - ttl < WindowMs
          /\ WindowMs - ttl + 1 \in Nat /\ WindowMs - 1 \in Int /\ WindowMs - 1 < WindowMs
      BY <2>0, <2>2
    <3>3. /\ IsFiniteSet(Since) /\ IsFiniteSet(Before)
          /\ Sum(admitted, Since) \in Nat /\ Sum(admitted, Before) \in Nat
          /\ \A t \in Since \cup Before : admitted[t] \in Int
      <4>1. Part(admitted, 0, WindowMs - ttl) /\ Part(admitted, WindowMs - ttl + 1, WindowMs - 1)
        BY <2>0, <3>2, WindowSums
      <4> QED BY <4>1 DEF Part, Since, Before
    <3>4. Since \cup Before = 0..(WindowMs - 1) /\ Since \cap Before = {}
      BY <2>0, <2>2 DEF Since, Before
    <3>5. Sum(admitted, Since \cup Before) = Sum(admitted, Since) + Sum(admitted, Before)
      BY <3>3, <3>4, SumUnion
    <3>6. Sum(admitted, Since \cup Before) <= 2 * Limit
      BY <2>0, <3>1, <3>3, <3>5
    <3> QED BY <2>0, <3>4, <3>6, Zenon DEF AtMostTwiceLimit
  <2> QED BY <2>0, <2>1, <2>2
<1> QED
  BY <1>1, WindowInitInv, WindowStepInv, RequestsAlwaysInv, PTL DEF RequestsSpec

-----------------------------------------------------------------------------
(* Attempts: what a limit that is counted from memory lets through.        *)

\* The equation of `most`.
OneStep(f, n, t) == IF t = 0 THEN 0 ELSE IF n = 0 THEN 1 ELSE f[<<n, t - 1>>] + f[<<n - 1, t>>]

\* h solves it for the arguments that add up to less than k.
SolvesBelow(h, k) == \A n, t \in Nat : n + t < k => h[<<n, t>>] = OneStep(h, n, t)

\* For every k some function of naturals does.
LEMMA SolutionsBelow ==
  \A k \in Nat : \E h \in [Nat \X Nat -> Nat] : SolvesBelow(h, k)
<1> DEFINE G == {k \in Nat : \E h \in [Nat \X Nat -> Nat] : SolvesBelow(h, k)}
<1>1. 0 \in G
  <2>1. [p \in Nat \X Nat |-> 0] \in [Nat \X Nat -> Nat]
    OBVIOUS
  <2>2. SolvesBelow([p \in Nat \X Nat |-> 0], 0)
    BY DEF SolvesBelow
  <2> QED BY <2>1, <2>2
<1>2. ASSUME NEW k \in Nat, k \in G PROVE k + 1 \in G
  <2>1. PICK h \in [Nat \X Nat -> Nat] : SolvesBelow(h, k)
    BY <1>2
  <2> DEFINE g == [p \in Nat \X Nat |-> IF p[1] + p[2] < k THEN h[p]
                                        ELSE OneStep(h, p[1], p[2])]
  <2>2. \A n, t \in Nat : OneStep(h, n, t) \in Nat
    BY DEF OneStep
  <2>3. g \in [Nat \X Nat -> Nat]
    BY <2>2
  <2>4. \A n, t \in Nat : g[<<n, t>>] = IF n + t < k THEN h[<<n, t>>] ELSE OneStep(h, n, t)
    OBVIOUS
  <2> HIDE DEF g
  <2>5. ASSUME NEW n \in Nat, NEW t \in Nat, n + t < k + 1
        PROVE  g[<<n, t>>] = OneStep(g, n, t)
    <3>1. g[<<n, t>>] = OneStep(h, n, t)
      BY <2>1, <2>4 DEF SolvesBelow
    <3>2. t # 0 => t - 1 \in Nat /\ n + (t - 1) < k
      BY <2>5
    <3>3. n # 0 => n - 1 \in Nat /\ (n - 1) + t < k
      BY <2>5
    <3>4. (t # 0 => g[<<n, t - 1>>] = h[<<n, t - 1>>]) /\ (n # 0 => g[<<n - 1, t>>] = h[<<n - 1, t>>])
      BY <2>4, <3>2, <3>3
    <3> QED BY <3>1, <3>4 DEF OneStep
  <2> QED BY <2>3, <2>5 DEF SolvesBelow
<1>3. \A k \in Nat : k \in G
  <2> HIDE DEF G
  <2> QED BY <1>1, <1>2, NatSetInduction
<1> QED BY <1>3

\* Two solutions agree where both solve the equation.
LEMMA SolutionsAgree ==
  ASSUME NEW g, NEW h, NEW m \in Nat, SolvesBelow(g, m), SolvesBelow(h, m)
  PROVE  \A n, t \in Nat : n + t < m => g[<<n, t>>] = h[<<n, t>>]
<1> DEFINE G == {k \in Nat : \A n, t \in Nat : n + t < k /\ n + t < m => g[<<n, t>>] = h[<<n, t>>]}
<1>1. 0 \in G
  OBVIOUS
<1>2. ASSUME NEW k \in Nat, k \in G PROVE k + 1 \in G
  <2> SUFFICES ASSUME NEW n \in Nat, NEW t \in Nat, n + t < k + 1, n + t < m
               PROVE  g[<<n, t>>] = h[<<n, t>>]
    OBVIOUS
  <2>1. g[<<n, t>>] = OneStep(g, n, t) /\ h[<<n, t>>] = OneStep(h, n, t)
    BY DEF SolvesBelow
  <2>2. t # 0 => t - 1 \in Nat /\ n + (t - 1) < k /\ n + (t - 1) < m
    OBVIOUS
  <2>3. n # 0 => n - 1 \in Nat /\ (n - 1) + t < k /\ (n - 1) + t < m
    OBVIOUS
  <2>4. (t # 0 => g[<<n, t - 1>>] = h[<<n, t - 1>>]) /\ (n # 0 => g[<<n - 1, t>>] = h[<<n - 1, t>>])
    BY <1>2, <2>2, <2>3
  <2> QED BY <2>1, <2>4 DEF OneStep
<1>3. \A k \in Nat : k \in G
  <2> HIDE DEF G
  <2> QED BY <1>1, <1>2, NatSetInduction
<1>4. m \in G
  BY <1>3
<1> QED BY <1>4

\* `most` solves it.
LEMMA MostUnfolds ==
  /\ most \in [Nat \X Nat -> Nat]
  /\ \A n, t \in Nat : most[<<n, t>>] = OneStep(most, n, t)
<1> DEFINE sol(k) == CHOOSE h \in [Nat \X Nat -> Nat] : SolvesBelow(h, k)
           f == [p \in Nat \X Nat |-> sol(p[1] + p[2] + 1)[p]]
<1>1. ASSUME NEW k \in Nat PROVE sol(k) \in [Nat \X Nat -> Nat] /\ SolvesBelow(sol(k), k)
  BY SolutionsBelow
<1> HIDE DEF sol
<1>2. \A n, t \in Nat : f[<<n, t>>] = sol(n + t + 1)[<<n, t>>]
  OBVIOUS
<1>3. ASSUME NEW n \in Nat, NEW t \in Nat, NEW k \in Nat, n + t < k
      PROVE  f[<<n, t>>] = sol(k)[<<n, t>>]
  <2>1. SolvesBelow(sol(k), n + t + 1) /\ SolvesBelow(sol(n + t + 1), n + t + 1)
    BY <1>1, <1>3 DEF SolvesBelow
  <2>2. sol(n + t + 1)[<<n, t>>] = sol(k)[<<n, t>>]
    BY <2>1, SolutionsAgree
  <2> QED BY <1>2, <2>2
<1>4. ASSUME NEW n \in Nat, NEW t \in Nat PROVE f[<<n, t>>] = OneStep(f, n, t)
  <2> DEFINE k == n + t + 1
  <2>1. k \in Nat /\ n + t < k
    OBVIOUS
  <2>2. sol(k)[<<n, t>>] = OneStep(sol(k), n, t)
    BY <1>1, <2>1 DEF SolvesBelow
  <2>3. t # 0 => t - 1 \in Nat /\ n + (t - 1) < k
    OBVIOUS
  <2>4. n # 0 => n - 1 \in Nat /\ (n - 1) + t < k
    OBVIOUS
  <2> HIDE DEF k, f
  <2>5. f[<<n, t>>] = sol(k)[<<n, t>>]
    BY <1>3, <2>1
  <2>6. (t # 0 => f[<<n, t - 1>>] = sol(k)[<<n, t - 1>>]) /\ (n # 0 => f[<<n - 1, t>>] = sol(k)[<<n - 1, t>>])
    BY <1>3, <2>1, <2>3, <2>4
  <2> QED BY <2>2, <2>5, <2>6 DEF OneStep
<1>5. f = [p \in Nat \X Nat |-> OneStep(f, p[1], p[2])]
  <2>1. ASSUME NEW p \in Nat \X Nat PROVE f[p] = OneStep(f, p[1], p[2])
    <3>1. PICK n \in Nat, t \in Nat : p = <<n, t>>
      OBVIOUS
    <3>2. p[1] = n /\ p[2] = t
      BY <3>1
    <3>3. f[<<n, t>>] = OneStep(f, n, t)
      BY <1>4
    <3> QED BY <3>1, <3>2, <3>3, Zenon
  <2>2. f = [p \in Nat \X Nat |-> f[p]]
    OBVIOUS
  <2> HIDE DEF f
  <2> QED BY <2>1, <2>2
<1>6. most = [p \in Nat \X Nat |-> OneStep(most, p[1], p[2])]
  <2> HIDE DEF f
  <2> QED BY <1>5 DEF most, OneStep
<1>7. \A n, t \in Nat : most[<<n, t>>] = OneStep(most, n, t)
  BY <1>6
<1>8. ASSUME NEW n \in Nat, NEW t \in Nat PROVE most[<<n, t>>] \in Nat
  <2>1. SolvesBelow(most, n + t + 1) /\ n + t + 1 \in Nat
    BY <1>7 DEF SolvesBelow
  <2>2. most[<<n, t>>] = sol(n + t + 1)[<<n, t>>]
    BY <1>1, <2>1, SolutionsAgree
  <2> QED BY <1>1, <2>1, <2>2
<1>9. most \in [Nat \X Nat -> Nat]
  BY <1>6, <1>8
<1> QED BY <1>7, <1>9

\* The answers that c handlers account for which cannot write back more than j
\* attempts left.
Answers(c, j) == IF c = 0 THEN 0 ELSE most[<<c - 1, j + 1>>]

\* One step of the recursion.
LEMMA MostStep ==
  ASSUME NEW n \in Nat, NEW t \in Nat
  PROVE  /\ most[<<n, t>>] \in Nat
         /\ t = 0 => most[<<n, t>>] = 0
         /\ t # 0 /\ n = 0 => most[<<n, t>>] = 1
         /\ t # 0 /\ n # 0 => most[<<n, t>>] = most[<<n, t - 1>>] + most[<<n - 1, t>>]
<1>1. <<n, t>> \in Nat \X Nat
  OBVIOUS
<1> QED BY <1>1, MostUnfolds DEF OneStep

\* One attempt lets one answer through, whoever waits.
LEMMA MostOne == \A n \in Nat : most[<<n, 1>>] = 1
<1> DEFINE G == {n \in Nat : most[<<n, 1>>] = 1}
<1>1. 0 \in G
  <2>1. most[<<0, 1>>] = OneStep(most, 0, 1)
    BY MostUnfolds
  <2> QED BY <2>1 DEF OneStep
<1>2. ASSUME NEW n \in Nat, n \in G PROVE n + 1 \in G
  <2>1. PICK m \in Nat : m = n + 1
    OBVIOUS
  <2>2. m # 0 /\ m - 1 = n /\ 1 - 1 = 0
    BY <2>1
  <2>3. most[<<m, 1>>] = most[<<m, 1 - 1>>] + most[<<m - 1, 1>>]
    BY <2>2, MostStep
  <2>4. most[<<m, 0>>] = 0
    BY MostStep
  <2>5. most[<<m, 1>>] = most[<<m, 0>>] + most[<<n, 1>>]
    BY <2>2, <2>3, Zenon
  <2>6. most[<<m, 1>>] = 1
    BY <1>2, <2>4, <2>5
  <2> QED BY <2>1, <2>6
<1>3. \A n \in Nat : n \in G
  <2> HIDE DEF G
  <2> QED BY <1>1, <1>2, NatSetInduction
<1> QED BY <1>3

\* It is the same triangle, and grows with the handlers.
LEMMA AnswersFacts ==
  ASSUME NEW c \in Nat, NEW j \in Nat
  PROVE  /\ Answers(c, j) \in Nat /\ Answers(0, j) = 0
         /\ c # 0 => Answers(c, 0) = 1
         /\ Answers(c + 1, j + 1) = Answers(c + 1, j) + Answers(c, j + 1)
<1>1. Answers(c, j) \in Nat
  <2>1. c # 0 => c - 1 \in Nat /\ j + 1 \in Nat
    OBVIOUS
  <2> QED BY <2>1, MostStep DEF Answers
<1>2. c # 0 => Answers(c, 0) = 1
  <2>1. c # 0 => c - 1 \in Nat /\ 0 + 1 = 1
    OBVIOUS
  <2> QED BY <2>1, MostOne DEF Answers
<1>3. Answers(c + 1, j + 1) = Answers(c + 1, j) + Answers(c, j + 1)
  <2>1. PICK t \in Nat : t = j + 2
    OBVIOUS
  <2>2. (j + 1) + 1 = t /\ j + 1 = t - 1 /\ t # 0 /\ t - 1 # 0 /\ t - 1 \in Nat
        /\ c + 1 # 0 /\ (c + 1) - 1 = c
    BY <2>1
  <2>3. Answers(c + 1, j + 1) = most[<<c, t>>] /\ Answers(c + 1, j) = most[<<c, t - 1>>]
    BY <2>2, Zenon DEF Answers
  <2>4. CASE c = 0
    <3>1. Answers(c, j + 1) = 0
      BY <2>4 DEF Answers
    <3>2. most[<<c, t>>] = 1 /\ most[<<c, t - 1>>] = 1
      BY <2>2, <2>4, MostStep
    <3> QED BY <2>3, <3>1, <3>2
  <2>5. CASE c # 0
    <3>1. most[<<c, t>>] = most[<<c, t - 1>>] + most[<<c - 1, t>>]
      BY <2>2, <2>5, MostStep
    <3>2. Answers(c, j + 1) = most[<<c - 1, t>>]
      BY <2>2, <2>5, Zenon DEF Answers
    <3> QED BY <2>3, <3>1, <3>2
  <2> QED BY <2>4, <2>5
<1>4. Answers(0, j) = 0
  BY DEF Answers
<1> QED BY <1>1, <1>2, <1>3, <1>4

\* One handler more accounts for no less.
LEMMA AnswersNext ==
  ASSUME NEW c \in Nat, NEW j \in Nat PROVE Answers(c, j) <= Answers(c + 1, j)
<1>1. PICK d \in Nat : d = c + 1
  OBVIOUS
<1>2. Answers(c, j) \in Nat /\ Answers(d, j) \in Nat
  BY AnswersFacts
<1>3. CASE c = 0
  <2>1. Answers(c, j) = 0
    BY <1>3, AnswersFacts
  <2> QED BY <1>1, <1>2, <2>1
<1>4. CASE c # 0 /\ j = 0
  <2>1. Answers(c, 0) = 1 /\ Answers(d, 0) = 1
    BY <1>1, <1>4, AnswersFacts
  <2> QED BY <1>1, <1>4, <2>1
<1>5. CASE j # 0
  <2>1. PICK i \in Nat : j = i + 1
    <3>1. j - 1 \in Nat /\ j = (j - 1) + 1
      BY <1>5
    <3> QED BY <3>1
  <2>2. Answers(c + 1, i + 1) = Answers(c + 1, i) + Answers(c, i + 1)
    BY AnswersFacts
  <2>3. Answers(d, i) \in Nat
    BY AnswersFacts
  <2>4. Answers(d, j) = Answers(d, i) + Answers(c, j)
    BY <1>1, <2>1, <2>2, Zenon
  <2> QED BY <1>1, <1>2, <2>3, <2>4
<1> QED BY <1>3, <1>4, <1>5

\* More handlers, more answers.
LEMMA AnswersGrow ==
  ASSUME NEW c \in Nat, NEW d \in Nat, c <= d, NEW j \in Nat
  PROVE  Answers(c, j) <= Answers(d, j)
<1> DEFINE G == {n \in Nat : Answers(c, j) <= Answers(c + n, j)}
<1>1. 0 \in G
  <2>1. Answers(c, j) \in Nat /\ c + 0 = c
    BY AnswersFacts
  <2> QED BY <2>1
<1>2. ASSUME NEW n \in Nat, n \in G PROVE n + 1 \in G
  <2>1. PICK m \in Nat : m = c + n
    OBVIOUS
  <2>2. Answers(m, j) <= Answers(m + 1, j) /\ c + (n + 1) = m + 1 /\ m + 1 \in Nat
    BY <2>1, AnswersNext
  <2>3. /\ Answers(c, j) \in Nat /\ Answers(m, j) \in Nat /\ Answers(m + 1, j) \in Nat
    BY <2>2, AnswersFacts
  <2>4. Answers(c, j) <= Answers(m, j)
    BY <1>2, <2>1
  <2>5. Answers(c + (n + 1), j) = Answers(m + 1, j)
    BY <2>2, Zenon
  <2> QED BY <2>2, <2>3, <2>4, <2>5
<1>3. \A n \in Nat : n \in G
  <2> HIDE DEF G
  <2> QED BY <1>1, <1>2, NatSetInduction
<1>4. d - c \in G
  BY <1>3
<1>5. c + (d - c) = d
  OBVIOUS
<1> QED BY <1>4, <1>5

\* The answers let through in all, where c[j] handlers cannot write back more
\* than j attempts left.
Allowed(c, k) == Sum([j \in 1..k |-> Answers(c[j], j)], 1..k)

\* The answers of as many handlers at every number of attempts add up to one less
\* than those of one handler more at the last.
LEMMA TriangleRow ==
  ASSUME NEW a \in Nat, NEW f, NEW k \in Nat, \A j \in 1..k : f[j] = Answers(a, j)
  PROVE  Sum(f, 1..k) + 1 = Answers(a + 1, k)
<1> DEFINE G == {t \in Nat : t <= k => Sum(f, 1..t) + 1 = Answers(a + 1, t)}
<1>0. \A j \in 1..k : f[j] \in Int
  <2>1. \A j \in 1..k : Answers(a, j) \in Int
    BY AnswersFacts
  <2> QED BY <2>1
<1>1. 0 \in G
  <2>1. 1..0 = {} /\ Sum(f, {}) = 0
    BY SumEmpty
  <2>2. PICK b \in Nat : b = a + 1
    OBVIOUS
  <2>3. Answers(b, 0) = 1
    BY <2>2, AnswersFacts
  <2>4. Sum(f, 1..0) = 0
    BY <2>1, Zenon
  <2> QED BY <2>2, <2>3, <2>4
<1>2. ASSUME NEW t \in Nat, t \in G PROVE t + 1 \in G
  <2> SUFFICES ASSUME t + 1 <= k PROVE Sum(f, 1..(t + 1)) + 1 = Answers(a + 1, t + 1)
    OBVIOUS
  <2> DEFINE S == 1..t
  <2>a. PICK e \in Nat : e = t + 1
    OBVIOUS
  <2>1. 1..e = S \cup {e} /\ e \notin S
    BY <2>a
  <2>2. IsFiniteSet(S)
    BY FS_Interval
  <2>3. (\A j \in S : f[j] \in Int) /\ f[e] \in Int
    BY <1>0, <2>a
  <2>4. Sum(f, S \cup {e}) = Sum(f, S) + f[e]
    <3> HIDE DEF S
    <3> QED BY <2>1, <2>2, <2>3, SumAdd
  <2>5. Sum(f, 1..(t + 1)) = Sum(f, 1..t) + f[t + 1]
    BY <2>a, <2>1, <2>4, Zenon
  <2>6. Answers(a + 1, t + 1) = Answers(a + 1, t) + Answers(a, t + 1)
    BY AnswersFacts
  <2>7. f[t + 1] = Answers(a, t + 1)
    OBVIOUS
  <2>8. Sum(f, 1..t) + 1 = Answers(a + 1, t)
    BY <1>2
  <2>9. Sum(f, 1..t) \in Int
    <3>1. \A j \in S : f[j] \in Int
      BY <2>3
    <3> QED BY <2>2, <3>1, SumType
  <2>10. Sum(f, 1..(t + 1)) + 1 = (Sum(f, 1..t) + 1) + Answers(a, t + 1)
    <3>1. f[t + 1] \in Int
      BY <2>a, <2>3, Zenon
    <3> QED BY <2>5, <2>7, <2>9, <3>1
  <2> QED BY <2>6, <2>8, <2>10
<1>3. \A t \in Nat : t \in G
  <2> HIDE DEF G
  <2> QED BY <1>1, <1>2, NatSetInduction
<1>4. k \in G /\ k <= k
  BY <1>3
<1> QED BY <1>4

\* The terms of what is let through.
LEMMA AllowedTerms ==
  ASSUME NEW k \in Nat, NEW c \in [1..k -> Nat]
  PROVE  /\ \A j \in 1..k : Answers(c[j], j) \in Nat
         /\ Allowed(c, k) \in Nat
<1>1. ASSUME NEW j \in 1..k PROVE Answers(c[j], j) \in Nat
  <2>1. j \in Nat /\ c[j] \in Nat
    OBVIOUS
  <2> QED BY <2>1, AnswersFacts
<1> DEFINE f == [j \in 1..k |-> Answers(c[j], j)]
<1>2. \A j \in 1..k : f[j] \in Nat
  BY <1>1
<1>3. IsFiniteSet(1..k)
  BY FS_Interval
<1>4. Sum(f, 1..k) \in Nat
  <2> HIDE DEF f
  <2> QED BY <1>2, <1>3, SumNat
<1> QED BY <1>1, <1>4 DEF Allowed

\* n handlers together get no more answers than the limit promises.
LEMMA AllowedLimited ==
  ASSUME NEW k \in Nat, NEW n \in Nat, NEW c \in [1..k -> Nat], \A j \in 1..k : c[j] <= n
  PROVE  Allowed(c, k) < most[<<n, k + 1>>]
<1> DEFINE f == [j \in 1..k |-> Answers(c[j], j)]
           g == [j \in 1..k |-> Answers(n, j)]
<1>1. \A j \in 1..k : f[j] \in Int /\ g[j] \in Int /\ f[j] <= g[j]
  <2>1. ASSUME NEW j \in 1..k
        PROVE  Answers(c[j], j) \in Nat /\ Answers(n, j) \in Nat /\ Answers(c[j], j) <= Answers(n, j)
    <3>1. j \in Nat /\ c[j] \in Nat /\ c[j] <= n
      OBVIOUS
    <3> QED BY <3>1, AnswersFacts, AnswersGrow
  <2> QED BY <2>1
<1>2. \A j \in 1..k : g[j] = Answers(n, j)
  OBVIOUS
<1>3. IsFiniteSet(1..k)
  BY FS_Interval
<1> HIDE DEF f, g
<1>4. Sum(f, 1..k) <= Sum(g, 1..k)
  BY <1>1, <1>3, SumOrdered
<1>5. Sum(g, 1..k) + 1 = Answers(n + 1, k)
  BY <1>2, TriangleRow
<1>6. Answers(n + 1, k) = most[<<n, k + 1>>]
  <2>1. n + 1 # 0 /\ (n + 1) - 1 = n
    OBVIOUS
  <2> QED BY <2>1, Zenon DEF Answers
<1>7. Sum(f, 1..k) \in Int /\ Sum(g, 1..k) \in Int
  <2>1. (\A j \in 1..k : f[j] \in Int) /\ (\A j \in 1..k : g[j] \in Int)
    BY <1>1
  <2> QED BY <1>3, <2>1, SumType
<1>8. Allowed(c, k) = Sum(f, 1..k)
  BY DEF Allowed, f
<1> QED BY <1>4, <1>5, <1>6, <1>7, <1>8

\* Where no more handlers are held back, no more answers are let through.
LEMMA AllowedGrows ==
  ASSUME NEW k \in Nat, NEW c \in [1..k -> Nat], NEW d \in [1..k -> Nat],
         \A j \in 1..k : c[j] <= d[j]
  PROVE  Allowed(c, k) <= Allowed(d, k)
<1> DEFINE f == [j \in 1..k |-> Answers(c[j], j)]
           g == [j \in 1..k |-> Answers(d[j], j)]
<1>1. \A j \in 1..k : f[j] \in Int /\ g[j] \in Int /\ f[j] <= g[j]
  <2>1. ASSUME NEW j \in 1..k
        PROVE  /\ Answers(c[j], j) \in Nat /\ Answers(d[j], j) \in Nat
               /\ Answers(c[j], j) <= Answers(d[j], j)
    <3>1. j \in Nat /\ c[j] \in Nat /\ d[j] \in Nat /\ c[j] <= d[j]
      OBVIOUS
    <3> QED BY <3>1, AnswersFacts, AnswersGrow
  <2> QED BY <2>1
<1>2. IsFiniteSet(1..k)
  BY FS_Interval
<1>3. Sum(f, 1..k) <= Sum(g, 1..k)
  <2> HIDE DEF f, g
  <2> QED BY <1>1, <1>2, SumOrdered
<1> QED BY <1>3 DEF Allowed

\* A wrong answer of a handler that read v attempts and writes v - 1 is one that
\* is let through: nobody that could write back less than v was counted but the a
\* other ones, and this handler joins them.
LEMMA OneMoreAnswer ==
  ASSUME NEW k \in Nat, NEW c \in [1..k -> Nat], NEW d \in [1..k -> Nat],
         NEW v \in 2..(k + 1), NEW a \in Nat,
         \A j \in 1..(v - 1) : c[j] <= a,
         d[v - 1] >= a + 1,
         \A j \in v..k : c[j] <= d[j]
  PROVE  Allowed(c, k) + 1 <= Allowed(d, k)
<1> DEFINE low == 1..(v - 1)  high == v..k
           f == [j \in 1..k |-> Answers(c[j], j)]
           g == [j \in 1..k |-> Answers(d[j], j)]
           r == [j \in 1..k |-> Answers(a, j)]
<1>1. /\ 1..k = low \cup high /\ low \cap high = {} /\ v - 1 \in low /\ v - 1 \in Nat
      /\ IsFiniteSet(low) /\ IsFiniteSet(high)
  <2>1. IsFiniteSet(1..(v - 1)) /\ IsFiniteSet(v..k)
    <3>1. v - 1 \in Int /\ v \in Int /\ k \in Int /\ 1 \in Int
      OBVIOUS
    <3> QED BY <3>1, FS_Interval
  <2>2. 1..k = low \cup high /\ low \cap high = {} /\ v - 1 \in low /\ v - 1 \in Nat
    OBVIOUS
  <2> QED BY <2>1, <2>2
<1>2. ASSUME NEW j \in 1..k
      PROVE  f[j] \in Nat /\ g[j] \in Nat /\ r[j] \in Nat /\ r[j] = Answers(a, j)
  <2>1. c[j] \in Nat /\ d[j] \in Nat /\ j \in Nat
    OBVIOUS
  <2> QED BY <2>1, AnswersFacts
<1>3. \A j \in low : f[j] <= r[j]
  <2>1. ASSUME NEW j \in low PROVE Answers(c[j], j) <= Answers(a, j)
    <3>1. j \in 1..k /\ c[j] \in Nat /\ j \in Nat /\ c[j] <= a
      OBVIOUS
    <3> QED BY <3>1, AnswersGrow
  <2> QED BY <2>1
<1>4. \A j \in high : f[j] <= g[j]
  <2>1. ASSUME NEW j \in high PROVE Answers(c[j], j) <= Answers(d[j], j)
    <3>1. j \in 1..k /\ c[j] \in Nat /\ d[j] \in Nat /\ j \in Nat /\ c[j] <= d[j]
      OBVIOUS
    <3> QED BY <3>1, AnswersGrow
  <2> QED BY <2>1
<1>5. Answers(a + 1, v - 1) <= g[v - 1]
  <2>1. v - 1 \in 1..k /\ v - 1 \in Nat /\ d[v - 1] \in Nat /\ a + 1 \in Nat /\ a + 1 <= d[v - 1]
    OBVIOUS
  <2>2. Answers(a + 1, v - 1) <= Answers(d[v - 1], v - 1)
    BY <2>1, AnswersGrow
  <2> QED BY <2>1, <2>2
<1> HIDE DEF f, g, r
<1>6. /\ \A j \in low : f[j] \in Int /\ r[j] \in Int /\ g[j] \in Nat
      /\ \A j \in high : f[j] \in Int /\ g[j] \in Int
      /\ \A j \in low \cup high : f[j] \in Int
      /\ \A j \in low \cup high : g[j] \in Int
  <2>1. \A j \in 1..k : f[j] \in Int /\ r[j] \in Int /\ g[j] \in Nat /\ g[j] \in Int
    BY <1>2
  <2> HIDE DEF low, high
  <2>2. (\A j \in low : j \in 1..k) /\ (\A j \in high : j \in 1..k)
    BY <1>1
  <2> QED BY <1>1, <2>1, <2>2
<1>7. Sum(r, low) + 1 = Answers(a + 1, v - 1)
  <2>1. \A j \in 1..(v - 1) : r[j] = Answers(a, j)
    BY <1>1, <1>2
  <2>2. PICK w \in Nat : w = v - 1
    BY <1>1
  <2>3. \A j \in 1..w : r[j] = Answers(a, j)
    BY <2>1, <2>2
  <2>4. Sum(r, 1..w) + 1 = Answers(a + 1, w)
    BY <2>3, TriangleRow
  <2> QED BY <2>2, <2>4
<1> HIDE DEF low, high
<1>8. Sum(f, low) <= Sum(r, low)
  BY <1>1, <1>3, <1>6, SumOrdered
<1>9. Sum(f, high) <= Sum(g, high)
  BY <1>1, <1>4, <1>6, SumOrdered
<1>10. g[v - 1] <= Sum(g, low)
  BY <1>1, <1>6, SumNat
<1>11. /\ Sum(f, low \cup high) = Sum(f, low) + Sum(f, high)
       /\ Sum(g, low \cup high) = Sum(g, low) + Sum(g, high)
  BY <1>1, <1>6, SumUnion
<1>12. /\ Sum(f, low) \in Int /\ Sum(r, low) \in Int /\ Sum(g, low) \in Int
       /\ Sum(f, high) \in Int /\ Sum(g, high) \in Int
  <2>1. /\ \A j \in low : f[j] \in Int
        /\ \A j \in low : r[j] \in Int
        /\ \A j \in low : g[j] \in Int
        /\ \A j \in high : f[j] \in Int
        /\ \A j \in high : g[j] \in Int
    BY <1>6
  <2> QED BY <1>1, <2>1, SumType
<1>13. Answers(a + 1, v - 1) \in Int /\ g[v - 1] \in Int
  <2>1. a + 1 \in Nat
    OBVIOUS
  <2> QED BY <1>1, <1>6, <2>1, AnswersFacts
<1>14. Sum(f, low \cup high) + 1 <= Sum(g, low \cup high)
  <2>1. PICK fl \in Int, rl \in Int, gl \in Int, fh \in Int, gh \in Int,
              x \in Int, y \in Int :
          /\ fl = Sum(f, low) /\ rl = Sum(r, low) /\ gl = Sum(g, low)
          /\ fh = Sum(f, high) /\ gh = Sum(g, high)
          /\ x = Answers(a + 1, v - 1) /\ y = g[v - 1]
    BY <1>12, <1>13, Zenon
  <2>2. x <= y /\ rl + 1 = x /\ fl <= rl /\ fh <= gh /\ y <= gl
    BY <1>5, <1>7, <1>8, <1>9, <1>10, <2>1, Zenon
  <2>3. fl + fh + 1 <= gl + gh
    BY <2>2
  <2> QED BY <1>11, <2>1, <2>3, Zenon
<1>15. Sum(f, 1..k) + 1 <= Sum(g, 1..k)
  BY <1>1, <1>14, Zenon
<1> QED BY <1>15 DEF Allowed, f, g

\* The handlers that cannot write back more than j attempts left, once the row has
\* no more: held[s] is what s has read, 0 where it counts nothing.
HeldBack(left, held, j) == IF left <= j THEN {s \in Slots : held[s] <= j} ELSE {}

\* The wrong answers that may have been given when the row and the handlers are so.
Potential(left, held, k) == Allowed([j \in 1..k |-> Cardinality(HeldBack(left, held, j))], k)

\* The handlers counted are some of the slots.
LEMMA HeldBackSlots ==
  ASSUME NEW left, NEW held, NEW j
  PROVE  /\ HeldBack(left, held, j) \subseteq Slots /\ IsFiniteSet(HeldBack(left, held, j))
         /\ Cardinality(HeldBack(left, held, j)) \in Nat /\ Cardinality(Slots) \in Nat
         /\ Cardinality(HeldBack(left, held, j)) <= Cardinality(Slots)
<1>1. HeldBack(left, held, j) \subseteq Slots
  BY DEF HeldBack
<1>2. IsFiniteSet(Slots)
  BY ServiceAssumption
<1> QED BY <1>1, <1>2, FS_Subset, FS_CardinalityType

\* The wrong answers stay below the limit's.
LEMMA PotentialLimited ==
  ASSUME NEW left, NEW held, NEW k \in Nat
  PROVE  Potential(left, held, k) \in Nat /\ Potential(left, held, k) < most[<<Cardinality(Slots), k + 1>>]
<1> DEFINE c == [j \in 1..k |-> Cardinality(HeldBack(left, held, j))]
<1>1. c \in [1..k -> Nat]
  BY HeldBackSlots
<1>2. PICK n \in Nat : n = Cardinality(Slots)
  BY HeldBackSlots
<1>3. \A j \in 1..k : c[j] <= n
  BY <1>2, HeldBackSlots
<1>4. Potential(left, held, k) = Allowed(c, k)
  BY DEF Potential
<1> HIDE DEF c
<1>5. Allowed(c, k) \in Nat
  BY <1>1, AllowedTerms
<1>6. Allowed(c, k) < most[<<n, k + 1>>]
  BY <1>1, <1>3, AllowedLimited
<1> QED BY <1>2, <1>4, <1>5, <1>6

\* They do not shrink while the row has no more attempts left than before and a
\* handler holds no more than it held or the row has.
LEMMA PotentialKept ==
  ASSUME NEW left \in Int, NEW left2 \in Int, NEW held \in [Slots -> Int], NEW held2 \in [Slots -> Int],
         NEW k \in Nat, left2 <= left, \A s \in Slots : held2[s] <= held[s] \/ held2[s] <= left
  PROVE  Potential(left, held, k) <= Potential(left2, held2, k)
<1> DEFINE c == [j \in 1..k |-> Cardinality(HeldBack(left, held, j))]
           d == [j \in 1..k |-> Cardinality(HeldBack(left2, held2, j))]
<1>1. c \in [1..k -> Nat] /\ d \in [1..k -> Nat]
  BY HeldBackSlots
<1>2. ASSUME NEW j \in 1..k PROVE c[j] <= d[j]
  <2>1. HeldBack(left, held, j) \subseteq HeldBack(left2, held2, j)
    BY DEF HeldBack
  <2>2. Cardinality(HeldBack(left, held, j)) <= Cardinality(HeldBack(left2, held2, j))
    BY <2>1, HeldBackSlots, FS_Subset
  <2> QED BY <2>2
<1>3. Potential(left, held, k) = Allowed(c, k) /\ Potential(left2, held2, k) = Allowed(d, k)
  BY DEF Potential
<1> HIDE DEF c, d
<1> QED BY <1>1, <1>2, <1>3, AllowedGrows

\* A handler that writes back one attempt less than it has read gives one answer
\* more, whatever the row has had in between.
LEMMA PotentialOneMore ==
  ASSUME NEW left \in Int, NEW left2 \in Int, NEW held \in [Slots -> Int], NEW held2 \in [Slots -> Int],
         NEW k \in Nat, NEW x \in Slots, held[x] \in 2..(k + 1), left2 = held[x] - 1,
         held2 = [held EXCEPT ![x] = 0]
  PROVE  Potential(left, held, k) + 1 <= Potential(left2, held2, k)
<1> DEFINE c == [j \in 1..k |-> Cardinality(HeldBack(left, held, j))]
           d == [j \in 1..k |-> Cardinality(HeldBack(left2, held2, j))]
           v == held[x]
           others == {s \in Slots \ {x} : held[s] <= v - 1}
           a == Cardinality(others)
<1>1. c \in [1..k -> Nat] /\ d \in [1..k -> Nat]
  BY HeldBackSlots
<1>2. IsFiniteSet(others) /\ x \notin others
  <2>1. IsFiniteSet(Slots) /\ others \subseteq Slots
    BY ServiceAssumption
  <2> QED BY <2>1, FS_Subset
<1>3. a \in Nat /\ Cardinality(others \cup {x}) = a + 1
  BY <1>2, FS_CardinalityType, FS_AddElement
<1>4. ASSUME NEW j \in 1..(v - 1) PROVE c[j] <= a
  <2>1. j \in 1..k /\ j <= v - 1 /\ j \in Int
    OBVIOUS
  <2>2. HeldBack(left, held, j) \subseteq others
    BY <2>1 DEF HeldBack
  <2>3. Cardinality(HeldBack(left, held, j)) <= a
    BY <1>2, <2>2, FS_Subset
  <2> QED BY <2>1, <2>3
<1>5. d[v - 1] >= a + 1
  <2>1. v - 1 \in 1..k
    OBVIOUS
  <2>2. others \cup {x} = HeldBack(left2, held2, v - 1)
    BY DEF HeldBack
  <2>3. d[v - 1] = Cardinality(HeldBack(left2, held2, v - 1))
    BY <2>1
  <2>4. Cardinality(HeldBack(left2, held2, v - 1)) = a + 1
    BY <1>3, <2>2, Zenon
  <2> QED BY <1>3, <2>3, <2>4
<1>6. ASSUME NEW j \in v..k PROVE c[j] <= d[j]
  <2>1. j \in 1..k /\ v <= j /\ j \in Int
    OBVIOUS
  <2>2. HeldBack(left, held, j) \subseteq HeldBack(left2, held2, j)
    BY <2>1 DEF HeldBack
  <2>3. Cardinality(HeldBack(left, held, j)) <= Cardinality(HeldBack(left2, held2, j))
    <3>1. IsFiniteSet(HeldBack(left2, held2, j))
      BY HeldBackSlots
    <3> QED BY <2>2, <3>1, FS_Subset
  <2> QED BY <2>1, <2>3
<1>7. Potential(left, held, k) = Allowed(c, k) /\ Potential(left2, held2, k) = Allowed(d, k)
  BY DEF Potential
<1>8. PICK w \in 2..(k + 1) : w = v
  OBVIOUS
<1>9. /\ \A j \in 1..(w - 1) : c[j] <= a
      /\ d[w - 1] >= a + 1
      /\ \A j \in w..k : c[j] <= d[j]
  BY <1>4, <1>5, <1>6, <1>8
<1> HIDE DEF c, d, v, a
<1>10. Allowed(c, k) + 1 <= Allowed(d, k)
  BY <1>1, <1>3, <1>9, OneMoreAnswer
<1> QED BY <1>7, <1>10

-----------------------------------------------------------------------------
(* Login.                                                                  *)

\* What a handler goes on to is one of the handler's records.
LEMMA LoginJobs ==
  /\ \A st \in {"create", "find", "activate", "reset"} : [step |-> st] \in LoginJob
  /\ \A n \in 0..MaxFailedAttempts : [step |-> "compare", failed |-> n] \in LoginJob
  /\ \A b \in BOOLEAN : [step |-> "status", pending |-> b] \in LoginJob
BY DEF LoginJob

\* A handler that compares passwords has read a count.
LEMMA LoginComparing ==
  ASSUME NEW j \in LoginJob \cup {Idle}, j.step = "compare" PROVE j.failed \in 0..MaxFailedAttempts
BY DEF LoginJob, Idle

\* The types are preserved.
LEMMA LoginTypeStep ==
  ASSUME LoginTypeOK, [LoginNext]_loginVars
  PROVE  LoginTypeOK'
<1> USE LoginAssumption DEF LoginTypeOK
<1>1. ASSUME NEW s \in Slots, NEW j \in LoginJob \cup {Idle}, Goto(s, j)
      PROVE  job' \in [Slots -> LoginJob \cup {Idle}]
  BY <1>1 DEF Goto
<1>2. ASSUME NEW s \in Slots, Return(s) PROVE job' \in [Slots -> LoginJob \cup {Idle}]
  BY <1>1, <1>2 DEF Return
<1>3. CASE LockExpires \/ Suspend
  BY <1>3 DEF LockExpires, Suspend, Account, Statuses
<1>4. ASSUME NEW s \in Slots, Register(s) \/ CheckAccountLock(s) \/ VerifyPhone(s) \/ ConfirmPasswordReset(s)
      PROVE  LoginTypeOK'
  BY <1>1, <1>4, LoginJobs DEF Register, CheckAccountLock, VerifyPhone, ConfirmPasswordReset
<1>5. ASSUME NEW s \in Slots, VerifyPhoneLogin(s) PROVE LoginTypeOK'
  BY <1>1, <1>5, LoginJobs DEF VerifyPhoneLogin
<1>6. ASSUME NEW s \in Slots, FindAccount(s) PROVE LoginTypeOK'
  <2>1. account.failed \in 0..MaxFailedAttempts /\ account' = account
    BY <1>6 DEF FindAccount, Account
  <2> QED BY <1>1, <1>2, <1>6, <2>1, LoginJobs DEF FindAccount
<1>7. ASSUME NEW s \in Slots, AbandonLogin(s) PROVE LoginTypeOK'
  BY <1>2, <1>7 DEF AbandonLogin
<1>8. ASSUME NEW s \in Slots, CreateAccount(s) \/ Activate(s) \/ SavePhoneLogin(s) \/ SavePassword(s)
                              \/ LoginSucceeds(s)
      PROVE  LoginTypeOK'
  <2>1. account' \in Account
    <3>1. CASE CreateAccount(s) \/ Activate(s)
      BY <3>1 DEF CreateAccount, Activate, Account, Statuses
    <3>2. CASE SavePhoneLogin(s)
      BY <3>2 DEF SavePhoneLogin, Account, Statuses
    <3>3. CASE SavePassword(s) \/ LoginSucceeds(s)
      <4>1. account' = [account EXCEPT !.failed = 0, !.tries = 0] \/ account' = account
        BY <3>3 DEF SavePassword, LoginSucceeds
      <4>2. 0 \in 0..MaxFailedAttempts
        OBVIOUS
      <4>3. CASE account' = account
        BY <4>3
      <4>4. CASE account' = [account EXCEPT !.failed = 0, !.tries = 0]
        BY <4>2, <4>4 DEF Account
      <4> QED BY <4>1, <4>3, <4>4
    <3> QED BY <1>8, <3>1, <3>2, <3>3
  <2>2. Return(s)
    BY <1>8 DEF CreateAccount, Activate, SavePhoneLogin, SavePassword, LoginSucceeds
  <2> QED BY <1>2, <2>1, <2>2
<1>9. ASSUME NEW s \in Slots, HandleFailedLogin(s) PROVE LoginTypeOK'
  <2>1. job[s].failed \in 0..MaxFailedAttempts
    BY <1>9, LoginComparing DEF HandleFailedLogin, At
  <2>2. Capped(job[s].failed + 1) \in 0..MaxFailedAttempts
    BY <2>1 DEF Capped
  <2>3. account' \in Account
    <3> DEFINE n == job[s].failed + 1
               lock == n >= MaxFailedAttempts
    <3>1. Capped(n) \in 0..MaxFailedAttempts /\ lock \in BOOLEAN
      BY <2>2
    <3>2. account' = [account EXCEPT !.failed = Capped(n), !.locked = @ \/ lock,
                                     !.tries = IF lock THEN 0 ELSE @ + 1]
      BY <1>9 DEF HandleFailedLogin
    <3> HIDE DEF n, lock
    <3>3. account.tries \in Nat /\ account.locked \in BOOLEAN
      BY DEF Account
    <3>4. (account.locked \/ lock) \in BOOLEAN
      OBVIOUS
    <3>5. PICK b \in BOOLEAN : b = (account.locked \/ lock)
      BY <3>4, Zenon
    <3>6. PICK q \in Nat : q = IF lock THEN 0 ELSE account.tries + 1
      BY <3>3
    <3>7. account' = [account EXCEPT !.failed = Capped(n), !.locked = b, !.tries = q]
      BY <3>2, <3>5, <3>6, Zenon
    <3> QED BY <3>1, <3>7 DEF Account
  <2> QED BY <1>2, <1>9, <2>3 DEF HandleFailedLogin
<1>10. CASE UNCHANGED loginVars
  BY <1>10 DEF loginVars
<1> QED BY <1>3, <1>4, <1>5, <1>6, <1>7, <1>8, <1>9, <1>10 DEF LoginNext

\* The attempts left in the row, and in what a handler has read of it.
LoginLeft == MaxFailedAttempts - account.failed
LoginHeld == [s \in Slots |-> IF At(s, "compare") THEN MaxFailedAttempts - job[s].failed ELSE 0]

\* The wrong passwords answered are no more than the row and the handlers allow.
LoginInv == LoginTypeOK /\ account.tries <= Potential(LoginLeft, LoginHeld, MaxFailedAttempts - 1)

\* They are numbers.
LoginNumbers ==
  /\ LoginLeft \in Int /\ LoginLeft \in 0..MaxFailedAttempts
  /\ LoginHeld \in [Slots -> 0..MaxFailedAttempts] /\ LoginHeld \in [Slots -> Int]
  /\ account.tries \in Nat /\ account.failed \in 0..MaxFailedAttempts

\* The types say so.
LEMMA LoginCounted == LoginTypeOK => LoginNumbers
<1> SUFFICES ASSUME LoginTypeOK PROVE LoginNumbers
  OBVIOUS
<1>1. account.tries \in Nat /\ account.failed \in 0..MaxFailedAttempts
  BY DEF LoginTypeOK, Account
<1>2. ASSUME NEW s \in Slots, At(s, "compare") PROVE job[s].failed \in 0..MaxFailedAttempts
  BY <1>2, LoginComparing DEF LoginTypeOK, At
<1>3. \A s \in Slots : LoginHeld[s] \in 0..MaxFailedAttempts
  BY <1>2, LoginAssumption DEF LoginHeld
<1>4. LoginHeld \in [Slots -> 0..MaxFailedAttempts]
  BY <1>3 DEF LoginHeld
<1>5. LoginHeld \in [Slots -> Int]
  <2> HIDE DEF LoginHeld
  <2> QED BY <1>4
<1> QED BY <1>1, <1>4, <1>5, LoginAssumption DEF LoginLeft, LoginNumbers

\* After a step as before it.
LEMMA LoginCountedNext == LoginTypeOK' => LoginNumbers'
BY LoginCounted, PTL

\* Initially nobody has tried a password.
LEMMA LoginInitInv ==
  ASSUME LoginInit PROVE LoginInv
<1>1. LoginTypeOK /\ account.tries = 0
  BY LoginAssumption DEF LoginInit, LoginTypeOK, AllIdle, NoAccount, Account, Statuses
<1>2. MaxFailedAttempts - 1 \in Nat
  BY LoginAssumption
<1>3. Potential(LoginLeft, LoginHeld, MaxFailedAttempts - 1) \in Nat
  BY <1>2, PotentialLimited
<1> QED BY <1>1, <1>3 DEF LoginInv

\* A step that answers no wrong password.
LEMMA LoginKept ==
  ASSUME NEW l \in Int, NEW m \in Int, NEW h \in [Slots -> Int], NEW i \in [Slots -> Int],
         NEW n \in Nat, NEW q \in Nat, n <= Potential(l, h, MaxFailedAttempts - 1),
         q = 0 \/ (q = n /\ m <= l /\ \A s \in Slots : i[s] <= h[s] \/ i[s] <= l)
  PROVE  q <= Potential(m, i, MaxFailedAttempts - 1)
<1>1. MaxFailedAttempts - 1 \in Nat
  BY LoginAssumption
<1>2. PICK k \in Nat : k = MaxFailedAttempts - 1
  BY <1>1
<1>3. Potential(l, h, k) \in Nat /\ Potential(m, i, k) \in Nat
  BY PotentialLimited
<1>4. CASE q = 0
  BY <1>2, <1>3, <1>4
<1>5. CASE q = n /\ m <= l /\ \A s \in Slots : i[s] <= h[s] \/ i[s] <= l
  <2>1. Potential(l, h, k) <= Potential(m, i, k)
    BY <1>5, PotentialKept
  <2> QED BY <1>2, <1>3, <1>5, <2>1
<1> QED BY <1>4, <1>5

\* Every step keeps it.
LEMMA LoginStepInv ==
  ASSUME LoginInv, [LoginNext]_loginVars
  PROVE  LoginInv'
<1>1. LoginTypeOK /\ LoginTypeOK'
  BY LoginTypeStep DEF LoginInv
<1> DEFINE k == MaxFailedAttempts - 1
<1>2. /\ LoginLeft \in Int /\ LoginHeld \in [Slots -> Int] /\ account.tries \in Nat
      /\ LoginLeft \in 0..MaxFailedAttempts /\ LoginHeld \in [Slots -> 0..MaxFailedAttempts]
      /\ account.failed \in 0..MaxFailedAttempts
  BY <1>1, LoginCounted DEF LoginNumbers
<1>3. /\ LoginLeft' \in Int /\ LoginHeld' \in [Slots -> Int] /\ account'.tries \in Nat
      /\ account'.failed \in 0..MaxFailedAttempts
  BY <1>1, LoginCountedNext DEF LoginNumbers
<1> SUFFICES account'.tries <= Potential(LoginLeft', LoginHeld', k)
  BY <1>1 DEF LoginInv
<1>4. account.tries <= Potential(LoginLeft, LoginHeld, k)
  BY DEF LoginInv
<1>5. ASSUME \/ account'.tries = 0
             \/ /\ account'.tries = account.tries /\ LoginLeft' <= LoginLeft
                /\ \A s \in Slots : LoginHeld'[s] <= LoginHeld[s] \/ LoginHeld'[s] <= LoginLeft
      PROVE  account'.tries <= Potential(LoginLeft', LoginHeld', k)
  <2> PICK l \in Int, m \in Int, h \in [Slots -> Int], i \in [Slots -> Int], n \in Nat, q \in Nat :
        /\ l = LoginLeft /\ m = LoginLeft' /\ h = LoginHeld /\ i = LoginHeld'
        /\ n = account.tries /\ q = account'.tries
    BY <1>2, <1>3
  <2>1. n <= Potential(l, h, k)
    BY <1>4, Zenon
  <2>2. q = 0 \/ (q = n /\ m <= l /\ \A s \in Slots : i[s] <= h[s] \/ i[s] <= l)
    <3>1. CASE account'.tries = 0
      BY <3>1
    <3>2. CASE /\ account'.tries = account.tries /\ LoginLeft' <= LoginLeft
               /\ \A s \in Slots : LoginHeld'[s] <= LoginHeld[s] \/ LoginHeld'[s] <= LoginLeft
      <4>1. \A s \in Slots : i[s] <= h[s] \/ i[s] <= l
        <5> SUFFICES ASSUME NEW s \in Slots PROVE i[s] <= h[s] \/ i[s] <= l
          OBVIOUS
        <5>1. LoginHeld'[s] <= LoginHeld[s] \/ LoginHeld'[s] <= LoginLeft
          BY <3>2
        <5> QED BY <5>1
      <4>2. q = n /\ m <= l
        BY <3>2
      <4> QED BY <4>1, <4>2
    <3> QED BY <1>5, <3>1, <3>2
  <2>3. q <= Potential(m, i, k)
    BY <2>1, <2>2, LoginKept
  <2> QED BY <2>3, Zenon
<1>6. ASSUME NEW s \in Slots, NEW j, Goto(s, j), j.step # "compare"
      PROVE  LoginHeld' = [LoginHeld EXCEPT ![s] = 0] /\ \A r \in Slots : LoginHeld'[r] <= LoginHeld[r]
  <2>1. job'[s] = j /\ \A r \in Slots \ {s} : job'[r] = job[r]
    BY <1>1, <1>6 DEF Goto, LoginTypeOK
  <2>2. LoginHeld'[s] = 0 /\ \A r \in Slots \ {s} : LoginHeld'[r] = LoginHeld[r]
    BY <1>6, <2>1 DEF LoginHeld, At
  <2> HIDE DEF LoginHeld
  <2>3. LoginHeld' = [LoginHeld EXCEPT ![s] = 0]
    BY <1>2, <1>3, <2>2
  <2> QED BY <1>2, <2>2, <2>3
<1>7. ASSUME NEW s \in Slots, Return(s)
      PROVE  LoginHeld' = [LoginHeld EXCEPT ![s] = 0] /\ \A r \in Slots : LoginHeld'[r] <= LoginHeld[r]
  BY <1>6, <1>7 DEF Return, Idle
<1>8. CASE LockExpires \/ Suspend
  <2>1. account'.tries = account.tries /\ account'.failed = account.failed /\ job' = job
    BY <1>1, <1>8 DEF LockExpires, Suspend, LoginTypeOK, Account
  <2>2. LoginLeft' = LoginLeft /\ LoginHeld' = LoginHeld
    BY <2>1 DEF LoginLeft, LoginHeld, At
  <2> QED BY <1>2, <1>5, <2>1, <2>2
<1>9. ASSUME NEW s \in Slots,
             Register(s) \/ CheckAccountLock(s) \/ VerifyPhone(s) \/ VerifyPhoneLogin(s) \/ ConfirmPasswordReset(s)
      PROVE  account'.tries <= Potential(LoginLeft', LoginHeld', k)
  <2>1. account' = account
    BY <1>9 DEF Register, CheckAccountLock, VerifyPhone, VerifyPhoneLogin, ConfirmPasswordReset
  <2>2. \A r \in Slots : LoginHeld'[r] <= LoginHeld[r]
    BY <1>6, <1>9 DEF Register, CheckAccountLock, VerifyPhone, VerifyPhoneLogin, ConfirmPasswordReset
  <2>3. LoginLeft' = LoginLeft
    BY <2>1 DEF LoginLeft
  <2> QED BY <1>2, <1>5, <2>1, <2>2, <2>3
<1>10. ASSUME NEW s \in Slots, FindAccount(s) PROVE account'.tries <= Potential(LoginLeft', LoginHeld', k)
  <2>1. account' = account
    BY <1>10 DEF FindAccount
  <2>2. \A r \in Slots : LoginHeld'[r] <= LoginHeld[r] \/ LoginHeld'[r] <= LoginLeft
    <3>1. CASE Return(s)
      BY <1>7, <3>1
    <3>2. CASE Goto(s, [step |-> "compare", failed |-> account.failed])
      <4>1. job' = [job EXCEPT ![s] = [step |-> "compare", failed |-> account.failed]] /\ s \in DOMAIN job
        BY <1>1, <3>2 DEF Goto, LoginTypeOK
      <4>2. LoginHeld'[s] = LoginLeft
        BY <1>2, <4>1 DEF LoginHeld, LoginLeft, At
      <4>3. \A r \in Slots \ {s} : LoginHeld'[r] = LoginHeld[r]
        BY <4>1 DEF LoginHeld, At
      <4> QED BY <1>2, <4>2, <4>3
    <3> QED BY <1>10, <3>1, <3>2 DEF FindAccount
  <2>3. LoginLeft' = LoginLeft
    BY <2>1 DEF LoginLeft
  <2> QED BY <1>2, <1>5, <2>1, <2>2, <2>3
<1>11. ASSUME NEW s \in Slots, HandleFailedLogin(s) PROVE account'.tries <= Potential(LoginLeft', LoginHeld', k)
  <2> DEFINE n == job[s].failed + 1
  <2>1. job[s].failed \in 0..MaxFailedAttempts /\ LoginHeld[s] = MaxFailedAttempts - job[s].failed
    BY <1>1, <1>11, LoginComparing DEF HandleFailedLogin, LoginTypeOK, At, LoginHeld
  <2>2. LoginHeld' = [LoginHeld EXCEPT ![s] = 0]
    BY <1>7, <1>11 DEF HandleFailedLogin
  <2>3. CASE n >= MaxFailedAttempts
    <3>1. account'.tries = 0
      BY <1>1, <1>11, <2>3 DEF HandleFailedLogin, LoginTypeOK, Account
    <3> QED BY <1>5, <3>1
  <2>4. CASE n < MaxFailedAttempts
    <3>1. account'.tries = account.tries + 1 /\ account'.failed = n
      <4>1. ~(n >= MaxFailedAttempts) /\ Capped(n) = n
        BY <2>1, <2>4, LoginAssumption DEF Capped
      <4> QED BY <1>1, <1>11, <4>1 DEF HandleFailedLogin, LoginTypeOK, Account
    <3>2. LoginLeft' = LoginHeld[s] - 1
      BY <2>1, <3>1, LoginAssumption DEF LoginLeft
    <3>3. k \in Nat /\ LoginHeld[s] \in 2..(k + 1)
      BY <2>1, <2>4, LoginAssumption
    <3> HIDE DEF k
    <3>4. Potential(LoginLeft, LoginHeld, k) + 1 <= Potential(LoginLeft', LoginHeld', k)
      BY <1>2, <1>3, <2>2, <3>2, <3>3, PotentialOneMore
    <3>5. Potential(LoginLeft, LoginHeld, k) \in Nat /\ Potential(LoginLeft', LoginHeld', k) \in Nat
      BY <3>3, PotentialLimited
    <3> QED BY <1>2, <1>4, <3>1, <3>4, <3>5
  <2> QED BY <2>1, <2>3, <2>4, LoginAssumption
<1>12. ASSUME NEW s \in Slots, CreateAccount(s) \/ Activate(s) \/ SavePhoneLogin(s) \/ AbandonLogin(s)
       PROVE  account'.tries <= Potential(LoginLeft', LoginHeld', k)
  <2>1. account'.tries = account.tries /\ account'.failed = account.failed
    BY <1>1, <1>12 DEF CreateAccount, Activate, SavePhoneLogin, AbandonLogin, LoginTypeOK, Account
  <2>2. \A r \in Slots : LoginHeld'[r] <= LoginHeld[r]
    BY <1>7, <1>12 DEF CreateAccount, Activate, SavePhoneLogin, AbandonLogin
  <2>3. LoginLeft' = LoginLeft
    BY <2>1 DEF LoginLeft
  <2> QED BY <1>2, <1>5, <2>1, <2>2, <2>3
<1>13. ASSUME NEW s \in Slots, LoginSucceeds(s) \/ SavePassword(s)
       PROVE  account'.tries <= Potential(LoginLeft', LoginHeld', k)
  <2>1. account'.tries = 0 \/ account' = account
    BY <1>1, <1>13 DEF LoginSucceeds, SavePassword, LoginTypeOK, Account
  <2>2. \A r \in Slots : LoginHeld'[r] <= LoginHeld[r]
    BY <1>7, <1>13 DEF LoginSucceeds, SavePassword
  <2>3. account' = account => LoginLeft' = LoginLeft
    BY DEF LoginLeft
  <2> QED BY <1>2, <1>5, <2>1, <2>2, <2>3
<1>14. CASE UNCHANGED loginVars
  <2>1. account' = account /\ LoginLeft' = LoginLeft /\ LoginHeld' = LoginHeld
    BY <1>14 DEF loginVars, LoginLeft, LoginHeld, At
  <2> QED BY <1>4, <2>1
<1> QED BY <1>8, <1>9, <1>10, <1>11, <1>12, <1>13, <1>14 DEF LoginNext

\* They stay below what the limit lets through.
LEMMA LoginInvHolds ==
  ASSUME LoginInv PROVE LockoutHolds
<1>1. PICK k \in Nat : k = MaxFailedAttempts - 1 /\ k + 1 = MaxFailedAttempts
  BY LoginAssumption
<1>2. /\ Potential(LoginLeft, LoginHeld, k) \in Nat
      /\ Potential(LoginLeft, LoginHeld, k) < most[<<Cardinality(Slots), MaxFailedAttempts>>]
  BY <1>1, PotentialLimited
<1>3. account.tries \in Nat /\ account.tries <= Potential(LoginLeft, LoginHeld, k)
  BY <1>1 DEF LoginInv, LoginTypeOK, Account
<1>4. most[<<Cardinality(Slots), MaxFailedAttempts>>] \in Nat
  BY LoginAssumption, HeldBackSlots, MostStep
<1> QED BY <1>2, <1>3, <1>4 DEF LockoutHolds

\* Logins that overlap cannot try passwords without end: LockoutHolds of Login.
THEOREM LoginLockoutHolds == LoginSpec => []LockoutHolds
<1>1. LoginInit => LoginInv
  BY LoginInitInv
<1>2. LoginInv /\ [LoginNext]_loginVars => LoginInv'
  BY LoginStepInv
<1>3. LoginInv => LockoutHolds
  BY LoginInvHolds
<1> QED BY <1>1, <1>2, <1>3, PTL DEF LoginSpec

-----------------------------------------------------------------------------
(* One-time codes.                                                         *)

\* What a handler goes on to is one of the handler's records.
LEMMA OtpJobs ==
  /\ [step |-> "generate"] \in OtpJob
  /\ \A o \in Otps, n \in 1..MaxOtpAttempts, b \in BOOLEAN :
       [step |-> "select", otp |-> o, verified |-> b, attempts |-> n] \in OtpJob
  /\ \A o \in Otps, n \in 1..MaxOtpAttempts, b \in BOOLEAN, c \in SUBSET {"attempts", "verified"} :
       [step |-> "update", otp |-> o, attempts |-> n, verified |-> b, columns |-> c] \in OtpJob
BY DEF OtpJob

\* A handler that saves a code holds its columns.
LEMMA OtpSaving ==
  ASSUME NEW j \in OtpJob \cup {Idle}
  PROVE  /\ j.step \in {"select", "update"} => /\ j.otp \in Otps /\ j.attempts \in 1..MaxOtpAttempts
                                               /\ j.verified \in BOOLEAN
         /\ j.step = "update" => j.columns \in SUBSET {"attempts", "verified"}
<1>1. CASE j = Idle
  BY <1>1 DEF Idle
<1>2. CASE j \in [step : {"generate"}]
  BY <1>2
<1>3. CASE j \in [step : {"select"}, otp : Otps, attempts : 1..MaxOtpAttempts, verified : BOOLEAN]
  BY <1>3
<1>4. CASE j \in [step : {"update"}, otp : Otps, columns : SUBSET {"attempts", "verified"},
                  attempts : 1..MaxOtpAttempts, verified : BOOLEAN]
  BY <1>4
<1> QED BY <1>1, <1>2, <1>3, <1>4 DEF OtpJob

\* What an update leaves of a row.
LEMMA OtpUpdates ==
  ASSUME OtpTypeOK, NEW s \in Slots, UpdateOtp(s)
  PROVE  /\ At(s, "update") /\ Return(s)
         /\ job[s].otp \in Otps /\ job[s].attempts \in 1..MaxOtpAttempts
         /\ otp' \in [Otps -> OtpRow]
         /\ otp'[job[s].otp].tries = otp[job[s].otp].tries + 1
         /\ otp'[job[s].otp].attempts = IF "attempts" \in job[s].columns THEN job[s].attempts
                                        ELSE otp[job[s].otp].attempts
         /\ \A o \in Otps \ {job[s].otp} : otp'[o] = otp[o]
<1>1. At(s, "update") /\ Return(s)
  BY DEF UpdateOtp
<1>2. /\ job[s].otp \in Otps /\ job[s].attempts \in 1..MaxOtpAttempts
      /\ job[s].verified \in BOOLEAN
  BY <1>1, OtpSaving DEF OtpTypeOK, At
<1>3. PICK p \in Otps : p = job[s].otp
  BY <1>2
<1>4. PICK n \in 0..MaxOtpAttempts : n = IF "attempts" \in job[s].columns THEN job[s].attempts ELSE otp[p].attempts
  BY <1>2, <1>3 DEF OtpTypeOK, OtpRow
<1>5. PICK b \in BOOLEAN : b = IF "verified" \in job[s].columns THEN job[s].verified ELSE otp[p].verified
  BY <1>2, <1>3, Zenon DEF OtpTypeOK, OtpRow
<1>6. PICK t \in Nat : t = otp[p].tries + 1
  BY DEF OtpTypeOK, OtpRow
<1>7. otp' = [otp EXCEPT ![p].attempts = n, ![p].verified = b, ![p].tries = t]
  BY <1>3, <1>4, <1>5, <1>6 DEF UpdateOtp
<1>8. otp[p] \in OtpRow /\ DOMAIN otp = Otps
  BY DEF OtpTypeOK
<1>9. otp'[p] = [otp[p] EXCEPT !.attempts = n, !.verified = b, !.tries = t]
  BY <1>7, <1>8
<1>10. \A o \in Otps \ {p} : otp'[o] = otp[o]
  BY <1>7, <1>8
<1>11. otp'[p] \in OtpRow /\ otp'[p].tries = t /\ otp'[p].attempts = n
  BY <1>8, <1>9 DEF OtpRow
<1>12. otp' \in [Otps -> OtpRow]
  <2>1. otp' = [o \in Otps |-> otp'[o]]
    BY <1>7, <1>8
  <2>2. \A o \in Otps : otp'[o] \in OtpRow
    BY <1>10, <1>11 DEF OtpTypeOK
  <2> QED BY <2>1, <2>2
<1> QED BY <1>1, <1>2, <1>3, <1>4, <1>6, <1>10, <1>11, <1>12

\* The types are preserved.
LEMMA OtpTypeStep ==
  ASSUME OtpTypeOK, [OtpNext]_otpVars
  PROVE  OtpTypeOK'
<1> USE OtpAssumption DEF OtpTypeOK
<1>1. ASSUME NEW s \in Slots, NEW j \in OtpJob \cup {Idle}, Goto(s, j)
      PROVE  job' \in [Slots -> OtpJob \cup {Idle}]
  BY <1>1 DEF Goto
<1>2. ASSUME NEW s \in Slots, Return(s) PROVE job' \in [Slots -> OtpJob \cup {Idle}]
  BY <1>1, <1>2 DEF Return
<1>3. ASSUME NEW o \in Otps, AgeOtp(o) PROVE OtpTypeOK'
  BY <1>3 DEF AgeOtp, OtpRow
<1>4. ASSUME NEW s \in Slots, CheckCooldown(s) PROVE OtpTypeOK'
  BY <1>1, <1>4, OtpJobs DEF CheckCooldown
<1>5. ASSUME NEW s \in Slots, GenerateOtp(s) PROVE OtpTypeOK'
  BY <1>2, <1>5 DEF GenerateOtp, OtpRow
<1>6. ASSUME NEW s \in Slots, NEW right \in BOOLEAN, VerifyOtp(s, right) PROVE OtpTypeOK'
  <2>1. PICK o \in Otps : /\ otp[o].attempts < MaxOtpAttempts
                          /\ Goto(s, [step |-> "select", otp |-> o, verified |-> right,
                                      attempts |-> otp[o].attempts + 1])
    BY <1>6 DEF VerifyOtp
  <2>2. otp[o].attempts + 1 \in 1..MaxOtpAttempts
    BY <2>1 DEF OtpRow
  <2> QED BY <1>1, <1>6, <2>1, <2>2, OtpJobs DEF VerifyOtp
<1>7. ASSUME NEW s \in Slots, SelectOtp(s) PROVE OtpTypeOK'
  <2>1. /\ job[s].otp \in Otps /\ job[s].attempts \in 1..MaxOtpAttempts
        /\ job[s].verified \in BOOLEAN
    BY <1>7, OtpSaving DEF SelectOtp, At
  <2>2. PICK c \in SUBSET {"attempts", "verified"} :
          Goto(s, [step |-> "update", otp |-> job[s].otp, attempts |-> job[s].attempts,
                   verified |-> job[s].verified, columns |-> c])
    BY <1>7 DEF SelectOtp
  <2> QED BY <1>1, <1>7, <2>1, <2>2, OtpJobs DEF SelectOtp
<1>8. ASSUME NEW s \in Slots, UpdateOtp(s) PROVE OtpTypeOK'
  BY <1>2, <1>8, OtpUpdates
<1>9. ASSUME NEW s \in Slots, AbandonOtp(s) PROVE OtpTypeOK'
  BY <1>2, <1>9 DEF AbandonOtp
<1>10. CASE UNCHANGED otpVars
  BY <1>10 DEF otpVars
<1> QED BY <1>3, <1>4, <1>5, <1>6, <1>7, <1>8, <1>9, <1>10 DEF OtpNext

\* A handler j that will write back its count for code o, and one whose save()
\* found the row with the same count and will leave it.
WritesFor(j, o) ==
  (j.step = "select" \/ (j.step = "update" /\ "attempts" \in j.columns)) /\ j.otp = o
SkipsFor(j, o) == j.step = "update" /\ "attempts" \notin j.columns /\ j.otp = o

\* The attempts left of code o, one more than the limit at first: in its row, in what
\* the handlers f have read; and those that will answer without writing the count.
OtpLeft(o) == MaxOtpAttempts + 1 - otp[o].attempts
OtpHeld(f, o) ==
  [s \in Slots |-> IF WritesFor(f[s], o) THEN MaxOtpAttempts + 2 - f[s].attempts ELSE 0]
Skips(f, o) == {s \in Slots : SkipsFor(f[s], o)}

\* The answers given and those that will leave the count are no more than allowed.
OtpInv ==
  /\ OtpTypeOK
  /\ \A o \in Otps :
       otp[o].tries + Cardinality(Skips(job, o)) <= Potential(OtpLeft(o), OtpHeld(job, o), MaxOtpAttempts)

\* The handlers' numbers.
LEMMA OtpCounted ==
  ASSUME NEW f \in [Slots -> OtpJob \cup {Idle}], NEW o
  PROVE  /\ OtpHeld(f, o) \in [Slots -> Int]
         /\ \A s \in Slots : /\ WritesFor(f[s], o) => OtpHeld(f, o)[s] = MaxOtpAttempts + 2 - f[s].attempts
                             /\ WritesFor(f[s], o) => OtpHeld(f, o)[s] \in 2..(MaxOtpAttempts + 1)
                             /\ ~WritesFor(f[s], o) => OtpHeld(f, o)[s] = 0
                             /\ OtpHeld(f, o)[s] >= 0
         /\ Skips(f, o) \subseteq Slots /\ Cardinality(Skips(f, o)) \in Nat
<1>1. ASSUME NEW s \in Slots, WritesFor(f[s], o) PROVE f[s].attempts \in 1..MaxOtpAttempts
  BY <1>1, OtpSaving DEF WritesFor
<1>2. \A s \in Slots : WritesFor(f[s], o) => MaxOtpAttempts + 2 - f[s].attempts \in 2..(MaxOtpAttempts + 1)
  BY <1>1, OtpAssumption
<1>3. Skips(f, o) \subseteq Slots /\ IsFiniteSet(Slots)
  BY ServiceAssumption DEF Skips
<1>4. Cardinality(Skips(f, o)) \in Nat
  BY <1>3, FS_Subset, FS_CardinalityType
<1>5. \A s \in Slots : /\ WritesFor(f[s], o) => OtpHeld(f, o)[s] = MaxOtpAttempts + 2 - f[s].attempts
                       /\ ~WritesFor(f[s], o) => OtpHeld(f, o)[s] = 0
  BY DEF OtpHeld
<1>6. \A s \in Slots : OtpHeld(f, o)[s] \in Int
  BY <1>2, <1>5, OtpAssumption
<1>7. OtpHeld(f, o) \in [Slots -> Int]
  <2>1. OtpHeld(f, o) = [s \in Slots |-> OtpHeld(f, o)[s]]
    BY DEF OtpHeld
  <2> QED BY <1>6, <2>1
<1> QED BY <1>2, <1>3, <1>4, <1>5, <1>7

\* The handlers that skip the count, when one handler s goes on to j.
LEMMA SkipsMove ==
  ASSUME NEW f, NEW g, NEW s \in Slots, NEW j, NEW o, g[s] = j, \A r \in Slots \ {s} : g[r] = f[r]
  PROVE  Cardinality(Skips(g, o)) = Cardinality(Skips(f, o)) + (IF SkipsFor(j, o) THEN 1 ELSE 0)
                                                             - (IF SkipsFor(f[s], o) THEN 1 ELSE 0)
<1>1. /\ Skips(f, o) \subseteq Slots /\ Skips(g, o) \subseteq Slots
      /\ Skips(f, o) \ {s} = Skips(g, o) \ {s}
      /\ s \in Skips(g, o) <=> SkipsFor(j, o)
      /\ s \in Skips(f, o) <=> SkipsFor(f[s], o)
  BY DEF Skips
<1>2. Cardinality(Skips(g, o)) = Cardinality(Skips(f, o)) + (IF s \in Skips(g, o) THEN 1 ELSE 0)
                                                         - (IF s \in Skips(f, o) THEN 1 ELSE 0)
  BY <1>1, ServiceAssumption, CountChange
<1> QED BY <1>1, <1>2, Zenon

\* One handler s goes on to j.
LEMMA OtpMoves ==
  ASSUME NEW f \in [Slots -> OtpJob \cup {Idle}], NEW g \in [Slots -> OtpJob \cup {Idle}],
         NEW s \in Slots, NEW j, NEW o, g[s] = j, \A r \in Slots \ {s} : g[r] = f[r]
  PROVE  /\ \A r \in Slots \ {s} : OtpHeld(g, o)[r] = OtpHeld(f, o)[r]
         /\ ~WritesFor(j, o) => OtpHeld(g, o) = [OtpHeld(f, o) EXCEPT ![s] = 0]
         /\ Cardinality(Skips(g, o)) = Cardinality(Skips(f, o)) + (IF SkipsFor(j, o) THEN 1 ELSE 0)
                                                               - (IF SkipsFor(f[s], o) THEN 1 ELSE 0)
<1>1. g[s] = j /\ \A r \in Slots \ {s} : g[r] = f[r]
  OBVIOUS
<1>2. \A r \in Slots \ {s} : OtpHeld(g, o)[r] = OtpHeld(f, o)[r]
  BY <1>1 DEF OtpHeld
<1>3. ASSUME ~WritesFor(j, o) PROVE OtpHeld(g, o) = [OtpHeld(f, o) EXCEPT ![s] = 0]
  <2>1. OtpHeld(g, o)[s] = 0 /\ OtpHeld(g, o) \in [Slots -> Int] /\ OtpHeld(f, o) \in [Slots -> Int]
    BY <1>1, <1>3, OtpCounted
  <2> QED BY <1>2, <2>1
<1>8. Cardinality(Skips(g, o)) = Cardinality(Skips(f, o)) + (IF SkipsFor(j, o) THEN 1 ELSE 0)
                                                         - (IF SkipsFor(f[s], o) THEN 1 ELSE 0)
  BY SkipsMove
<1> QED BY <1>1, <1>2, <1>3, <1>8

\* A code no handler writes has the attempts and answers it had.
LEMMA OtpRowKept ==
  ASSUME NEW o \in Otps, NEW f \in [Slots -> OtpJob \cup {Idle}], NEW g \in [Slots -> OtpJob \cup {Idle}],
         NEW n \in Nat, NEW c \in Nat, NEW d \in Nat, NEW l \in Int,
         n + c <= Potential(l, OtpHeld(f, o), MaxOtpAttempts), d <= c,
         \A r \in Slots : OtpHeld(g, o)[r] <= OtpHeld(f, o)[r] \/ OtpHeld(g, o)[r] <= l
  PROVE  n + d <= Potential(l, OtpHeld(g, o), MaxOtpAttempts)
<1>1. MaxOtpAttempts \in Nat
  BY OtpAssumption
<1>2. OtpHeld(f, o) \in [Slots -> Int] /\ OtpHeld(g, o) \in [Slots -> Int]
  BY OtpCounted
<1>3. PICK h \in [Slots -> Int], i \in [Slots -> Int] : h = OtpHeld(f, o) /\ i = OtpHeld(g, o)
  BY <1>2
<1>4. \A r \in Slots : i[r] <= h[r] \/ i[r] <= l
  BY <1>3
<1>5. Potential(l, h, MaxOtpAttempts) <= Potential(l, i, MaxOtpAttempts)
  BY <1>1, <1>4, PotentialKept
<1>6. Potential(l, h, MaxOtpAttempts) \in Nat /\ Potential(l, i, MaxOtpAttempts) \in Nat
  BY <1>1, PotentialLimited
<1>7. n + c <= Potential(l, h, MaxOtpAttempts)
  BY <1>3, Zenon
<1>8. n + d <= Potential(l, i, MaxOtpAttempts)
  BY <1>5, <1>6, <1>7
<1> QED BY <1>3, <1>8, Zenon

\* A handler x answers by its count, or will.
LEMMA OtpRowAnswered ==
  ASSUME NEW o \in Otps, NEW f \in [Slots -> OtpJob \cup {Idle}], NEW g \in [Slots -> OtpJob \cup {Idle}],
         NEW x \in Slots, WritesFor(f[x], o), NEW j, ~WritesFor(j, o), g[x] = j,
         \A r \in Slots \ {x} : g[r] = f[r],
         NEW n \in Nat, NEW l \in Int, NEW m \in Int, m = MaxOtpAttempts + 1 - f[x].attempts,
         n <= Potential(l, OtpHeld(f, o), MaxOtpAttempts)
  PROVE  n + 1 <= Potential(m, OtpHeld(g, o), MaxOtpAttempts)
<1>1. MaxOtpAttempts \in Nat
  BY OtpAssumption
<1>2. OtpHeld(f, o) \in [Slots -> Int] /\ OtpHeld(g, o) \in [Slots -> Int]
  BY OtpCounted
<1>3. /\ OtpHeld(f, o)[x] = MaxOtpAttempts + 2 - f[x].attempts
      /\ OtpHeld(f, o)[x] \in 2..(MaxOtpAttempts + 1)
  BY OtpCounted
<1>4. OtpHeld(g, o) = [OtpHeld(f, o) EXCEPT ![x] = 0]
  BY OtpMoves
<1>5. f[x].attempts \in 1..MaxOtpAttempts
  BY OtpSaving DEF WritesFor
<1>6. m = OtpHeld(f, o)[x] - 1
  BY <1>1, <1>3, <1>5
<1>7. PICK h \in [Slots -> Int], i \in [Slots -> Int] : h = OtpHeld(f, o) /\ i = OtpHeld(g, o)
  BY <1>2
<1>8. h[x] \in 2..(MaxOtpAttempts + 1) /\ m = h[x] - 1 /\ i = [h EXCEPT ![x] = 0]
  BY <1>3, <1>4, <1>6, <1>7, Zenon
<1>9. Potential(l, h, MaxOtpAttempts) + 1 <= Potential(m, i, MaxOtpAttempts)
  BY <1>1, <1>8, PotentialOneMore
<1>10. Potential(l, h, MaxOtpAttempts) \in Nat /\ Potential(m, i, MaxOtpAttempts) \in Nat
  BY <1>1, PotentialLimited
<1>11. n <= Potential(l, h, MaxOtpAttempts)
  BY <1>7, Zenon
<1>12. n + 1 <= Potential(m, i, MaxOtpAttempts)
  BY <1>9, <1>10, <1>11
<1> QED BY <1>7, <1>12, Zenon

\* Initially no code was generated.
LEMMA OtpInitInv ==
  ASSUME OtpInit PROVE OtpInv
<1>1. OtpTypeOK
  BY OtpAssumption DEF OtpInit, OtpTypeOK, AllIdle, NoOtp, OtpRow
<1>2. ASSUME NEW o \in Otps
      PROVE  otp[o].tries + Cardinality(Skips(job, o)) <= Potential(OtpLeft(o), OtpHeld(job, o), MaxOtpAttempts)
  <2>1. Skips(job, o) = {}
    BY DEF OtpInit, AllIdle, Idle, Skips, SkipsFor
  <2>2. otp[o].tries = 0 /\ Cardinality(Skips(job, o)) = 0
    BY <2>1, FS_EmptySet DEF OtpInit, NoOtp
  <2>3. Potential(OtpLeft(o), OtpHeld(job, o), MaxOtpAttempts) \in Nat
    BY OtpAssumption, PotentialLimited
  <2> QED BY <2>2, <2>3
<1> QED BY <1>1, <1>2 DEF OtpInv

\* Every step keeps it.
LEMMA OtpStepInv ==
  ASSUME OtpInv, [OtpNext]_otpVars
  PROVE  OtpInv'
<1>1. OtpTypeOK /\ OtpTypeOK'
  BY OtpTypeStep DEF OtpInv
<1>2. job \in [Slots -> OtpJob \cup {Idle}] /\ job' \in [Slots -> OtpJob \cup {Idle}]
  BY <1>1 DEF OtpTypeOK
<1> SUFFICES ASSUME NEW o \in Otps
             PROVE  otp'[o].tries + Cardinality(Skips(job', o))
                      <= Potential(OtpLeft(o)', OtpHeld(job', o), MaxOtpAttempts)
  BY <1>1 DEF OtpInv
<1> DEFINE Goal == otp'[o].tries + Cardinality(Skips(job', o))
                     <= Potential(OtpLeft(o)', OtpHeld(job', o), MaxOtpAttempts)
<1>3. otp[o].tries + Cardinality(Skips(job, o)) <= Potential(OtpLeft(o), OtpHeld(job, o), MaxOtpAttempts)
  BY DEF OtpInv
<1>4. /\ otp[o].tries \in Nat /\ otp'[o].tries \in Nat /\ otp[o].attempts \in 0..MaxOtpAttempts
      /\ OtpLeft(o) \in Int /\ OtpLeft(o)' \in Int
      /\ Cardinality(Skips(job, o)) \in Nat /\ Cardinality(Skips(job', o)) \in Nat
  <2>1. otp[o] \in OtpRow /\ otp'[o] \in OtpRow
    BY <1>1 DEF OtpTypeOK
  <2>2. Cardinality(Skips(job, o)) \in Nat /\ Cardinality(Skips(job', o)) \in Nat
    BY <1>2, OtpCounted
  <2> QED BY <2>1, <2>2, OtpAssumption DEF OtpRow, OtpLeft
<1> DEFINE RowKept == otp'[o].tries = otp[o].tries /\ otp'[o].attempts = otp[o].attempts
<1>5. ASSUME RowKept, Cardinality(Skips(job', o)) <= Cardinality(Skips(job, o)),
             \A r \in Slots : OtpHeld(job', o)[r] <= OtpHeld(job, o)[r] \/ OtpHeld(job', o)[r] <= OtpLeft(o)
      PROVE  Goal
  <2>1. OtpLeft(o)' = OtpLeft(o)
    BY <1>5 DEF OtpLeft
  <2>2. otp[o].tries + Cardinality(Skips(job', o)) <= Potential(OtpLeft(o), OtpHeld(job', o), MaxOtpAttempts)
    BY <1>2, <1>3, <1>4, <1>5, OtpRowKept
  <2> QED BY <1>5, <2>1, <2>2
<1>6. ASSUME NEW s \in Slots, NEW j, Goto(s, j)
      PROVE  job'[s] = j /\ \A r \in Slots \ {s} : job'[r] = job[r]
  BY <1>2, <1>6 DEF Goto
<1>7. ASSUME NEW s \in Slots, NEW j, Goto(s, j)
      PROVE  /\ \A r \in Slots \ {s} : OtpHeld(job', o)[r] = OtpHeld(job, o)[r]
             /\ Cardinality(Skips(job', o)) = Cardinality(Skips(job, o)) + (IF SkipsFor(j, o) THEN 1 ELSE 0)
                                                                        - (IF SkipsFor(job[s], o) THEN 1 ELSE 0)
             /\ ~WritesFor(j, o) => OtpHeld(job', o)[s] = 0
             /\ WritesFor(j, o) => OtpHeld(job', o)[s] = MaxOtpAttempts + 2 - j.attempts
  <2>1. job'[s] = j /\ \A r \in Slots \ {s} : job'[r] = job[r]
    BY <1>6, <1>7
  <2>2. /\ \A r \in Slots \ {s} : OtpHeld(job', o)[r] = OtpHeld(job, o)[r]
        /\ Cardinality(Skips(job', o)) = Cardinality(Skips(job, o)) + (IF SkipsFor(j, o) THEN 1 ELSE 0)
                                                                    - (IF SkipsFor(job[s], o) THEN 1 ELSE 0)
    BY <1>2, <2>1, OtpMoves
  <2>3. /\ WritesFor(job'[s], o) => OtpHeld(job', o)[s] = MaxOtpAttempts + 2 - job'[s].attempts
        /\ ~WritesFor(job'[s], o) => OtpHeld(job', o)[s] = 0
    BY <1>2, OtpCounted
  <2> QED BY <2>1, <2>2, <2>3, Zenon
<1>8. \A r \in Slots : OtpHeld(job, o)[r] >= 0 /\ OtpHeld(job, o)[r] \in Int /\ OtpHeld(job', o)[r] \in Int
  BY <1>2, OtpCounted
<1>9. ASSUME NEW s \in Slots, NEW j, Goto(s, j), ~WritesFor(j, o), ~SkipsFor(j, o), RowKept PROVE Goal
  <2>1. \A r \in Slots : OtpHeld(job', o)[r] <= OtpHeld(job, o)[r]
    <3>1. OtpHeld(job', o)[s] = 0 /\ \A r \in Slots \ {s} : OtpHeld(job', o)[r] = OtpHeld(job, o)[r]
      BY <1>7, <1>9
    <3> QED BY <1>8, <3>1
  <2>2. Cardinality(Skips(job', o)) <= Cardinality(Skips(job, o))
    <3>1. Cardinality(Skips(job', o)) = Cardinality(Skips(job, o)) + (IF SkipsFor(j, o) THEN 1 ELSE 0)
                                                                   - (IF SkipsFor(job[s], o) THEN 1 ELSE 0)
      BY <1>7, <1>9
    <3>2. (IF SkipsFor(j, o) THEN 1 ELSE 0) = 0 /\ (IF SkipsFor(job[s], o) THEN 1 ELSE 0) \in Nat
      BY <1>9
    <3> QED BY <1>4, <3>1, <3>2
  <2> HIDE DEF RowKept
  <2> QED BY <1>5, <1>9, <2>1, <2>2
<1>10. ASSUME NEW s \in Slots, Return(s), RowKept PROVE Goal
  <2>1. ~WritesFor(Idle, o) /\ ~SkipsFor(Idle, o)
    BY DEF Idle, WritesFor, SkipsFor
  <2> HIDE DEF RowKept, Goal
  <2> QED BY <1>9, <1>10, <2>1 DEF Return
<1>11. ASSUME NEW p \in Otps, AgeOtp(p) PROVE Goal
  <2>1. RowKept /\ job' = job
    BY <1>1, <1>11 DEF AgeOtp, OtpTypeOK, OtpRow
  <2>2. OtpLeft(o)' = OtpLeft(o)
    BY <2>1 DEF OtpLeft
  <2> QED BY <1>3, <2>1, <2>2
<1>12. ASSUME NEW s \in Slots, CheckCooldown(s) PROVE Goal
  <2>1. ~WritesFor([step |-> "generate"], o) /\ ~SkipsFor([step |-> "generate"], o)
    BY DEF WritesFor, SkipsFor
  <2>2. RowKept /\ Goto(s, [step |-> "generate"])
    BY <1>12 DEF CheckCooldown
  <2> HIDE DEF RowKept, Goal
  <2> QED BY <1>9, <2>1, <2>2
<1>13. ASSUME NEW s \in Slots, GenerateOtp(s) PROVE Goal
  <2>1. RowKept /\ Return(s)
    BY <1>1, <1>13 DEF GenerateOtp, OtpTypeOK, OtpRow
  <2> HIDE DEF RowKept, Goal
  <2> QED BY <1>10, <2>1
<1>14. ASSUME NEW s \in Slots, AbandonOtp(s) PROVE Goal
  <2>1. RowKept /\ Return(s)
    BY <1>14 DEF AbandonOtp
  <2> HIDE DEF RowKept, Goal
  <2> QED BY <1>10, <2>1
<1>15. ASSUME NEW s \in Slots, NEW right \in BOOLEAN, VerifyOtp(s, right) PROVE Goal
  <2>1. PICK p \in Otps : Goto(s, [step |-> "select", otp |-> p, verified |-> right,
                                   attempts |-> otp[p].attempts + 1])
    BY <1>15 DEF VerifyOtp
  <2> DEFINE j == [step |-> "select", otp |-> p, verified |-> right, attempts |-> otp[p].attempts + 1]
  <2>2. RowKept
    BY <1>15 DEF VerifyOtp
  <2>3. ~SkipsFor(j, o) /\ (WritesFor(j, o) <=> p = o) /\ j.attempts = otp[p].attempts + 1
    BY DEF SkipsFor, WritesFor
  <2>4. Goto(s, j)
    BY <2>1
  <2> HIDE DEF j
  <2>5. CASE p # o
    <3> HIDE DEF RowKept, Goal
    <3> QED BY <1>9, <2>2, <2>3, <2>4, <2>5
  <2>6. CASE p = o
    <3>1. OtpHeld(job', o)[s] = OtpLeft(o)
      <4>1. OtpHeld(job', o)[s] = MaxOtpAttempts + 2 - j.attempts
        BY <1>7, <2>3, <2>4, <2>6
      <4> QED BY <1>4, <2>3, <2>6, <4>1, OtpAssumption DEF OtpLeft
    <3>2. \A r \in Slots \ {s} : OtpHeld(job', o)[r] = OtpHeld(job, o)[r]
      BY <1>7, <2>4
    <3>3. \A r \in Slots : OtpHeld(job', o)[r] <= OtpHeld(job, o)[r] \/ OtpHeld(job', o)[r] <= OtpLeft(o)
      BY <1>4, <1>8, <3>1, <3>2
    <3>4. Cardinality(Skips(job', o)) <= Cardinality(Skips(job, o))
      <4>1. Cardinality(Skips(job', o)) = Cardinality(Skips(job, o)) + (IF SkipsFor(j, o) THEN 1 ELSE 0)
                                                                     - (IF SkipsFor(job[s], o) THEN 1 ELSE 0)
        BY <1>7, <2>4
      <4>2. (IF SkipsFor(j, o) THEN 1 ELSE 0) = 0 /\ (IF SkipsFor(job[s], o) THEN 1 ELSE 0) \in Nat
        BY <2>3
      <4> QED BY <1>4, <4>1, <4>2
    <3> HIDE DEF RowKept, Goal
    <3> QED BY <1>5, <2>2, <3>3, <3>4
  <2> QED BY <2>5, <2>6
<1>16. ASSUME NEW s \in Slots, SelectOtp(s) PROVE Goal
  <2>1. At(s, "select") /\ RowKept
    BY <1>16 DEF SelectOtp
  <2>2. PICK p \in Otps, n \in 1..MaxOtpAttempts : p = job[s].otp /\ n = job[s].attempts
    BY <1>2, <2>1, OtpSaving DEF At
  <2>3. PICK c : /\ Goto(s, [step |-> "update", otp |-> p, attempts |-> n,
                             verified |-> job[s].verified, columns |-> c])
                 /\ "attempts" \in c <=> n # otp[p].attempts
    BY <1>16, <2>2 DEF SelectOtp
  <2> DEFINE j == [step |-> "update", otp |-> p, attempts |-> n,
                   verified |-> job[s].verified, columns |-> c]
  <2>4. /\ WritesFor(j, o) <=> p = o /\ n # otp[p].attempts
        /\ SkipsFor(j, o) <=> p = o /\ n = otp[p].attempts
        /\ j.attempts = n
    BY <2>3 DEF WritesFor, SkipsFor
  <2>5. Goto(s, j)
    BY <2>3
  <2> HIDE DEF j
  <2>6. (WritesFor(job[s], o) <=> p = o) /\ ~SkipsFor(job[s], o)
    BY <2>1, <2>2 DEF WritesFor, SkipsFor, At
  <2>7. CASE p # o
    <3> HIDE DEF RowKept, Goal
    <3> QED BY <1>9, <2>1, <2>4, <2>5, <2>7
  <2>8. CASE p = o /\ n # otp[p].attempts
    <3>1. OtpHeld(job', o)[s] = OtpHeld(job, o)[s]
      <4>1. OtpHeld(job', o)[s] = MaxOtpAttempts + 2 - j.attempts
        BY <1>7, <2>4, <2>5, <2>8
      <4>2. OtpHeld(job, o)[s] = MaxOtpAttempts + 2 - job[s].attempts
        BY <1>2, <2>6, <2>8, OtpCounted
      <4> QED BY <2>2, <2>4, <4>1, <4>2
    <3>2. \A r \in Slots \ {s} : OtpHeld(job', o)[r] = OtpHeld(job, o)[r]
      BY <1>7, <2>5
    <3>3. \A r \in Slots : OtpHeld(job', o)[r] <= OtpHeld(job, o)[r]
      BY <1>8, <3>1, <3>2
    <3>4. Cardinality(Skips(job', o)) <= Cardinality(Skips(job, o))
      <4>1. Cardinality(Skips(job', o)) = Cardinality(Skips(job, o)) + (IF SkipsFor(j, o) THEN 1 ELSE 0)
                                                                     - (IF SkipsFor(job[s], o) THEN 1 ELSE 0)
        BY <1>7, <2>5
      <4>2. (IF SkipsFor(j, o) THEN 1 ELSE 0) = 0 /\ (IF SkipsFor(job[s], o) THEN 1 ELSE 0) \in Nat
        BY <2>4, <2>8
      <4> QED BY <1>4, <4>1, <4>2
    <3> HIDE DEF RowKept, Goal
    <3> QED BY <1>5, <2>1, <3>3, <3>4
  <2>9. CASE p = o /\ n = otp[p].attempts
    <3>1. Cardinality(Skips(job', o)) = Cardinality(Skips(job, o)) + 1
      <4>1. Cardinality(Skips(job', o)) = Cardinality(Skips(job, o)) + (IF SkipsFor(j, o) THEN 1 ELSE 0)
                                                                     - (IF SkipsFor(job[s], o) THEN 1 ELSE 0)
        BY <1>7, <2>5
      <4>2. (IF SkipsFor(j, o) THEN 1 ELSE 0) = 1 /\ (IF SkipsFor(job[s], o) THEN 1 ELSE 0) = 0
        BY <2>4, <2>6, <2>9
      <4> QED BY <1>4, <4>1, <4>2
    <3>2. OtpLeft(o)' = MaxOtpAttempts + 1 - job[s].attempts
      BY <2>1, <2>2, <2>9 DEF OtpLeft
    <3>3. ~WritesFor(j, o) /\ WritesFor(job[s], o)
      BY <2>4, <2>6, <2>9
    <3>4. job'[s] = j /\ \A r \in Slots \ {s} : job'[r] = job[r]
      BY <1>6, <2>5
    <3>5. PICK t \in Nat : t = otp[o].tries + Cardinality(Skips(job, o))
      BY <1>4
    <3>6. t <= Potential(OtpLeft(o), OtpHeld(job, o), MaxOtpAttempts)
      BY <1>3, <3>5
    <3>7. t + 1 <= Potential(OtpLeft(o)', OtpHeld(job', o), MaxOtpAttempts)
      BY <1>2, <1>4, <3>2, <3>3, <3>4, <3>6, OtpRowAnswered
    <3>8. otp'[o].tries + Cardinality(Skips(job', o)) = t + 1
      BY <1>4, <2>1, <3>1, <3>5
    <3> QED BY <3>7, <3>8, Zenon
  <2> QED BY <2>7, <2>8, <2>9
<1>17. ASSUME NEW s \in Slots, UpdateOtp(s) PROVE Goal
  <2>1. /\ At(s, "update") /\ Return(s)
        /\ job[s].otp \in Otps /\ job[s].attempts \in 1..MaxOtpAttempts
        /\ otp'[job[s].otp].tries = otp[job[s].otp].tries + 1
        /\ otp'[job[s].otp].attempts = IF "attempts" \in job[s].columns THEN job[s].attempts
                                       ELSE otp[job[s].otp].attempts
        /\ \A p \in Otps \ {job[s].otp} : otp'[p] = otp[p]
    BY <1>1, <1>17, OtpUpdates
  <2>2. Goto(s, Idle) /\ ~WritesFor(Idle, o) /\ ~SkipsFor(Idle, o)
    BY <2>1 DEF Return, Idle, WritesFor, SkipsFor
  <2>3. CASE job[s].otp # o
    <3>1. RowKept
      BY <2>1, <2>3
    <3> HIDE DEF RowKept, Goal
    <3> QED BY <1>10, <2>1, <3>1
  <2>4. Cardinality(Skips(job', o)) = Cardinality(Skips(job, o)) - (IF SkipsFor(job[s], o) THEN 1 ELSE 0)
    <3>1. Cardinality(Skips(job', o)) = Cardinality(Skips(job, o)) + (IF SkipsFor(Idle, o) THEN 1 ELSE 0)
                                                                   - (IF SkipsFor(job[s], o) THEN 1 ELSE 0)
      BY <1>7, <2>2
    <3>2. (IF SkipsFor(Idle, o) THEN 1 ELSE 0) = 0 /\ (IF SkipsFor(job[s], o) THEN 1 ELSE 0) \in Nat
      BY <2>2
    <3> QED BY <1>4, <3>1, <3>2
  <2>5. CASE job[s].otp = o /\ "attempts" \in job[s].columns
    <3>1. WritesFor(job[s], o) /\ ~SkipsFor(job[s], o)
      BY <2>1, <2>5 DEF WritesFor, SkipsFor, At
    <3>2. OtpLeft(o)' = MaxOtpAttempts + 1 - job[s].attempts
      BY <2>1, <2>5 DEF OtpLeft
    <3>3. job'[s] = Idle /\ \A r \in Slots \ {s} : job'[r] = job[r]
      BY <1>6, <2>2
    <3>4. PICK t \in Nat : t = otp[o].tries + Cardinality(Skips(job, o))
      BY <1>4
    <3>5. t <= Potential(OtpLeft(o), OtpHeld(job, o), MaxOtpAttempts)
      BY <1>3, <3>4
    <3>6. t + 1 <= Potential(OtpLeft(o)', OtpHeld(job', o), MaxOtpAttempts)
      BY <1>2, <1>4, <2>2, <3>1, <3>2, <3>3, <3>5, OtpRowAnswered
    <3>7. otp'[o].tries + Cardinality(Skips(job', o)) = t + 1
      BY <1>4, <2>1, <2>4, <2>5, <3>1, <3>4
    <3> QED BY <3>6, <3>7, Zenon
  <2>6. CASE job[s].otp = o /\ "attempts" \notin job[s].columns
    <3>1. ~WritesFor(job[s], o) /\ SkipsFor(job[s], o)
      BY <2>1, <2>6 DEF WritesFor, SkipsFor, At
    <3>2. OtpLeft(o)' = OtpLeft(o)
      BY <2>1, <2>6 DEF OtpLeft
    <3>3. otp'[o].tries + Cardinality(Skips(job', o)) = otp[o].tries + Cardinality(Skips(job, o))
      BY <1>4, <2>1, <2>4, <2>6, <3>1
    <3>4. \A r \in Slots : OtpHeld(job', o)[r] <= OtpHeld(job, o)[r]
      <4>1. OtpHeld(job', o)[s] = 0 /\ \A r \in Slots \ {s} : OtpHeld(job', o)[r] = OtpHeld(job, o)[r]
        BY <1>7, <2>2
      <4> QED BY <1>8, <4>1
    <3>5. PICK t \in Nat : t = otp[o].tries + Cardinality(Skips(job, o))
      BY <1>4
    <3>6. t + 0 <= Potential(OtpLeft(o), OtpHeld(job, o), MaxOtpAttempts)
      BY <1>3, <3>5
    <3>7. t + 0 <= Potential(OtpLeft(o), OtpHeld(job', o), MaxOtpAttempts)
      BY <1>2, <1>4, <3>4, <3>6, OtpRowKept
    <3> QED BY <3>2, <3>3, <3>5, <3>7
  <2> QED BY <2>3, <2>5, <2>6
<1>18. CASE UNCHANGED otpVars
  <2>1. job' = job /\ otp' = otp /\ OtpLeft(o)' = OtpLeft(o)
    BY <1>18 DEF otpVars, OtpLeft
  <2> QED BY <1>3, <2>1
<1> QED BY <1>11, <1>12, <1>13, <1>14, <1>15, <1>16, <1>17, <1>18 DEF OtpNext

\* The answers stay below what the limit lets through.
LEMMA OtpInvHolds ==
  ASSUME OtpInv PROVE TriesBounded
<1> SUFFICES ASSUME NEW o \in Otps
             PROVE  otp[o].tries < most[<<Cardinality(Slots), MaxOtpAttempts + 1>>]
  BY DEF TriesBounded
<1>1. MaxOtpAttempts \in Nat
  BY OtpAssumption
<1>2. /\ Potential(OtpLeft(o), OtpHeld(job, o), MaxOtpAttempts) \in Nat
      /\ Potential(OtpLeft(o), OtpHeld(job, o), MaxOtpAttempts) < most[<<Cardinality(Slots), MaxOtpAttempts + 1>>]
  BY <1>1, PotentialLimited
<1>3. otp[o].tries + Cardinality(Skips(job, o)) <= Potential(OtpLeft(o), OtpHeld(job, o), MaxOtpAttempts)
  BY DEF OtpInv
<1>4. otp[o].tries \in Nat /\ Cardinality(Skips(job, o)) \in Nat
  BY OtpCounted DEF OtpInv, OtpTypeOK, OtpRow
<1>5. most[<<Cardinality(Slots), MaxOtpAttempts + 1>>] \in Nat
  <2>1. MaxOtpAttempts + 1 \in Nat
    BY <1>1
  <2> QED BY <2>1, HeldBackSlots, MostStep
<1> QED BY <1>2, <1>3, <1>4, <1>5

\* Verifications that overlap cannot try a code without end: TriesBounded of Otp.
THEOREM OtpTriesBounded == OtpSpec => []TriesBounded
<1>1. OtpInit => OtpInv
  BY OtpInitInv
<1>2. OtpInv /\ [OtpNext]_otpVars => OtpInv'
  BY OtpStepInv
<1>3. OtpInv => TriesBounded
  BY OtpInvHolds
<1> QED BY <1>1, <1>2, <1>3, PTL DEF OtpSpec

=============================================================================
