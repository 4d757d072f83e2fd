--------------------------- MODULE RefreshTokens ---------------------------
(***************************************************************************)
(* The refresh tokens of one user (auth-service, src/auth/auth.service.ts).*)
(* A token is a signed JWT whose payload differs from another's only in    *)
(* the second it was issued, so two of one second are the same string: the *)
(* table holds them as two rows that one token names.  Its index on        *)
(* `token` is not unique.                                                  *)
(***************************************************************************)
EXTENDS Service, Sums

CONSTANTS
  Rows,        \* the rows the table may come to hold
  MaxSeconds   \* bound: the seconds in which tokens are issued

ASSUME RefreshTokensAssumption == MaxSeconds \in Nat \ {0} /\ IsFiniteSet(Rows)

VARIABLES
  token,   \* table refresh_tokens
  second   \* the current second

tokenVars == <<job, token, second>>

Seconds == 1..MaxSeconds

\* `spent` counts the pairs of tokens a row was exchanged for; a row that is
\* revoked or past expiresAt is dead.
TokenRow == [state : {"absent", "live", "dead"}, second : Seconds, spent : Nat]
NoToken == [state |-> "absent", second |-> 1, spent |-> 0]

TokenJob == [step : {"issue", "sessions"}] \cup [step : {"revoke"}, row : Rows]

TokensInit ==
  /\ AllIdle
  /\ token = [r \in Rows |-> NoToken]
  /\ second = 1

-----------------------------------------------------------------------------
\* login(), register() and verifyPhoneLogin() have come to generateTokens().
SignIn(s) ==
  /\ IsIdle(s)
  /\ Goto(s, [step |-> "issue"])
  /\ UNCHANGED <<token, second>>

\* generateTokens(): sign, and save the hash.
GenerateTokens(s) ==
  /\ At(s, "issue")
  /\ \E r \in Rows :
       /\ token[r].state = "absent"
       /\ token' = [token EXCEPT ![r].state = "live", ![r].second = second]
  /\ Return(s)
  /\ UNCHANGED second

\* Mutant: the token is looked up without `revoked: false`.
FindRevoked(s, t) ==
  /\ IsIdle(s)
  /\ \E r \in Rows :
       /\ token[r].state # "absent" /\ token[r].second = t
       /\ Goto(s, [step |-> "revoke", row |-> r])
  /\ UNCHANGED <<token, second>>

\* refresh(): findOne() of a row with the token that is not revoked or expired.
FindToken(s, t) ==
  /\ IsIdle(s)
  /\ \E r \in Rows :
       /\ token[r].state = "live" /\ token[r].second = t
       /\ Goto(s, [step |-> "revoke", row |-> r])
  /\ UNCHANGED <<token, second>>

\* refresh(): save() of the entity with revoked set, by its key.
RevokeToken(s) ==
  /\ At(s, "revoke")
  /\ token' = [token EXCEPT ![job[s].row].state = "dead", ![job[s].row].spent = @ + 1]
  /\ Goto(s, [step |-> "issue"])
  /\ UNCHANGED second

\* UPDATE refresh_tokens SET revoked = true of the rows R.
Revoke(R) ==
  token' = [r \in Rows |-> IF r \in R /\ token[r].state = "live"
                           THEN [token[r] EXCEPT !.state = "dead"] ELSE token[r]]

Logout(t) ==
  /\ Revoke({r \in Rows : token[r].second = t})
  /\ UNCHANGED <<job, second>>

\* logoutAll(), and confirmPasswordReset() after the password is changed.
RevokeAll(s) ==
  /\ IsIdle(s)
  /\ Revoke(Rows)
  /\ Goto(s, [step |-> "sessions"])
  /\ UNCHANGED second

\* deleteAllUserSessions(): no caller of createSession() exists, so the index
\* is empty and nothing is deleted.
DeleteSessions(s) ==
  /\ At(s, "sessions")
  /\ Return(s)
  /\ UNCHANGED <<token, second>>

-----------------------------------------------------------------------------
ExpireToken(r) ==
  /\ token[r].state = "live"
  /\ token' = [token EXCEPT ![r].state = "dead"]
  /\ UNCHANGED <<job, second>>

NextSecond ==
  /\ second < MaxSeconds
  /\ second' = second + 1
  /\ UNCHANGED <<job, token>>

\* A query throws or the process stops: what was written stays.
AbandonToken(s) ==
  /\ ~IsIdle(s)
  /\ Return(s)
  /\ UNCHANGED <<token, second>>

TokensNext ==
  \/ NextSecond
  \/ \E r \in Rows : ExpireToken(r)
  \/ \E t \in Seconds : Logout(t)
  \/ \E s \in Slots :
       \/ SignIn(s) \/ GenerateTokens(s) \/ RevokeToken(s)
       \/ RevokeAll(s) \/ DeleteSessions(s) \/ AbandonToken(s)
       \/ \E t \in Seconds : FindToken(s, t)

TokensSpec == TokensInit /\ [][TokensNext]_tokenVars

-----------------------------------------------------------------------------
(* Properties.                                                             *)

\* The table and the locals of the handlers have their types.
TokensTypeOK ==
  /\ token \in [Rows -> TokenRow]
  /\ second \in Seconds
  /\ job \in [Slots -> TokenJob \cup {Idle}]

\* The rows that one token names.
RowsOf(t) == {r \in Rows : token[r].state # "absent" /\ token[r].second = t}

\* Each revoked row of a token pays for one exchange, and for those of requests
\* that found the row before the first of them revoked it.  A token is thus used
\* up when it has one row; one whose second issued several is still good after
\* its first exchange, once more for each row that is left.
ExchangesWithinRows ==
  \A t \in Seconds :
    Sum([r \in Rows |-> token[r].spent], RowsOf(t))
      <= Cardinality(Slots) * Cardinality({r \in RowsOf(t) : token[r].state = "dead"})
=============================================================================
