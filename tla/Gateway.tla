------------------------------ MODULE Gateway ------------------------------
(***************************************************************************)
(* A route of the gateway to one service (gateway, src/proxy and           *)
(* src/common/circuit-breaker): forward() runs the HTTP request under the  *)
(* gateway's own circuit breaker.  It is not the breaker of the shared     *)
(* package: nothing limits the probes, and an answer counts in the state   *)
(* the breaker is in when it comes, not the one the call was let in by.    *)
(***************************************************************************)
EXTENDS Service

CONSTANTS
  FailureThreshold,  \* options.failureThreshold
  SuccessThreshold   \* options.successThreshold

ASSUME GatewayAssumption ==
  FailureThreshold \in Nat \ {0} /\ SuccessThreshold \in Nat \ {0}

VARIABLES
  state,      \* the breaker's fields
  failures,
  successes,
  waiting,    \* Date.now() < nextAttempt
  healthy     \* every call made now is answered, and below 400

gatewayVars == <<job, state, failures, successes, waiting, healthy>>

\* A call under way and how it will be answered.
GatewayJob == [step : {"call"}, well : BOOLEAN]

GatewayInit ==
  /\ AllIdle
  /\ state = "CLOSED"
  /\ failures = 0 /\ successes = 0
  /\ waiting = FALSE
  /\ healthy = TRUE

-----------------------------------------------------------------------------
\* handle(), forward() and the head of execute(); a request that finds the
\* breaker open is answered 503.
Forward(s) ==
  /\ IsIdle(s)
  /\ \/ state # "OPEN" /\ UNCHANGED <<state, successes>>
     \/ state = "OPEN" /\ ~waiting /\ state' = "HALF_OPEN" /\ successes' = 0
  /\ \E well \in {TRUE, healthy} : Goto(s, [step |-> "call", well |-> well])
  /\ UNCHANGED <<failures, waiting, healthy>>

\* Mutant: a half-open breaker is not closed by its successes.
OnSuccessStuck(s) ==
  /\ At(s, "call") /\ job[s].well
  /\ failures' = 0
  /\ Return(s)
  /\ UNCHANGED <<state, successes, waiting, healthy>>

\* onSuccess()
OnSuccess(s) ==
  /\ At(s, "call") /\ job[s].well
  /\ failures' = 0
  /\ IF state = "HALF_OPEN"
     THEN /\ successes' = successes + 1
          /\ state' = IF successes' >= SuccessThreshold THEN "CLOSED" ELSE state
     ELSE UNCHANGED <<state, successes>>
  /\ Return(s)
  /\ UNCHANGED <<waiting, healthy>>

\* Bound: failures past the threshold make no difference.
Counted(n) == IF n < FailureThreshold THEN n ELSE FailureThreshold

\* onFailure(): an error, 10 s without an answer, or a status of 400 and above,
\* the client's own mistakes included.
OnFailure(s) ==
  /\ At(s, "call") /\ ~job[s].well
  /\ failures' = Counted(failures + 1)
  /\ IF state = "HALF_OPEN" \/ failures + 1 >= FailureThreshold
     THEN state' = "OPEN" /\ waiting' = TRUE
     ELSE UNCHANGED <<state, waiting>>
  /\ Return(s)
  /\ UNCHANGED <<successes, healthy>>

\* nextAttempt is reached.
OpenPeriodEnds ==
  /\ waiting
  /\ waiting' = FALSE
  /\ UNCHANGED <<job, state, failures, successes, healthy>>

\* The service, or what its clients ask of it, gets worse or better.
ChangeHealth ==
  /\ healthy' = ~healthy
  /\ UNCHANGED <<job, state, failures, successes, waiting>>

GatewayNext ==
  \/ OpenPeriodEnds \/ ChangeHealth
  \/ \E s \in Slots : Forward(s) \/ OnSuccess(s) \/ OnFailure(s)

GatewaySpec == GatewayInit /\ [][GatewayNext]_gatewayVars

\* Clients keep asking, every call is answered or times out, time passes.
GatewayFairness ==
  /\ WF_gatewayVars(OpenPeriodEnds)
  /\ WF_gatewayVars(\E s \in Slots : Forward(s))
  /\ \A s \in Slots : WF_gatewayVars(OnSuccess(s) \/ OnFailure(s))

-----------------------------------------------------------------------------
(* Properties.                                                             *)

\* The breaker's fields have their types, and a closed breaker has counted
\* fewer failures in a row than would have opened it.
GatewayTypeOK ==
  /\ state \in {"CLOSED", "OPEN", "HALF_OPEN"}
  /\ failures \in 0..FailureThreshold
  /\ successes \in 0..SuccessThreshold
  /\ waiting \in BOOLEAN /\ healthy \in BOOLEAN
  /\ state = "CLOSED" => failures < FailureThreshold
  /\ job \in [Slots -> GatewayJob \cup {Idle}]

\* Once the service answers well for good, calls of earlier that fail late may
\* open the breaker again, but it ends closed and its route open to everybody.
GatewayRecovers == <>[]healthy => <>[](state = "CLOSED")
=============================================================================
