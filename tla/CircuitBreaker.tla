--------------------------- MODULE CircuitBreaker ---------------------------
(* The circuit breaker of the shared resilience library                     *)
(* (src/apps/backend/shared/src/resilience/circuit-breaker.ts): execute()   *)
(* wraps a call in a timeout, counts answers and failures over a rolling    *)
(* window, and stops calling a service that fails. One breaker, in one Node *)
(* process: a step runs from one await to the next, so the callers of       *)
(* execute() interleave only while they wait for the service or for their   *)
(* fallback.                                                                *)
(*                                                                          *)
(* Time is discrete. No clock value is kept: what the code compares with    *)
(* Date.now() is the age of a record or the time left until something.      *)
EXTENDS Naturals, FiniteSetsExt

CONSTANTS
  Callers,            \* requests that call execute() again and again
  Idle,               \* a caller that is not in execute()
  Timeout,            \* timeoutMs, with the lateness of the timer
  FallbackTime,       \* the longest a fallback takes; the code sets no limit
  HalfOpenAfter,      \* halfOpenAfterMs
  Window,             \* rollingWindowMs
  VolumeThreshold,    \* volumeThreshold
  ErrorThresholdPct,  \* errorThresholdPct
  MaxRecords          \* bound on the calls of one window

ASSUME TimesAssumption ==
  {Timeout, FallbackTime, HalfOpenAfter, Window} \subseteq Nat
ASSUME ThresholdsAssumption ==
  {VolumeThreshold, ErrorThresholdPct, MaxRecords} \subseteq Nat
ASSUME IdleAssumption == Idle \notin [phase : {"running", "fallback"},
                                      left : Nat, outcome : {"answer", "error"}]

VARIABLES
  state,      \* CLOSED, OPEN or HALF_OPEN
  cooldown,   \* time left until nextAttemptAt
  records,    \* calls recorded, by age: those older than the window are gone
  probing,    \* halfOpenInFlight
  call,       \* what each caller waits for
  up          \* the wrapped service answers

vars == <<state, cooldown, records, probing, call, up>>

CircuitState == {"CLOSED", "OPEN", "HALF_OPEN"}

(* A call that runs fn (invokeWithTimeout), or that failed and awaits its   *)
(* fallback; left bounds how long that may still take, and the service      *)
(* decides the outcome when it receives the call.                           *)
Call == [phase : {"running", "fallback"}, left : Nat, outcome : {"answer", "error"}]

CallRecords == [success : Nat, failure : Nat]
NoRecords == [age \in 0..Window |-> [success |-> 0, failure |-> 0]]

Successes == MapThenSumSet(LAMBDA age : records[age].success, 0..Window)
Failures == MapThenSumSet(LAMBDA age : records[age].failure, 0..Window)
Busy == {c \in Callers : call[c] # Idle}
Running == {c \in Busy : call[c].phase = "running"}

Init ==
  /\ state = "CLOSED"
  /\ cooldown = 0
  /\ records = NoRecords
  /\ probing = FALSE
  /\ call = [c \in Callers |-> Idle]
  /\ up = TRUE

-----------------------------------------------------------------------------
(* execute() up to its first await. A caller it refuses gets its fallback   *)
(* or an error at once, and leaves the breaker as it was.                   *)
Admits ==
  \/ state = "CLOSED"
  \/ state = "OPEN" /\ cooldown = 0 /\ ~probing
  \/ state = "HALF_OPEN" /\ ~probing

(* The call goes to the service; a breaker that was open is half-open now.  *)
Admit(c) ==
  /\ Successes + Failures + Cardinality(Running) < MaxRecords
  /\ Admits
  /\ call' = [call EXCEPT ![c] =
                [phase |-> "running", left |-> Timeout,
                 outcome |-> IF up THEN "answer" ELSE "error"]]
  /\ state' = IF state = "OPEN" THEN "HALF_OPEN" ELSE state
  /\ probing' = (probing \/ state # "CLOSED")
  /\ UNCHANGED <<cooldown, records, up>>

(* The cooldown is over but the flag of an earlier call still stands: the   *)
(* breaker turns half-open and refuses the caller.                          *)
HalfOpenRefused ==
  /\ state = "OPEN"
  /\ cooldown = 0
  /\ probing
  /\ state' = "HALF_OPEN"
  /\ UNCHANGED <<cooldown, records, probing, call, up>>

Execute(c) ==
  /\ call[c] = Idle
  /\ Admit(c) \/ HalfOpenRefused

(* Mutant: the flag is lowered only where a call is answered. *)
LeaveUnlessFailed(c) ==
  /\ call' = [call EXCEPT ![c] = Idle]
  /\ probing' = IF call[c].outcome = "answer" THEN FALSE ELSE probing

(* finally: whatever call ends, the flag is lowered. *)
Leave(c) ==
  /\ call' = [call EXCEPT ![c] = Idle]
  /\ probing' = FALSE

(* onSuccess: record, and close a half-open breaker with a clean window. *)
Succeed(c) ==
  /\ call[c] # Idle
  /\ call[c].phase = "running"
  /\ call[c].outcome = "answer"
  /\ IF state = "HALF_OPEN"
     THEN state' = "CLOSED" /\ records' = NoRecords
     ELSE /\ records' = [records EXCEPT ![0].success = @ + 1]
          /\ UNCHANGED state
  /\ Leave(c)
  /\ UNCHANGED <<cooldown, up>>

(* shouldTrip, with the failure at hand already recorded. *)
ShouldTrip ==
  /\ Successes + Failures + 1 >= VolumeThreshold
  /\ (Failures + 1) * 100 >= ErrorThresholdPct * (Successes + Failures + 1)

(* Mutant: the cooldown is not restarted when a probe fails. *)
OnFailureStaleCooldown ==
  /\ records' = [records EXCEPT ![0].failure = @ + 1]
  /\ state' = IF state = "HALF_OPEN" \/ ShouldTrip THEN "OPEN" ELSE state
  /\ cooldown' = cooldown

(* onFailure, for an error of fn as for its timeout: a half-open breaker    *)
(* opens, another one if the window says so, and the cooldown starts with   *)
(* the transition (transitionTo ignores one to the same state).             *)
OnFailure ==
  /\ records' = [records EXCEPT ![0].failure = @ + 1]
  /\ state' = IF state = "HALF_OPEN" \/ ShouldTrip THEN "OPEN" ELSE state
  /\ cooldown' = IF state # "OPEN" /\ state' = "OPEN" THEN HalfOpenAfter ELSE cooldown

(* The catch block: the error goes to the caller, or with the breaker open  *)
(* to a fallback, and `finally` waits for that fallback.                    *)
Fail(c) ==
  /\ call[c] # Idle
  /\ call[c].phase = "running"
  /\ call[c].outcome = "error"
  /\ OnFailure
  /\ \/ Leave(c)
     \/ /\ state' = "OPEN"
        /\ call' = [call EXCEPT ![c].phase = "fallback", ![c].left = FallbackTime]
        /\ UNCHANGED probing
  /\ UNCHANGED up

FallbackDone(c) ==
  /\ call[c] # Idle
  /\ call[c].phase = "fallback"
  /\ Leave(c)
  /\ UNCHANGED <<state, cooldown, records, up>>

(* reset(), from the factory's resetAll(). *)
Reset ==
  /\ state' = "CLOSED"
  /\ records' = NoRecords
  /\ probing' = FALSE
  /\ UNCHANGED <<cooldown, call, up>>

(* One unit of time, which no call outlives its limit by: records age out   *)
(* of the window (every reading of them evicts the expired ones first).     *)
Tick ==
  /\ \A c \in Busy : call[c].left > 0
  /\ call' = [c \in Callers |->
                IF call[c] = Idle THEN Idle
                ELSE [call[c] EXCEPT !.left = @ - 1]]
  /\ cooldown' = IF cooldown = 0 THEN 0 ELSE cooldown - 1
  /\ records' = [age \in 0..Window |->
                   IF age = 0 THEN [success |-> 0, failure |-> 0] ELSE records[age - 1]]
  /\ UNCHANGED <<state, probing, up>>

Outage == up' = FALSE /\ UNCHANGED <<state, cooldown, records, probing, call>>
Repair == up' = TRUE /\ UNCHANGED <<state, cooldown, records, probing, call>>

Finish(c) == Succeed(c) \/ Fail(c) \/ FallbackDone(c)

Next ==
  \/ \E c \in Callers : Execute(c) \/ Finish(c)
  \/ Reset
  \/ Tick
  \/ Outage
  \/ Repair

Spec == Init /\ [][Next]_vars

(* Time passes, every call ends (a timer sees to it) and somebody keeps     *)
(* calling the service.                                                     *)
Fairness ==
  /\ WF_vars(Tick)
  /\ \A c \in Callers : WF_vars(Finish(c)) /\ WF_vars(Execute(c))

-----------------------------------------------------------------------------
(* Type correctness: the breaker is in one of its three states, waits at    *)
(* most one cooldown, and keeps no record older than the window.            *)
TypeOK ==
  /\ state \in CircuitState
  /\ cooldown \in 0..HalfOpenAfter
  /\ records \in [0..Window -> CallRecords]
  /\ probing \in BOOLEAN
  /\ call \in [Callers -> Call \cup {Idle}]
  /\ up \in BOOLEAN

(* A raised halfOpenInFlight belongs to a call that is still to end: the    *)
(* breaker never refuses everybody for good, whichever way a call ended     *)
(* and however calls of different states overlap.                           *)
ProbeInFlight == probing => Busy # {}

(* A half-open breaker has at most one call running: the service that just  *)
(* failed is tried by one request, not by all that wait. The flag is shared *)
(* by all calls and lowered by any of them, so this rests on none of them   *)
(* outliving the cooldown.                                                  *)
SingleProbe ==
  state = "HALF_OPEN" => \A c, d \in Running : c = d

(* Once the service is well for good, the breaker closes and stays closed,  *)
(* as long as somebody calls it.                                            *)
Recovers == <>[]up => <>[](state = "CLOSED")
=============================================================================
