------------------------ MODULE CircuitBreakerProofs ------------------------
(* Proofs that the shared circuit breaker is never stuck half-open, and     *)
(* tries a failed service with one call, for any callers and any timings.   *)
EXTENDS CircuitBreaker, TLAPS

(* No call, its fallback included, outlives the cooldown. *)
Prompt == Timeout + FallbackTime < HalfOpenAfter

(* The longest caller c may still be in execute(). *)
Due(c) ==
  IF call[c].phase = "running" THEN call[c].left + FallbackTime ELSE call[c].left

(* TypeOK bounds no waiting time; the limits are those of the call's phase. *)
WithinLimits ==
  \A c \in Callers : call[c] # Idle =>
    call[c].left <= IF call[c].phase = "running" THEN Timeout ELSE FallbackTime

(* While the breaker is open, every call still in it ends before the        *)
(* cooldown does.                                                           *)
GoneInTime ==
  state = "OPEN" => \A c \in Callers : call[c] # Idle => Due(c) < cooldown

(* While it is half-open, its one call is the probe. *)
OnlyTheProbe ==
  state = "HALF_OPEN" =>
    /\ probing
    /\ \A c \in Callers : call[c] # Idle => call[c].phase = "running"
    /\ \A c, d \in Callers : call[c] # Idle /\ call[d] # Idle => c = d

Inv ==
  /\ TypeOK
  /\ ProbeInFlight
  /\ WithinLimits
  /\ Prompt => GoneInTime /\ OnlyTheProbe

(* An empty window, and one call more in its latest unit of time. *)
LEMMA NoRecordsType == NoRecords \in [0..Window -> CallRecords]
  BY DEF NoRecords, CallRecords

\* Counting an outcome in the current instant keeps the records typed.
LEMMA RecordedType ==
  ASSUME NEW r \in [0..Window -> CallRecords]
  PROVE  /\ [r EXCEPT ![0].success = @ + 1] \in [0..Window -> CallRecords]
         /\ [r EXCEPT ![0].failure = @ + 1] \in [0..Window -> CallRecords]
  <1>1. 0 \in 0..Window
    BY TimesAssumption
  <1>2. r[0] \in CallRecords
    BY <1>1
  <1>3. /\ [r[0] EXCEPT !.success = @ + 1] \in CallRecords
        /\ [r[0] EXCEPT !.failure = @ + 1] \in CallRecords
    BY <1>2 DEF CallRecords
  <1> QED
    BY <1>1, <1>3

\* A new breaker, CLOSED with empty buckets, satisfies the invariant.
LEMMA InitInv == Init => Inv
  <1>1. SUFFICES ASSUME Init PROVE Inv
    OBVIOUS
  <1>2. TypeOK
    <2>1. 0 \in 0..HalfOpenAfter
      BY TimesAssumption
    <2> QED
      BY <1>1, <2>1, NoRecordsType DEF Init, TypeOK, CircuitState
  <1>3. ProbeInFlight /\ WithinLimits /\ GoneInTime /\ OnlyTheProbe
    BY <1>1 DEF Init, ProbeInFlight, WithinLimits, GoneInTime, OnlyTheProbe
  <1> QED
    BY <1>2, <1>3 DEF Inv

(* A call is admitted. *)
LEMMA AdmitInv ==
  ASSUME Inv, NEW c \in Callers, call[c] = Idle, Admit(c) PROVE Inv'
  <1> USE DEF Admit, Admits
  <1> DEFINE new == [phase |-> "running", left |-> Timeout,
                     outcome |-> IF up THEN "answer" ELSE "error"]
  <1>1. new \in Call
    BY TimesAssumption DEF Call
  <1>2. new # Idle /\ new.phase = "running" /\ new.left = Timeout
    BY <1>1, IdleAssumption DEF Call
  <1>3. /\ call' = [call EXCEPT ![c] = new]
        /\ call[c] = Idle
        /\ UNCHANGED <<cooldown, records, up>>
        /\ state' = IF state = "OPEN" THEN "HALF_OPEN" ELSE state
        /\ probing' = (probing \/ state # "CLOSED")
    OBVIOUS
  <1> HIDE DEF new
  <1>4. /\ call'[c] = new
        /\ \A d \in Callers : d # c => call'[d] = call[d]
    BY <1>3 DEF Inv, TypeOK
  <1>5. TypeOK'
    BY <1>1, <1>3 DEF Inv, TypeOK, CircuitState
  <1>6. ProbeInFlight'
    BY <1>2, <1>4 DEF ProbeInFlight, Busy
  <1>7. WithinLimits'
    BY <1>2, <1>4, TimesAssumption DEF Inv, WithinLimits
  <1>8. ASSUME Prompt PROVE GoneInTime' /\ OnlyTheProbe'
    <2>1. GoneInTime /\ OnlyTheProbe
      BY <1>8 DEF Inv
    <2>2. state' # "OPEN"
      BY <1>3
    <2>3. ASSUME state' = "HALF_OPEN"
          PROVE \A d \in Callers : d # c => call[d] = Idle
      <3>1. CASE state = "OPEN" /\ cooldown = 0
        <4>1. \A d \in Callers : call[d] # Idle => Due(d) \in Nat
          BY TimesAssumption DEF Inv, TypeOK, Call, Due
        <4> QED
          BY <2>1, <3>1, <4>1 DEF GoneInTime
      <3>2. CASE state = "HALF_OPEN"
        BY <2>1, <3>2 DEF OnlyTheProbe
      <3> QED
        BY <1>3, <2>3, <3>1, <3>2 DEF Inv, TypeOK, CircuitState
    <2>4. OnlyTheProbe'
      BY <1>2, <1>3, <1>4, <2>3 DEF OnlyTheProbe
    <2> QED
      BY <2>2, <2>4 DEF GoneInTime
  <1> QED
    BY <1>5, <1>6, <1>7, <1>8 DEF Inv, Prompt

(* A caller finds the cooldown over and the flag of an earlier call raised: *)
(* impossible where no call outlives the cooldown.                          *)
LEMMA HalfOpenRefusedInv ==
  ASSUME Inv, HalfOpenRefused PROVE Inv'
  <1> USE DEF HalfOpenRefused
  <1>1. TypeOK'
    BY DEF Inv, TypeOK, CircuitState
  <1>2. ProbeInFlight' /\ WithinLimits'
    BY DEF Inv, ProbeInFlight, WithinLimits, Busy
  <1>3. ASSUME Prompt PROVE FALSE
    <2>1. PICK c \in Callers : call[c] # Idle
      BY DEF Inv, ProbeInFlight, Busy
    <2>2. Due(c) \in Nat
      BY <2>1, TimesAssumption DEF Inv, TypeOK, Call, Due
    <2> QED
      BY <1>3, <2>1, <2>2 DEF Inv, GoneInTime
  <1> QED
    BY <1>1, <1>2, <1>3 DEF Inv, Prompt

(* A call ends: nothing is asked of the flag any more, and there is one     *)
(* call less to limit.                                                      *)
LEMMA LeaveParts ==
  ASSUME Inv, NEW c \in Callers, Leave(c)
  PROVE  /\ call' \in [Callers -> Call \cup {Idle}]
         /\ probing' = FALSE
         /\ call'[c] = Idle
         /\ \A d \in Callers : d # c => call'[d] = call[d]
         /\ ProbeInFlight'
         /\ WithinLimits'
  <1>1. /\ call' \in [Callers -> Call \cup {Idle}]
        /\ probing' = FALSE
        /\ call'[c] = Idle
        /\ \A d \in Callers : d # c => call'[d] = call[d]
    BY DEF Inv, TypeOK, Leave
  <1> QED
    BY <1>1 DEF Inv, ProbeInFlight, WithinLimits

\* recordSuccess() keeps it: a probe that succeeds closes the circuit.
LEMMA SucceedInv ==
  ASSUME Inv, NEW c \in Callers, Succeed(c) PROVE Inv'
  <1>1. Leave(c) /\ UNCHANGED <<cooldown, up>>
    BY DEF Succeed
  <1>2. records' \in [0..Window -> CallRecords]
    <2>1. CASE state = "HALF_OPEN"
      BY <2>1, NoRecordsType DEF Succeed
    <2>2. CASE state # "HALF_OPEN"
      BY <2>2, RecordedType DEF Succeed, Inv, TypeOK
    <2> QED
      BY <2>1, <2>2
  <1>3. state' = IF state = "HALF_OPEN" THEN "CLOSED" ELSE state
    BY DEF Succeed
  <1>4. TypeOK'
    BY <1>1, <1>2, <1>3, LeaveParts DEF Inv, TypeOK, CircuitState
  <1>5. ASSUME Prompt PROVE GoneInTime' /\ OnlyTheProbe'
    <2>1. GoneInTime /\ OnlyTheProbe
      BY <1>5 DEF Inv
    <2>2. ASSUME state' = "OPEN", NEW d \in Callers, call'[d] # Idle
          PROVE Due(d)' < cooldown'
      <3>1. /\ state = "OPEN" /\ d # c /\ cooldown' = cooldown
            /\ call'[d] = call[d]
        BY <1>1, <1>3, <2>2, LeaveParts
      <3>2. Due(d)' = Due(d)
        BY <3>1 DEF Due
      <3> QED
        BY <2>1, <2>2, <3>1, <3>2 DEF GoneInTime
    <2>3. state' # "HALF_OPEN"
      BY <1>3
    <2> QED
      BY <2>2, <2>3 DEF GoneInTime, OnlyTheProbe
  <1> QED
    BY <1>1, <1>4, <1>5, LeaveParts DEF Inv, Prompt

(* A failed call either leaves or waits for its fallback, and the breaker   *)
(* may have opened: then the cooldown has all its time to go.               *)
LEMMA FailInv ==
  ASSUME Inv, NEW c \in Callers, Fail(c) PROVE Inv'
  <1>1. /\ call[c] # Idle
        /\ call[c].phase = "running"
        /\ call[c] \in Call
        /\ OnFailure
        /\ UNCHANGED up
    BY DEF Fail, Inv, TypeOK
  <1>2. records' \in [0..Window -> CallRecords]
    BY <1>1, RecordedType DEF OnFailure, Inv, TypeOK
  <1>3. state' \in {state, "OPEN"} /\ state' # "HALF_OPEN"
    BY <1>1 DEF OnFailure, Inv, TypeOK, CircuitState
  <1>4. cooldown' = IF state # "OPEN" /\ state' = "OPEN" THEN HalfOpenAfter ELSE cooldown
    BY <1>1 DEF OnFailure
  <1>5. /\ state' \in CircuitState
        /\ cooldown' \in 0..HalfOpenAfter
        /\ up' \in BOOLEAN
    BY <1>1, <1>3, <1>4, TimesAssumption DEF Inv, TypeOK, CircuitState
  <1>6. /\ call' \in [Callers -> Call \cup {Idle}]
        /\ probing' \in BOOLEAN
        /\ ProbeInFlight'
        /\ WithinLimits'
        /\ \A d \in Callers : call'[d] # Idle => call[d] # Idle
        /\ \A d \in Callers : call'[d] # Idle /\ d # c => call'[d] = call[d]
        /\ call'[c] # Idle => call'[c].phase = "fallback" /\ call'[c].left = FallbackTime
    <2>1. CASE Leave(c)
      BY <2>1, LeaveParts DEF Inv
    <2>2. CASE /\ call' = [call EXCEPT ![c].phase = "fallback", ![c].left = FallbackTime]
               /\ UNCHANGED probing
      <3> DEFINE new == [call[c] EXCEPT !.phase = "fallback", !.left = FallbackTime]
      <3>1. new \in Call /\ new.phase = "fallback" /\ new.left = FallbackTime
        BY <1>1, TimesAssumption DEF Call
      <3>2. new # Idle
        BY <3>1, IdleAssumption DEF Call
      <3>3. call' = [call EXCEPT ![c] = new]
        BY <2>2
      <3> HIDE DEF new
      <3>4. /\ call' \in [Callers -> Call \cup {Idle}]
            /\ call'[c] = new
            /\ \A d \in Callers : d # c => call'[d] = call[d]
        BY <3>1, <3>3 DEF Inv, TypeOK
      <3>5. WithinLimits'
        BY <3>1, <3>4, TimesAssumption DEF Inv, WithinLimits
      <3>6. ProbeInFlight'
        BY <3>2, <3>4 DEF ProbeInFlight, Busy
      <3>7. probing' \in BOOLEAN
        BY <2>2 DEF Inv, TypeOK
      <3> QED
        BY <1>1, <3>1, <3>4, <3>5, <3>6, <3>7
    <2> QED
      BY <2>1, <2>2 DEF Fail
  <1>7. TypeOK'
    BY <1>2, <1>5, <1>6 DEF TypeOK
  <1>8. ASSUME Prompt PROVE GoneInTime' /\ OnlyTheProbe'
    <2>1. ASSUME state' = "OPEN", NEW d \in Callers, call'[d] # Idle
          PROVE Due(d)' < cooldown'
      <3>1. /\ call[d] # Idle
            /\ call[d] \in Call
            /\ call[d].left \in Nat
            /\ call[d].left <= IF call[d].phase = "running" THEN Timeout ELSE FallbackTime
        BY <1>6, <2>1 DEF Inv, TypeOK, WithinLimits, Call
      <3>2. Due(d)' <= Due(d)
        <4>1. CASE d # c
          BY <1>6, <2>1, <3>1, <4>1, TimesAssumption DEF Due
        <4>2. CASE d = c
          BY <1>1, <1>6, <2>1, <3>1, <4>2, TimesAssumption DEF Due
        <4> QED
          BY <4>1, <4>2
      <3>3. Due(d)' \in Nat /\ Due(d) \in Nat
        BY <1>6, <2>1, <3>1, TimesAssumption DEF Due
      <3>4. CASE state = "OPEN"
        BY <1>4, <1>8, <3>1, <3>2, <3>3, <3>4 DEF Inv, GoneInTime, TypeOK
      <3>5. CASE state # "OPEN"
        <4>1. cooldown' = HalfOpenAfter
          BY <1>4, <2>1, <3>5
        <4>2. Due(d) <= Timeout + FallbackTime
          BY <3>1, TimesAssumption DEF Due
        <4> QED
          BY <1>8, <3>2, <3>3, <4>1, <4>2, TimesAssumption DEF Prompt
      <3> QED
        BY <3>4, <3>5
    <2> QED
      BY <1>3, <2>1 DEF GoneInTime, OnlyTheProbe
  <1> QED
    BY <1>6, <1>7, <1>8 DEF Inv, Prompt

\* A fallback that returns ends its call and lowers the flag of the probe.
LEMMA FallbackDoneInv ==
  ASSUME Inv, NEW c \in Callers, FallbackDone(c) PROVE Inv'
  <1>1. /\ Leave(c)
        /\ call[c] # Idle
        /\ call[c].phase = "fallback"
        /\ UNCHANGED <<state, cooldown, records, up>>
    BY DEF FallbackDone
  <1>2. TypeOK'
    BY <1>1, LeaveParts DEF Inv, TypeOK
  <1>3. ASSUME Prompt PROVE GoneInTime' /\ OnlyTheProbe'
    BY <1>1, <1>3, LeaveParts DEF Inv, GoneInTime, OnlyTheProbe, Due
  <1> QED
    BY <1>1, <1>2, <1>3, LeaveParts DEF Inv, Prompt

\* reset() only closes the circuit, which asks nothing of the calls.
LEMMA ResetInv ==
  ASSUME Inv, Reset PROVE Inv'
  <1>1. TypeOK'
    BY NoRecordsType DEF Reset, Inv, TypeOK, CircuitState
  <1> QED
    BY <1>1
    DEF Reset, Inv, ProbeInFlight, WithinLimits, GoneInTime, OnlyTheProbe, Prompt

(* Time passes for every call alike. *)
LEMMA TickInv ==
  ASSUME Inv, Tick PROVE Inv'
  <1>1. ASSUME NEW c \in Callers
        PROVE /\ call[c] = Idle => call'[c] = Idle
              /\ call[c] # Idle => /\ call'[c] \in Call
                                   /\ call'[c] # Idle
                                   /\ call'[c].phase = call[c].phase
                                   /\ call'[c].left = call[c].left - 1
                                   /\ call[c].left \in Nat \ {0}
                                   /\ call'[c].left \in Nat
    <2>1. CASE call[c] = Idle
      BY <2>1 DEF Tick
    <2>2. CASE call[c] # Idle
      <3>1. call[c] \in Call /\ call[c].left > 0
        BY <2>2 DEF Tick, Busy, Inv, TypeOK
      <3>2. call'[c] = [call[c] EXCEPT !.left = @ - 1]
        BY <2>2 DEF Tick
      <3>3. call'[c] \in Call
        BY <3>1, <3>2 DEF Call
      <3> QED
        BY <2>2, <3>1, <3>2, <3>3, IdleAssumption DEF Call
    <2> QED
      BY <2>1, <2>2
  <1>2. records' \in [0..Window -> CallRecords]
    BY TimesAssumption DEF Tick, Inv, TypeOK, CallRecords
  <1>3. TypeOK'
    <2>1. call' \in [Callers -> Call \cup {Idle}]
      BY <1>1 DEF Tick
    <2>2. cooldown' \in 0..HalfOpenAfter
      BY TimesAssumption DEF Tick, Inv, TypeOK
    <2> QED
      BY <1>2, <2>1, <2>2 DEF Tick, Inv, TypeOK
  <1>4. ProbeInFlight'
    BY <1>1 DEF Tick, Inv, ProbeInFlight, Busy
  <1>5. WithinLimits'
    BY <1>1, TimesAssumption DEF Inv, WithinLimits
  <1>6. ASSUME Prompt PROVE GoneInTime' /\ OnlyTheProbe'
    <2>1. ASSUME state' = "OPEN", NEW c \in Callers, call'[c] # Idle
          PROVE Due(c)' < cooldown'
      <3>1. state = "OPEN" /\ call[c] # Idle
        BY <1>1, <2>1 DEF Tick
      <3>2. Due(c) < cooldown /\ Due(c) \in Nat /\ Due(c)' = Due(c) - 1
        BY <1>1, <1>6, <3>1, TimesAssumption DEF Inv, GoneInTime, Due
      <3>3. cooldown \in Nat /\ cooldown' = cooldown - 1
        BY <3>2 DEF Tick, Inv, TypeOK
      <3> QED
        BY <3>2, <3>3
    <2>2. OnlyTheProbe'
      BY <1>1, <1>6 DEF Tick, Inv, OnlyTheProbe
    <2> QED
      BY <2>1, <2>2 DEF GoneInTime
  <1> QED
    BY <1>3, <1>4, <1>5, <1>6 DEF Inv, Prompt

(* Steps of the environment, and no step at all. *)
LEMMA ServiceInv ==
  ASSUME Inv, UNCHANGED <<state, cooldown, records, probing, call>>, up' \in BOOLEAN
  PROVE Inv'
  BY DEF Inv, TypeOK, ProbeInFlight, WithinLimits, GoneInTime, OnlyTheProbe,
         Due, Busy, Prompt

\* Every step of the breaker, its callers and the clock keeps the invariant.
LEMMA NextInv == Inv /\ [Next]_vars => Inv'
  <1> SUFFICES ASSUME Inv, [Next]_vars PROVE Inv'
    OBVIOUS
  <1>1. ASSUME NEW c \in Callers, Execute(c) PROVE Inv'
    BY <1>1, AdmitInv, HalfOpenRefusedInv DEF Execute
  <1>2. ASSUME NEW c \in Callers, Finish(c) PROVE Inv'
    BY <1>2, SucceedInv, FailInv, FallbackDoneInv DEF Finish
  <1>3. CASE Reset
    BY <1>3, ResetInv
  <1>4. CASE Tick
    BY <1>4, TickInv
  <1>5. CASE Outage \/ Repair
    BY <1>5, ServiceInv DEF Outage, Repair
  <1>6. CASE UNCHANGED vars
    BY <1>6, ServiceInv DEF vars, Inv, TypeOK
  <1> QED
    BY <1>1, <1>2, <1>3, <1>4, <1>5, <1>6 DEF Next

\* So it holds of every behaviour of the breaker.
LEMMA SpecInv == Spec => []Inv
  BY InitInv, NextInv, PTL DEF Spec

(* The breaker's fields keep their types and its cooldown never exceeds     *)
(* halfOpenAfterMs.                                                         *)
THEOREM BreakerTypeCorrect == Spec => []TypeOK
  <1>1. Inv => TypeOK
    BY DEF Inv
  <1> QED
    BY SpecInv, <1>1, PTL

(* Whatever calls overlap and however long they take, a raised              *)
(* halfOpenInFlight is that of a call which will still lower it: execute()  *)
(* does not leave the breaker refusing everybody for good.                  *)
THEOREM BreakerNeverStuck == Spec => []ProbeInFlight
  <1>1. Inv => ProbeInFlight
    BY DEF Inv
  <1> QED
    BY SpecInv, <1>1, PTL

(* Where timeout and fallback together are shorter than the cooldown, a     *)
(* half-open breaker lets exactly one call through at a time.               *)
THEOREM BreakerSingleProbe == Prompt => (Spec => []SingleProbe)
  <1>1. SUFFICES ASSUME Prompt PROVE Spec => []SingleProbe
    OBVIOUS
  <1>2. Inv => SingleProbe
    BY <1>1 DEF Inv, OnlyTheProbe, SingleProbe, Running, Busy
  <1> QED
    BY SpecInv, <1>2, PTL
=============================================================================
