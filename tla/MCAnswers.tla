----------------------------- MODULE MCAnswers -----------------------------
(***************************************************************************)
(* What must end in time, side by side for TLC: promo codes waiting for    *)
(* connections, the session of the admin console, the gateway's breaker,   *)
(* that of the shared package, and the shutdown of a process.  A behaviour *)
(* is about one of them: `part` never changes, and the other parts stay as *)
(* they begin.                                                             *)
(***************************************************************************)
EXTENDS Promo, AdminConsole, Gateway, Shutdown

CONSTANTS
  Callers,  \* of CircuitBreaker
  First     \* the hook with the lowest order

VARIABLES
  part,
  breaker, cooldown, records, probing, call, up  \* of CircuitBreaker

MCTerms == {[perUser |-> 1, total |-> 2]}
MCOrderOf == [h \in Hooks |-> IF h = First THEN 0 ELSE 100]

\* Fallbacks that outlive the cooldown, so that calls of two states overlap.
B == INSTANCE CircuitBreaker WITH
       state <- breaker, Timeout <- 1, FallbackTime <- 3,
       HalfOpenAfter <- 2, Window <- 2, VolumeThreshold <- 2, ErrorThresholdPct <- 50,
       MaxRecords <- 3

breakerVars == <<breaker, cooldown, records, probing, call, up>>

Init ==
  /\ part \in {"promo", "console", "gateway", "breaker", "shutdown"}
  /\ PromoInit /\ ConsoleInit /\ GatewayInit /\ B!Init /\ ShutdownInit

Only(p) ==
  /\ part = p /\ part' = p
  /\ p # "promo"    => UNCHANGED <<promo, uses>>
  /\ p # "console"  => UNCHANGED <<store, issued, valid, live, page>>
  /\ p # "gateway"  => UNCHANGED <<state, failures, successes, waiting, healthy>>
  /\ p # "breaker"  => UNCHANGED breakerVars
  /\ p # "shutdown" => UNCHANGED shutdownVars

Next ==
  \/ Only("promo") /\ PromoNext
  \/ Only("console") /\ ConsoleNext
  \/ Only("gateway") /\ GatewayNext
  \/ Only("breaker") /\ B!Next /\ UNCHANGED job
  \/ Only("shutdown") /\ ShutdownNext /\ UNCHANGED job

\* Each part has the fairness of its own module.
Fairness ==
  \/ part = "promo" /\ PromoFairness
  \/ part = "console" /\ ConsoleFairness
  \/ part = "gateway" /\ GatewayFairness
  \/ part = "breaker" /\ B!Fairness
  \/ part = "shutdown" /\ ShutdownFairness

Spec ==
  /\ Init
  /\ [][Next]_<<part, job, promoVars, consoleVars, gatewayVars, breakerVars, shutdownVars>>
  /\ Fairness

\* The fields and locals of every part have their types.
AnswersTypeOK ==
  /\ part = "promo"    => PromoTypeOK
  /\ part = "console"  => ConsoleTypeOK
  /\ part = "gateway"  => GatewayTypeOK
  /\ part = "breaker"  => B!TypeOK
  /\ part = "shutdown" => ShutdownTypeOK

\* Once the wrapped service is well for good, the breaker of the shared package
\* closes and stays closed, as long as somebody calls it.
Recovers == B!Recovers
=============================================================================
