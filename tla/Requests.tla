------------------------------ MODULE Requests ------------------------------
(***************************************************************************)
(* What the shared package wraps around a handler (shared, src/resilience):*)
(* RedisRateLimitGuard for one actor and bucket, then                      *)
(* IdempotencyInterceptor for one Idempotency-Key.  Both keep their state  *)
(* in Redis and let the request through when Redis does not answer.        *)
(***************************************************************************)
EXTENDS Service, Sums

CONSTANTS
  Limit,       \* RateLimitOptions.limit
  WindowMs,    \* RateLimitOptions.windowMs, in ticks of the clock
  MaxLapses    \* bound: the commands Redis does not answer, the answers it
               \* forgets, and the crashes

ASSUME RequestsAssumption ==
  Limit \in Nat \ {0} /\ WindowMs \in Nat \ {0} /\ MaxLapses \in Nat

VARIABLES
  count,    \* Redis: the value of rl:<bucket>:<actor>; 0 is no key
  ttl,      \* Redis: the ticks until it expires
  admitted, \* how many requests the counter let through, by the ticks since
  cached,   \* Redis: the answer stored at idemp:<method>:<route>:<key>
  runs,     \* how often the handler ran to its end
  lapses   \* bound: how often Redis or the process has failed

requestVars == <<job, count, ttl, admitted, cached, runs, lapses>>

RequestJob == [step : {"replay", "handler", "cache"}]

RequestsInit ==
  /\ AllIdle
  /\ count = 0 /\ ttl = 0
  /\ admitted = [t \in 0..(WindowMs - 1) |-> 0]
  /\ cached = FALSE
  /\ runs = 0 /\ lapses = 0

-----------------------------------------------------------------------------
(* canActivate().                                                          *)

\* Bound: counts past the limit make no difference.
CountedTo(n) == IF n <= Limit THEN n ELSE Limit + 1

\* Mutant: the limit is off by one.
EvalLuaOffByOne(s) ==
  /\ IsIdle(s)
  /\ count' = CountedTo(count + 1)
  /\ ttl' = IF count = 0 THEN WindowMs ELSE ttl
  /\ IF count > Limit THEN UNCHANGED <<job, admitted>>
     ELSE /\ Goto(s, [step |-> "replay"])
          /\ admitted' = [admitted EXCEPT ![0] = @ + 1]
  /\ UNCHANGED <<cached, runs, lapses>>

\* The script: INCR, PEXPIRE by the first; more than `limit` are answered 429.
EvalLua(s) ==
  /\ IsIdle(s)
  /\ count' = CountedTo(count + 1)
  /\ ttl' = IF count = 0 THEN WindowMs ELSE ttl
  /\ IF count + 1 > Limit THEN UNCHANGED <<job, admitted>>
     ELSE /\ Goto(s, [step |-> "replay"])
          /\ admitted' = [admitted EXCEPT ![0] = @ + 1]
  /\ UNCHANGED <<cached, runs, lapses>>

\* An answer is lost or forgotten.
Lapse == lapses < MaxLapses /\ lapses' = lapses + 1

\* The script fails: the request goes on, uncounted.
FailOpen(s) ==
  /\ IsIdle(s) /\ Lapse
  /\ Goto(s, [step |-> "replay"])
  /\ UNCHANGED <<count, ttl, admitted, cached, runs>>

-----------------------------------------------------------------------------
(* intercept().                                                            *)

\* tryReplay(): a cached answer is all there is to do.
TryReplay(s) ==
  /\ At(s, "replay")
  /\ Goto(s, IF cached THEN Idle ELSE [step |-> "handler"])
  /\ UNCHANGED <<count, ttl, admitted, cached, runs, lapses>>

\* The GET fails or what it returns is corrupt: the handler runs.
ReplayFails(s) ==
  /\ At(s, "replay") /\ Lapse
  /\ Goto(s, [step |-> "handler"])
  /\ UNCHANGED <<count, ttl, admitted, cached, runs>>

\* The handler succeeds; the client is answered and nobody waits for the cache.
RunHandler(s) ==
  /\ At(s, "handler")
  /\ runs' = runs + 1
  /\ Goto(s, [step |-> "cache"])
  /\ UNCHANGED <<count, ttl, admitted, cached, lapses>>

\* It throws: nothing is cached.
HandlerThrows(s) ==
  /\ At(s, "handler")
  /\ Return(s)
  /\ UNCHANGED <<count, ttl, admitted, cached, runs, lapses>>

\* Mutant: the answer is not stored.
CacheNothing(s) ==
  /\ At(s, "cache")
  /\ Return(s)
  /\ UNCHANGED <<count, ttl, admitted, cached, runs, lapses>>

\* cacheResponse(), of an answer of at most MAX_BODY_BYTES.
CacheResponse(s) ==
  /\ At(s, "cache")
  /\ cached' = TRUE
  /\ Return(s)
  /\ UNCHANGED <<count, ttl, admitted, runs, lapses>>

\* The SET fails, or the process dies and takes every request with it.
CacheFails(s) ==
  /\ At(s, "cache") /\ Lapse
  /\ job' \in {[job EXCEPT ![s] = Idle], [t \in Slots |-> Idle]}
  /\ UNCHANGED <<count, ttl, admitted, cached, runs>>

\* TTL_SECONDS have passed.
CacheExpires ==
  /\ cached /\ Lapse
  /\ cached' = FALSE
  /\ UNCHANGED <<job, count, ttl, admitted, runs>>

-----------------------------------------------------------------------------
Tick ==
  /\ ttl' = IF ttl > 0 THEN ttl - 1 ELSE 0
  /\ count' = IF ttl <= 1 THEN 0 ELSE count
  /\ admitted' = [t \in DOMAIN admitted |-> IF t = 0 THEN 0 ELSE admitted[t - 1]]
  /\ UNCHANGED <<job, cached, runs, lapses>>

RequestsNext ==
  \/ Tick \/ CacheExpires
  \/ \E s \in Slots :
       \/ EvalLua(s) \/ FailOpen(s) \/ TryReplay(s) \/ ReplayFails(s)
       \/ RunHandler(s) \/ HandlerThrows(s) \/ CacheResponse(s) \/ CacheFails(s)

RequestsSpec == RequestsInit /\ [][RequestsNext]_requestVars

-----------------------------------------------------------------------------
(* Properties.                                                             *)

\* The keys in Redis and the locals of the requests have their types.
RequestsTypeOK ==
  /\ count \in 0..(Limit + 1) /\ ttl \in 0..WindowMs
  /\ admitted \in [0..(WindowMs - 1) -> Nat]
  /\ cached \in BOOLEAN
  /\ runs \in Nat /\ lapses \in 0..MaxLapses
  /\ job \in [Slots -> RequestJob \cup {Idle}]

\* The retries of one Idempotency-Key run their handler again only if they
\* overlap, or if an answer was not stored or not found: never more often than
\* there are handlers at once, for each time that happened.
RunsBounded == runs <= Cardinality(Slots) * (1 + lapses)

\* The counter limits a fixed window: a window that slides sees the end of one
\* and the start of the next, and no more than both.
AtMostTwiceLimit == Sum(admitted, DOMAIN admitted) <= 2 * Limit
=============================================================================
