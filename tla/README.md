# Verification of the Crab backend

Crab is a ride-hailing and food-delivery platform: a Flutter app, a React admin
console, an API gateway and eight NestJS services over PostgreSQL, MongoDB and
Redis. This directory holds TLA+ models of the parts whose correctness depends
on what runs at the same time, the TLC configurations that check them, and
proofs that TLAPS checks. Paths below are relative to `src/`; `B` stands for
`apps/backend`.

To check a run: `tlc -config RidesApart.cfg MCRides.tla`. To check a proof
module: `tlapm RidesProofs.tla`.

## 1. Inventory

How the parts talk. The app calls the gateway over HTTP and listens on its
sockets; the gateway forwards each request to one service through a circuit
breaker. Services share no tables. The handlers of a service interleave at
every `await`: Node runs one of them at a time, but the databases are outside,
several instances of a service may run, and only two services open transactions
with row locks (payment) or atomic increments (food).

| Part (source) | State it keeps | Operations | What is hard | What makes it correct |
|---|---|---|---|---|
| Wallet (`B/payment-service/src/wallet`) | balance, pending, frozen; ledger | topUp, deduct, credit, transfer, withdraw, freeze, getBalance | two requests on one wallet; lock order; creation of a wallet by two requests; failure between statements | ledger and balance agree, no overdraft, frozen money stays, no deadlock, each call atomic |
| Promo (`B/payment-service/src/promo`) | uses per code and user | create, deactivate, validate, apply | limits checked outside the transaction that adds a use; queries that need a second connection of the pool | uses beyond a limit only by overlap; every request answered |
| Transactions | none of its own | queries | - | - |
| Rides, drivers, matching (`B/ride-service/src/{rides,drivers,matching}`) | ride row (PostgreSQL); driver status (MongoDB) | create, accept, reject, status, cancel, SOS; online, offline, location; matching task | no transaction; two databases; a detached matching task; crash between writes | a request is one step on both databases, nobody is busy without a ride, a driver is not replaced |
| Matching queue | Bull jobs | enqueue, process | retries | (not used by the ride service) |
| Fare (`.../fare`) | none | estimate, surge, the pricing in `create()` | parts and total rounded apart; demand counted at two times | one surge makes the whole fare, up to rounding |
| Tracking (`.../tracking`) | ride state and path in Redis | set, update status, append, clear | read-modify-write; expiry set by a command of its own | a path without expiry had an append fail |
| Orders (`B/food-service/src/orders`) | order row; sales counters | create, updateStatus, assignDriver | stale check of the transition; deadlock of counters | no stage skipped, paid iff delivered, counters match orders |
| Restaurants, menus (`B/food-service/src/{restaurants,menus}`) | open flag, categories, items | CRUD, toggleOpen, menu tree | change during a placement; a tree read in several queries | an item nobody touched is shown once |
| Auth (`B/auth-service/src/auth`) | refresh tokens, failed logins, OTPs, devices, sessions | login, refresh, logout, verify, password reset | read-then-write of tokens and counters; two tokens of one second are one string | exchanges of a token are those of its revoked rows; guesses are bounded |
| User (`B/user-service/src`) | addresses, registrations, documents | CRUD, register, approve, setDriverOnline | find-then-insert without unique index | duplicates only by overlap |
| Chat (`B/chat-service/src`) | rooms with unread counters, messages, conversations | create, send, markRead, delete | counters read and written back | a counter never exceeds the messages of others |
| Notification (`B/notification-service/src`) | notifications, preferences, push tokens, fan-out queue | send, enqueue, prune | a job run again after it stored its notification | stored at least once, copies bounded by the runs of the job |
| Rating (`B/rating-service/src`) | ratings, aggregates, reviews | create | aggregate read and saved whole | an aggregate is never larger than its ratings, never lost altogether |
| Circuit breaker (`B/shared/src/resilience`) | state, records, cooldown, probe flag | execute, reset | calls of different states overlap; timeouts | one probe, never stuck, recovers |
| Idempotency, rate limit, shutdown (`B/shared/src/resilience`) | Redis keys; hooks | intercept, canActivate, runShutdown | a retry during the first run; Redis away; window edge; a hook that never returns | runs bounded by overlap and lapses; at most twice the limit; the process exits |
| Gateway (`B/gateway/src`) | a breaker per service | forward, sockets, dashboard summary | no probe limit in half-open; late failures | the route opens again |
| Web admin (`apps/web-admin`) | entries of localStorage; what a page has loaded | log in, refresh, load, decide | an expired token met by several requests; answers out of order | a stale session ends; a page shows the decisions it was told of |
| Mobile app, packages, infrastructure | client state | user interface | - | - |

`PROJECT.json` lists every part with its status and every hazard at its line.

## 2. Plan

Done, the most important behaviour first:

1. money: `Wallet`, implementing `Bank`;
2. dispatch: `Rides`, implementing `Dispatch` where the requests about one ride do not
   overlap;
3. food orders: `Orders` and `OrderPlacement`;
4. the shared circuit breaker: `CircuitBreaker`;
5. the services with read-then-write handlers: `Promo`, `Ratings`, `Chat`,
   `UserRecords`, `Menus`, `Tracking`, `Notifications`, `Login`, `Otp`,
   `RefreshTokens`;
6. what surrounds a handler: `Requests`, `Gateway`, `Shutdown`;
7. money shown to people, and the admin console: `Fare`, `Dashboard`,
   `AdminConsole`, `AdminPages`.

Every safety property the runs check is also proved (section 5). To come: types and
invariants of `Gateway`, `Shutdown` and `AdminConsole`, of which the runs check what must
eventually happen.

## 3. The modules

| Module | Models | Extends / instantiates |
|---|---|---|
| `Bank` | what the wallet promises: each call is one atomic step | - |
| `Wallet` | `WalletService`, statement by statement; the sum of all wallets | INSTANCE `Bank` |
| `MCWallet` | its instances | `Wallet` |
| `WalletProofs` | its theorems | `Wallet`, `SumTheorems` |
| `Dispatch` | what dispatch promises: a request is one step on ride and driver | - |
| `Rides` | `RidesService`, `DriversService`, the matching task | INSTANCE `Dispatch` |
| `MCRides` | its instances | `Rides` |
| `RidesProofs` | its theorems, for whatever overlaps and for one request about a ride at a time | `Rides`, TLAPS |
| `Orders` | `updateStatus()`, `assignDriver()` | - |
| `OrderPlacement` | `create()` of the food service and its transaction | - |
| `OrdersProofs` | theorems of the two | `Orders`, `OrderPlacement`, `SumTheorems` |
| `MCOrders` | instances of the two, side by side | `Orders`, `OrderPlacement` |
| `CircuitBreaker`, `MCCircuitBreaker`, `CircuitBreakerProofs` | `CircuitBreaker.execute()`, `reset()`; theorems | - |
| `Service` | handlers that interleave at their awaits: `job`, `Goto`, `Return` | - |
| `Promo` | `PromoService` with the connection pool | `Service` |
| `Ratings` | ratings, aggregates, reviews | `Service` |
| `Chat` | rooms, messages, conversations | `Service` |
| `UserRecords` | addresses, registrations, documents | `Service` |
| `Menus` | restaurants, categories, items, the menu tree | `Service` |
| `Tracking` | ride state and path in Redis | `Service` |
| `Notifications` | fan-out queue, inbox, preferences, push tokens | `Service` |
| `Login`, `Otp` | sign-in with its lockout; one-time codes | `Service`, `Attempts` |
| `Attempts` | how many answers a limit kept in memory lets through | - |
| `RefreshTokens` | rotation of refresh tokens | `Service` |
| `Requests` | rate limit and idempotency around a handler | `Service` |
| `Gateway` | the gateway's breaker of one service and its calls | `Service` |
| `Shutdown` | hooks against the grace period | - |
| `Fare` | estimates, surge, the price of a ride | `Service` |
| `Dashboard` | the gateway's summary and the page that shows it | `Service` |
| `AdminConsole`, `AdminPages` | the console's session; its list pages and dialogs | `Service` |
| `MCServices`, `MCAnswers` | instances of the above, side by side, for safety and for liveness | all of them |
| `Sums`, `SumTheorems` | sums over finite sets; what they are, for every finite set | - |
| `AccessProofs` | theorems of `RefreshTokens`, `Requests`, `Login`, `Otp` | these, `SumTheorems` |
| `RecordsProofs` | theorems of `Promo`, `Ratings`, `Chat`, `UserRecords`, `Menus`, `Tracking`, `Notifications` | these, `SumTheorems` |
| `ServicesProofs` | theorems of `Fare`, `Dashboard`, `AdminPages`, and of all parts side by side | `MCServices`, the two above |

An operator whose comment begins with "Mutant:" is a changed definition that shows
a property can fail; nothing else uses it.

### Wallet

A request is a process; `pc` is the statement it sends next, `todo` the wallets
it has still to lock, `mem` the entities it holds. `row` and `ledger` are the
committed tables, `owner` the row locks. PostgreSQL at READ COMMITTED is
modelled from its documented behaviour: `SELECT ... FOR UPDATE` waits for a
locked row and then reads its committed value, sees no uncommitted INSERT, and
returns nothing at once when there is no row; an INSERT of a key waits for
another uncommitted one and then fails. TypeORM's `save()` is a SELECT followed
by an INSERT or UPDATE (`Probe`, then `Insert` or `Reset`). `Abort` is a failed
statement or lost connection anywhere before the commit.

`getOrCreateForUpdate` is `LockRow`, or `FindNone`, `Probe` and `Insert`/`Reset`;
the guards of the methods are `Rejected`; their balances `Save`; ledger rows and
COMMIT are `Commit` (a step of its own: nothing of it is visible before). Amounts
are whole; `deduct` and `credit` have no HTTP route and are called like the
others.

### Rides

A slot is one chain of awaits: a handler (`Read`, `Write`, `Settle`) and the
matching task it starts (`Rank`, `Offer`, `Occupy`). Each action runs from one
database answer to the next. `Read` is `findById()` with the handler's checks;
a refused request changes nothing and has no action. `Written` is the columns of
each handler's UPDATE, applied to the row as it is by then, since
`repository.update(id, {...})` writes only these. Slots are reused, so any number
of requests is served; the number of slots bounds what overlaps.

Clients are free: any call of `Calls` may come at any time. Neither the apps nor the
service narrow it: the driver bloc sends an accept in any state
(`apps/mobile/lib/features/ride/driver/presentation/bloc/driver_bloc.dart:63-98`),
`ride:new_request` goes to every socket (`ride.gateway.ts:42-43`), `acceptRide()` does not
ask whether the driver is free, and a driver may go offline during a ride.

Three constants choose the environment. `Apart`: a request about a ride comes when nothing
else about that ride is under way, while those about other rides overlap in the other
slots; it is a circumstance under which more holds, not a check of the code. `Pings`:
driver apps send their location, which sets them ONLINE. `Faults`: a query throws or the
process stops (`Abandon`); the rest of the chain is then never run. The position of
drivers, scores, fares and vehicle types are data: `Rank` may choose any eligible driver
or none.

`Dispatch` has one step per request, on the ride and on its driver's status together. The
refinement mapping takes the ride to change when the driver's status does: while a chain
has written PostgreSQL and not yet MongoDB, `Trip` is the row it read.

### Orders and OrderPlacement

`Orders` is the status machine: `Read` finds the order and looks the transition up
in the table, `Write` updates the row by its id. `Updated` is the switch of
`updateStatus()`. `OrderPlacement` is `create()`: the restaurant's check outside
the transaction, the items, then the increments in the order of the cart, each of
which keeps its row locked, the restaurant's last. `Victim` is PostgreSQL ending
one transaction of a cycle of waits. An increment of an item deleted since it was
read (it would match no row) is left out, as is the price.

### CircuitBreaker

One breaker in one process. A caller is in `execute()` awaiting its function
("running") or its fallback. Time is discrete and no clock value is kept: a record
has an age, `cooldown` is what is left until `nextAttemptAt`, `left` what a call may
still take. A call ends by an answer, an error or its timer; the timer is why
`Tick` waits for calls whose time is up. `Timeout` includes the lateness of that
timer. The code sets no limit on a fallback, so `FallbackTime` is a parameter. No
service uses the library's factory yet; the model is of its contract.

### Service, and the modules built on it

`job[s]` is what a handler in slot s holds across its current await: `step` names the
statement it sends next, the other fields are its locals. An action runs from one
answer to the next one's sending, so whatever a handler read may be stale when it
writes. Slots are reused: any number of requests is served, their number bounds only
what overlaps. A failed statement is a `Return` at that point.

* `Promo`. `apply()` opens a transaction and then validates through repositories
  outside it: `Find` and `CountUses` need a second connection of the pool
  (`FreeConnection`), `Increment` and `CommitUse` run on the first.
* `Ratings`. `save()` of an aggregate selects the row again and writes the columns that
  differ from that second read, not from the first; `ReadAggregate` and `WriteAggregate`
  keep the two apart. A `CommitRating` may fail on the unique index.
* `Chat`. `BumpCounters` writes back the counters the handler read; `MarkRoomAsRead` and
  `ResetCounter` are two writes.
* `UserRecords`. Every "find, then insert" (default address, registration, document)
  is two actions, since nothing but primary keys is unique.
* `Menus`. The tree is one query for the categories and one for the items of each;
  `touched` records what merchants changed meanwhile.
* `Tracking`. RPUSH and EXPIRE are commands of their own; `unset` counts appends that
  failed in between.
* `Notifications`. The queue is Bull's: retried when the processor throws, given to
  another worker a bounded number of times when the worker is gone. `delivering` is
  the detached push, whose answer prunes tokens.
* `Login`, `Otp`. Counters read before an await and saved after it; `tries` counts what
  was really answered. `RefreshTokens` keeps rows and the second each was issued in: two
  tokens of one second are one string with two rows (`RowsOf`). A refresh revokes the row
  it found, a logout all of them.
* `Requests`. The rate limit's script is atomic, the idempotency cache is read before and
  written after the handler. A lapse is a command Redis does not answer, an answer it
  forgot, or a crash. `admitted` counts by age what the counter let through.
* `Gateway`. Unlike the shared breaker it counts an answer in the state the breaker has
  when it comes, and any number of calls probe. Answers of 400 and above are errors to it
  (`forward()` throws them), those a client is to blame for included, so `healthy` means
  that none comes any more.
* `Shutdown`. `elapsed` counts to `GraceMs`; a hook may never return. A signal that comes
  after `app.close()` has begun is ignored by the code.
* `Fare`. Exact integer arithmetic on metres, in fractions of a dong fine enough for each
  factor; `Round` is `Math.round`. The distance itself (haversine) is an input.
* `Dashboard`. The services are asked at once and answer one after the other; one that
  fails counts as having nothing. `FirstRows` may return any rows of the page.
* `AdminConsole`. `store` is localStorage, `valid` and `live` the auth service's view of
  the tokens. The auth service answers `{user, tokens}` to a refresh while the console
  reads `access_token` of the body, so what it stores is `Undefined`. `page` tells the login
  page from the guarded ones, `Load` is an address typed or a reload.
* `AdminPages`. `screen` is what the last answer brought; `told` what the administrator was
  told of each entry; `overlapped` says that two loads of the page were under way at once.

## 4. The runs

| Run | Question | Bounds |
|---|---|---|
| `wallet_funded` | Is every method atomic, with the ledger, when three requests of any kind overlap on two existing wallets? | 2 users, 3 requests, amount 2, opening 2: one withdrawal empties a wallet, so every guard is met on both sides |
| `wallet_creation` | Does this survive the creation of a wallet by three racing requests, and is everyone answered? | 2 users, one without a wallet |
| `wallet_create_race` | (violation) Is the total conserved while wallets are created? | 3 users, 2 transfers |
| `rides_overlap` | Any requests, overlapping, with failures: do the columns of a ride agree and SOS survive? | 1 ride, 2 drivers, 2 slots |
| `rides_apart` | Where requests about one ride do not overlap and those about two rides do, drivers doing as they please: do the handlers implement dispatch, is nobody left busy without a ride? | 2 rides, 2 drivers, 2 slots |
| `rides_pings` | (violation) Is a driver on a ride never a candidate? | 2 rides, 1 driver, 1 slot |
| `orders` | Do the counters match the orders, which carts deadlock, is everyone answered? Is a stage of an order ever skipped, or paid without delivery? | placement: 2 requests, all carts of at most 2 lines over 2 items, quantities 1 and 2; life: 1 order, 1 courier, 3 slots |
| `orders_late_cancel` | (violation) Is pickup the last cancellation point? | 1 order, 2 slots |
| `breaker_probes` | Is there one probe at a time, is the flag ever orphaned? | 3 callers, threshold 2 of 50 %, window 2, cooldown 3 |
| `breaker_slow_fallback` | (violation) One probe at a time, with a fallback as long as the cooldown? | 3 callers |
| `services` | How far can overlap, failure and retry carry each service past what it limits, and no further? | 2 slots, 2 users, tables of 1 to 3 rows, limits of 2 or 3, at most 2 lapses; one part per module |
| `answers` | Are promo requests answered, does a stale session end, do both breakers close, does a process exit? | 2 slots, pool of 2, 3 token pairs, thresholds 2, fallbacks longer than the cooldown, 3 hooks, grace of 2 ticks |

`orders`, `services` and `answers` put components that share no state side by side:
`part` is chosen once and says which of them the behaviour is about, so their state
spaces add up and each property is checked on all states of its component.

Why these bounds are enough. Two users give every pair a transfer can have, three
requests one more than a race needs (one to hold, one to wait, one to intervene).
In `rides_overlap` one ride is enough: the rows of two rides are not read together by
any handler, and the driver statuses, which are, take every value anyway because
clients are free. In `rides_apart` two rides, two drivers and two slots give one driver two
requests at once, and each ride a second driver. Three updates of one order are the fewest with two
stale ones. Two carts of two lines are the smallest that deadlock. The breaker's
times only matter by their order, and both orders of call time and cooldown are run.
In `services` two slots give every read-then-write its race, limits of 2 and 3 are met
on both sides, three rows are more than two overlapping inserts can duplicate, and 333
and 12345 metres are below and above the least fare. In `answers` the pool is as large
as the transactions that can be open, the smallest that can be exhausted.
Symmetry is used only in runs without liveness.

### What the violations say

Four runs find a statement of the repository broken by what the code does.

* `wallet_create_race`: `save()` of a wallet that was absent when it was looked up and
  exists by now resets its balance to zero.
* `rides_pings`: `POST /drivers/location` passes ONLINE for a driver who is on a ride,
  and the next request is matched to that driver.
* `orders_late_cancel`: a cancellation checked against READY is written after PICKED_UP.
* `breaker_slow_fallback`: `finally` lowers a flag that another call has raised.

Reading the ride service against `docs/RIDE_MATCHING.md` shows more of the kind, which
have no run.

* A driver can have two rides without any location update: a driver on a ride is shown the
  next request and may accept it, and two matching tasks can choose one driver.
* A driver who goes offline, or online, during a ride has that status and still the ride.
* Of requests about one ride that overlap: the second of two accepts wins; a ride cancelled
  or accepted while its matching task runs is still assigned; an accept that overlaps a
  cancellation leaves its driver BUSY; a failure between the two databases does too.
* A late rejection reopens a ride that is over; cancelling a ride twice makes its driver
  ONLINE although they may be on another one by then.
* A re-match excludes only the last driver who rejected; a request nobody takes stays
  REQUESTED, there is no `NO_DRIVER` cancellation; "Cancellations after `IN_PROGRESS`" are
  not blocked.
* Surge (`docs/RIDE_MATCHING.md:106-113`) is said to be
  `clamp(1.0, 3.0, 1.0 + 0.5 * (demandRatio - 1))`, recalculated by a cron every minute and
  "never per-request", so that "riders see the price they agreed to". `calculateSurge()` has
  the steps 1.0, 1.2, 1.5 and 2.0, never more, and 2.0 when no driver is online; `create()`
  calls it for each request; and the fare endpoint quotes a surge of 1.0, so a rider sees
  one price and is charged up to twice as much. No property compares the two prices.

Likewise an order the restaurant ignores stays PLACED, and the cancellation policy by role
is not enforced. `rides_apart` says how far the ride handlers can be relied on otherwise:
not for one ride per driver, but for each request to be one step, with nobody busy on
account of a ride that is over, as long as one request about a ride comes after another.

Seen while modelling the rest, and stated here because a bound that holds is checked
instead: uses of a promo code, exchanges of a refresh token, failed logins, unread
counters and rating aggregates all lose updates when requests overlap, which is what the
"within overlap" properties measure; a pool of n connections serves n overlapping
`apply()` calls not at all. The dashboard's "Completed and active ride demand across the
last 24 hours" (`apps/web-admin/src/pages/Dashboard.tsx:246`) is computed from at most 100
rides that are in progress; a service that fails counts as one with nothing. A
refresh token whose second issued several is good for as many exchanges, one after the other
(`auth.service.ts:216-217`, `279-302`). `B/shared/src/resilience/README.md:8` calls the rate
limit sliding-window; the guard's own comment and code have a fixed window.

### Fairness

`Wallet`, `OrderPlacement`: weak fairness of each request's next statement, since the
event loop sends it and PostgreSQL answers, grants locks and breaks deadlocks; none of
failures. `Rides`: weak fairness of each chain's next step; none of clients. Breaker:
time passes, a call ends (its timer), and callers keep calling, without which nothing
would probe the service. `Recovers` also supposes an outage that ends for good.
The parts of `answers`: `PromoFairness` is strong fairness of each handler's next
statement, since pool and locks serve their queues in turn, so one that can go again and
again goes; without strong fairness two handlers could keep a third from a connection.
`ConsoleFairness`: a request under way ends. The console's axios has no timeout, but the
gateway answers each request within 10 s (`proxy.service.ts:68`, and its breaker's timer)
and the browser reports a connection that is lost. That requests are made is a premise of
`StaleSessionEnds`, not an assumption: the dashboard and the payments page poll every 30 s
while their tab is shown, the other pages load once. `GatewayFairness`: time passes, clients keep asking,
calls end by an answer or their timeout. `ShutdownFairness`: time passes and the event
loop runs; no hook needs to end. None of failures, crashes or administrators.
Deadlock is checked except in `services` and `answers`, where bounded tables and counters
let a part come to rest (a shut-down process, all tokens issued); `Wallet` has `Finished`
for the state where all are answered.

## 5. The proofs

All theorems hold for every value of the constants that satisfies the named assumptions:
those of `Wallet`, `Rides`, `Orders`, `OrderPlacement`, `CircuitBreaker`, `Service` and of
each module built on `Service`. TLC evaluates them in the runs. Most give constants their
types and keep model values apart; those that say more are that users, order requests,
handlers, rooms, references, addresses and keys are finitely many (without which a sum or a
number of rows means nothing), that limits are at least 1, and that every line of a cart is
of an item. What a single theorem supposes beyond that is in its statement, and said below.
The type invariants of `Wallet`, `Rides`, `Orders` and `CircuitBreaker`, and `LocksHeld`,
are proved and not model-checked.

**The lemmas beneath.** A sum over a finite set is a fold, that is a function defined by
recursion on sets; `SumTheorems` proves that this function exists and is the only one
(`FoldExists`, `FoldUnique`), and from it what sums do when one element is added, changed or
moved, when a set is parted, and when a sum is compared with another or with the number of
its elements. The induction theorems of the library take an operator, which no prover here
can instantiate; induction is done instead on the least size at which a claim fails
(`LeastNatural`), for a set that comprehension defines. `most` of `Attempts`, also
recursive, is shown to exist in the same way, in stages (`MostUnfolds`).

* **Wallet.** `WalletTypeCorrect`; then an invariant in three layers. `LockInv` says of
  each request which wallets it has fetched and that it owns their rows: from it
  `WalletLocksHeld` and `WalletLocksInOrder`. `EntityInv` says that an entity a request
  holds under its lock equals the committed row (but for frozen, which nobody else can
  change while it is locked), and after `Save` differs from it by exactly the amount to
  be written in the ledger: this is what makes `LedgerMatchesBalance` inductive, and gives
  `WalletLedgerMatchesBalance` and `WalletFrozenOnlyCredited`. `Solvent` carries
  `WalletNoOverdraft`. `SavedInv` adds that what is about to be committed has the right
  pending amount and that the money taken is still there; where every user has a wallet
  (`Existing = Users`) each COMMIT, and the UPDATE of a flag, is then a step of `Bank` and
  every other step none: `WalletImplementsBank`. `wallet_create_race` shows what the
  assumption is for. On it rests `WalletTotalConserved` too: what the rows keep and what the
  ledger owes each change, at a COMMIT, by the sum over the request's wallets of one amount.
* **Rides.** `Inv` adds to the types that a slot about to set a driver's status holds a
  driver and that its step fits its call; `RidesTypeCorrect` and `RidesSosNeverLost`
  need no more. `RidesStatusFitsDriver` assumes `NoRewind`: no client sends REQUESTED or
  MATCHED in a PATCH, as the apps never do; `updateStatus()` would accept it.
* **Orders.** The invariant ties the status to the timestamps below it and, for each
  update under way, says that the stages before its target were stamped: stale or not,
  an update can be written only over an order that has these stamps, since stamps are
  never cleared. From it `OrdersMilestonesComplete`; `OrdersPaidIffDelivered` is
  separate.
* **OrderPlacement.** `PlacementCountersMatchOrders`: a transaction adds to the counters,
  when it commits, what its increments have gathered, and has gathered by then the
  quantities of each of its lines once (`PlacementTyped` carries the types). For
  `PlacementOnlyUnsortedCartsDeadlock`: a request whose cart is sorted waits for an item after
  all those it holds, and for the restaurant last of all; of requests that all wait for one
  another, the one that holds what is waited for last would have to wait for a later row.
* **CircuitBreaker.** `BreakerNeverStuck` supposes nothing more. `BreakerSingleProbe`
  assumes `Prompt`: a call and its fallback together take less than the cooldown. Its
  invariant says that every call begun before the breaker opened ends before the
  cooldown does (`GoneInTime`), so that in the half-open state only the probe is left
  (`OnlyTheProbe`). `breaker_slow_fallback` shows that `Prompt` is needed.
* **Rides, one request about a ride at a time.** `ServedApart` assumes `Apart`, no failures,
  and that a PATCH reports PICKUP, IN_PROGRESS or COMPLETED and appoints no driver; drivers
  accept, ping and come and go as they please, in any number of slots. The inductive
  invariant is that at most one chain is about a ride (`Alone`), that the entity it read is
  still what the table has until it writes (`AllFit`), and that a BUSY driver carries a ride
  or is about to be set (`ApartBusyOnlyWhenRiding`). What a handler checked on its entity is
  then so when it writes, each step maps to one of `Dispatch` or to none
  (`ApartImplementsDispatch`), and a ride that has a driver is given to another only after a
  rejection (`ApartDriverNeverReplaced`).
* **RefreshTokens.** A handler that holds a row can exchange it once more, and nobody comes
  to hold a revoked one: exchanges and holders together are at most the slots
  (`SpendersOverlap`). Summed over the rows one token names, that is
  `TokensExchangedWithinRows`.
* **Requests.** Every run is accounted for (`RunsAccountedFor`): while no answer is cached
  it is by one still to be stored or by a lapse, which counts for each slot; once one is
  cached, only the handlers under way can still run. From it `RequestsRunsBounded`. For
  `RequestsAtMostTwiceLimit` (`WindowInv`): what was let through since the counter's window
  began is at most the counter and at most the limit; what was let through before, and is
  still young enough to count, was within one earlier window.
* **Login, Otp.** A handler writes back the count it read plus one, so wrong answers that
  overlap are lost and may be given again. `Potential` says how many may have been given when
  the row and the handlers are as they are: for each number of attempts left it counts the
  handlers that can no longer write back more (`HeldBack`), and adds up what these account
  for (`most`, sums along Pascal's triangle: `AnswersFacts`). A step that answers nothing
  does not lower it (`PotentialKept`), an answer that writes one attempt less than its
  handler read raises it by one at least (`PotentialOneMore`); so `tries` stays within it,
  and it within `most` of all slots and the limit (`PotentialLimited`).
  `save()` of a one-time code writes the count only where it differs from the
  second read; handlers that skip it (`Skips`) are counted as answers still to come. This
  gives `LoginLockoutHolds` and `OtpTriesBounded`.
* **Promo.** A handler that found the code below a limit may add one more use; uses and
  such handlers together exceed the limit by at most the slots but one
  (`PromoUsesWithinOverlap`).
* **Ratings.** At most one handler of a reference is between its INSERT and COMMIT, by the
  unique index. What a handler is about to write is at least 1 and at most one more than the
  ratings committed, its own not being among them: `RatingsAggregateWithin`.
* **Chat.** The rooms of a pair, and the handlers that found none and will insert one, are at
  most the slots (`ChatRoomsOverlap`). A counter is at most the messages of others: every
  message is stored before its handler reads the counters, so what is written back is at
  most one above a count that did not yet include it (`ChatUnreadWithinMessages`).
* **UserRecords.** For each of the three tables: rows, and handlers that found none (or cleared
  the default) and will write one, are at most the slots (`UserRowsOverlap`).
* **Menus.** A menu under way shows an item that nobody touched since it began exactly
  once if the query of its category is among those already answered, and not at all before
  (`MenusUntouchedItemsShownOnce`).
* **Tracking.** A path without expiry has an append that failed or is under way
  (`TrackingPathExpires`, inductive with the types).
* **Notifications.** One worker at a time has a job. Copies stored, one still to be stored
  and the runs the queue may yet make of a job are together no more than the retries and
  stalls allow: `NotificationsCopiesBounded`.
* **AdminPages.** What the administrator was told of an entry is true at the server, one
  decision is under way at a time, and rows shown or about to be shown agree with what was
  told, unless two loads of the page overlapped
  (`PagesShownAsAnswered`).
* **Fare, Dashboard.** `FareSumsClose` and `DashboardSumsClose` are exact integer arithmetic: the
  bound of `Round` on each part, summed; for the dashboard over any number of types and hours.
* **Side by side.** In a behaviour of `MCServices` only the part it is about changes
  (`ServicesInv`), so what is proved of each module holds of the composition the run
  `services` checks: `ServicesTypeCorrect`, `ServicesDuplicatesOverlap`,
  `ServicesGuessesLimited`, `ServicesSumsClose`.

Only model-checked: what must eventually happen, that is `EveryRequestAnswered`,
`EveryOrderAnswered`, `DriverFreed` and the properties of the run `answers`. They rest on
fairness, whose ENABLED is out of the prover's reach.

## 6. Not modelled

The devices of the auth service, its sessions (only their deletion has a caller, and none
is ever created) and the matching queue of the ride service, which nothing calls; sockets of the gateway (they relay events and keep nothing);
transaction history, observability and other output; layout, forms and wording of the user
interfaces, and the mobile app; common packages
and infrastructure. Of modelled parts: positions and haversine distances, fractions of
money in the wallet, the ledger rows of opening balances, texts, names and images, the
edit of a chat message, several breakers of one registry (they share nothing).
