------------------------------ MODULE Shutdown ------------------------------
(***************************************************************************)
(* GracefulShutdownService of the shared package (src/resilience): on      *)
(* SIGTERM, SIGINT or app.close() the registered hooks run one after the   *)
(* other, in their order, against a deadline.  A hook may throw, and may   *)
(* never return.                                                           *)
(***************************************************************************)
EXTENDS Integers, SequencesExt

CONSTANTS
  Hooks,     \* the hooks that may be registered
  OrderOf,   \* NamedShutdownHook.order of each
  GraceMs    \* graceMs, in ticks of the clock

ASSUME ShutdownAssumption == OrderOf \in [Hooks -> Nat] /\ GraceMs \in Nat \ {0}

VARIABLES
  hooks,     \* the array of registered hooks
  ordered,   \* runShutdown(): the hooks still to be run; the first is running
  mode,      \* what called runShutdown(): a signal, or onModuleDestroy()
  elapsed,   \* the ticks since; the timer fires at GraceMs
  exited     \* process.exit(0)

shutdownVars == <<hooks, ordered, mode, elapsed, exited>>

ShutdownInit ==
  /\ hooks = << >> /\ ordered = << >>
  /\ mode = "none"
  /\ elapsed = 0
  /\ exited = FALSE

-----------------------------------------------------------------------------
\* register(): a hook added while the others run is not run.
RegisterHook(h) ==
  /\ ~exited
  /\ h \notin ToSet(hooks)
  /\ hooks' = Append(hooks, h)
  /\ UNCHANGED <<ordered, mode, elapsed, exited>>

\* onSignal() and onModuleDestroy(), unless shuttingDown; the sort is stable.
RunShutdown(m) ==
  /\ mode = "none" /\ ~exited
  /\ mode' = m
  /\ ordered' = SortSeq(hooks, LAMBDA a, b : OrderOf[a] < OrderOf[b])
  /\ elapsed' = 0
  /\ UNCHANGED <<hooks, exited>>

\* The running hook returns or throws: the next one is called.
HookEnds ==
  /\ mode # "none" /\ ~exited
  /\ ordered # << >>
  /\ ordered' = Tail(ordered)
  /\ UNCHANGED <<hooks, mode, elapsed, exited>>

\* Mutant: the process waits for the hooks alone.
ExitDrained ==
  /\ mode = "signal" /\ ~exited
  /\ ordered = << >>
  /\ exited' = TRUE
  /\ UNCHANGED <<hooks, ordered, mode, elapsed>>

\* The race of the drain and the deadline is decided: after a signal the
\* process exits; after onModuleDestroy() the rest is up to Nest.
Exit ==
  /\ mode = "signal" /\ ~exited
  /\ ordered = << >> \/ elapsed >= GraceMs
  /\ exited' = TRUE
  /\ UNCHANGED <<hooks, ordered, mode, elapsed>>

ShutdownTick ==
  /\ mode # "none" /\ ~exited /\ elapsed < GraceMs
  /\ elapsed' = elapsed + 1
  /\ UNCHANGED <<hooks, ordered, mode, exited>>

ShutdownNext ==
  \/ HookEnds \/ Exit \/ ShutdownTick
  \/ \E h \in Hooks : RegisterHook(h)
  \/ \E m \in {"signal", "destroy"} : RunShutdown(m)

ShutdownSpec == ShutdownInit /\ [][ShutdownNext]_shutdownVars

\* Time passes and the event loop runs; a hook need not end.
ShutdownFairness == WF_shutdownVars(ShutdownTick) /\ WF_shutdownVars(Exit)

-----------------------------------------------------------------------------
(* Properties.                                                             *)

\* The service's fields have their types, and what is left to run is in order.
ShutdownTypeOK ==
  /\ ToSet(hooks) \subseteq Hooks /\ ToSet(ordered) \subseteq ToSet(hooks)
  /\ mode \in {"none", "signal", "destroy"}
  /\ elapsed \in 0..GraceMs /\ exited \in BOOLEAN
  /\ \A i, j \in DOMAIN ordered : i < j => OrderOf[ordered[i]] <= OrderOf[ordered[j]]

\* A process that was told to stop exits, even if one of its hooks never ends.
SignalExits == mode = "signal" ~> exited
=============================================================================
