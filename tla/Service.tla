------------------------------ MODULE Service ------------------------------
(***************************************************************************)
(* What the models of the services have in common.  Node runs one handler  *)
(* at a time, but every `await` lets another one in: a handler is a chain  *)
(* of steps, each from one answer of a database to the next.  A slot holds *)
(* one such chain; slots are reused, so their number bounds what overlaps  *)
(* and not how many requests are served.                                   *)
(*                                                                         *)
(* `job` is what a handler holds in memory between two awaits.  A request  *)
(* that is refused changes nothing and has no step of its own.             *)
(***************************************************************************)
EXTENDS Integers, FiniteSets

CONSTANTS
  Users,  \* the users of the platform
  Slots   \* the handlers that can be under way at once

ASSUME ServiceAssumption == IsFiniteSet(Slots) /\ Slots # {}

VARIABLE job  \* the handler of each slot: the step it takes next and its locals

Idle == [step |-> "idle"]

AllIdle == job = [s \in Slots |-> Idle]

IsIdle(s) == job[s].step = "idle"

At(s, st) == job[s].step = st

Goto(s, j) == job' = [job EXCEPT ![s] = j]

\* The handler returns, throws, or is lost with its process.
Return(s) == Goto(s, Idle)
=============================================================================
