------------------------------ MODULE MCOrders ------------------------------
(***************************************************************************)
(* Food orders for TLC: their placement and their life, side by side.  The *)
(* two share no column (a committed order is all a placement leaves to its *)
(* life), so a behaviour is about one of them: `part` never changes.       *)
(***************************************************************************)
EXTENDS Orders, OrderPlacement

CONSTANTS MaxLines, Quantities

VARIABLE part

\* Carts of at most MaxLines lines; a single unit is below the minimum value.
MCCarts == UNION {[1..n -> [item : Items, quantity : Quantities]] : n \in 0..MaxLines}
MCTooSmall == {c \in MCCarts : Len(c) = 1 /\ c[1].quantity = 1}

\* Every request has been refused.
PlacementAtRest ==
  /\ open = FALSE /\ available = {} /\ placed = {}
  /\ counter = [r \in Rows |-> 0]
  /\ owner = [r \in Rows |-> NoOne]
  /\ cart = [p \in Requests |-> << >>]
  /\ pc = [p \in Requests |-> "refused"]
  /\ line = [p \in Requests |-> 1]
  /\ mem = [p \in Requests |-> [r \in Rows |-> 0]]

MCInit ==
  \/ part = "placement" /\ PlacementInit /\ Init
  \/ part = "life" /\ PlacementAtRest /\ Init

MCNext ==
  \/ part = "placement" /\ PlacementNext /\ UNCHANGED <<part, vars>>
  \/ part = "life" /\ Next /\ UNCHANGED <<part, placementVars>>

MCSpec == MCInit /\ [][MCNext]_<<part, vars, placementVars>> /\ PlacementFairness

\* The tables and what the handlers of both parts hold have their types.
OrdersTypeOK == TypeOK /\ PlacementTypeOK
=============================================================================
