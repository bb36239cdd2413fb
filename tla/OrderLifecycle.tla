--------------------------- MODULE OrderLifecycle ---------------------------
(***************************************************************************)
(* What the order book promises, whatever HTTP requests race on it:        *)
(* one order at most per idempotency key, committed together with the key; *)
(* an order moves CONFIRMED -> CANCELLED -> DELETED and never back; a      *)
(* seeded demo order never changes.                                        *)
(*                                                                         *)
(* The state machine is the one of app/domain/order/order.py: the status   *)
(* enumeration, is_cancellable, cancel, is_deletable and delete.           *)
(***************************************************************************)
CONSTANTS
  OrderIds,   \* ids a runtime order can get
  SeedIds,    \* ids of the fixed demo orders
  Keys,       \* hashes of the Idempotency-Key header
  None        \* no order

VARIABLES
  state,      \* state[o]: life-cycle state of order o
  owner       \* owner[k]: the order that key k created, or None

book == <<state, owner>>

AllIds == OrderIds \union SeedIds

LifeStates == {"ABSENT", "CONFIRMED", "CANCELLED", "DELETED"}

\* The demo orders are there from the start, confirmed or cancelled.
BookInit ==
  /\ state \in [AllIds -> {"ABSENT", "CONFIRMED", "CANCELLED"}]
  /\ \A o \in AllIds : state[o] = "ABSENT" <=> o \in OrderIds
  /\ owner = [k \in Keys |-> None]

\* A fresh order and the key it was created under appear in one step.
Place(k, o) ==
  /\ owner[k] = None
  /\ state[o] = "ABSENT"
  /\ state' = [state EXCEPT ![o] = "CONFIRMED"]
  /\ owner' = [owner EXCEPT ![k] = o]

Cancel(o) ==
  /\ state[o] = "CONFIRMED"
  /\ state' = [state EXCEPT ![o] = "CANCELLED"]
  /\ UNCHANGED owner

Delete(o) ==
  /\ state[o] \in {"CONFIRMED", "CANCELLED"}
  /\ state' = [state EXCEPT ![o] = "DELETED"]
  /\ UNCHANGED owner

BookNext ==
  \E o \in OrderIds :
    \/ \E k \in Keys : Place(k, o)
    \/ Cancel(o)
    \/ Delete(o)

BookSpec == BookInit /\ [][BookNext]_book
=============================================================================
