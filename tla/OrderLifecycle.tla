--------------------------- MODULE OrderLifecycle ---------------------------
(***************************************************************************)
(* What every writer of "order".status promises: an order is inserted      *)
(* unpaid and then moves along the table of legal transitions only.        *)
(* transitionOrder throws on any other move, which would roll back the     *)
(* caller's whole transaction, with the money or the unit it was about.    *)
(***************************************************************************)
CONSTANT Orders

VARIABLE status  \* "order".status, "ABSENT" before the insert

\* ALLOWED, without DRAFT and REJECTED: no writer leaves an order in the one or
\* moves one to the other.
Allowed ==
  [PENDING_PAYMENT |-> {"PAID", "CANCELLED", "EXPIRED", "PAYMENT_NEEDS_REVIEW"},
   PAID |-> {"PROCESSING", "FULFILLMENT_NEEDS_REVIEW", "REFUND_PENDING"},
   PROCESSING |-> {"COMPLETED", "FULFILLMENT_NEEDS_REVIEW", "REFUND_PENDING"},
   COMPLETED |-> {"REFUND_PENDING"},
   CANCELLED |-> {},
   EXPIRED |-> {"PAYMENT_NEEDS_REVIEW"},
   PAYMENT_NEEDS_REVIEW |-> {},
   FULFILLMENT_NEEDS_REVIEW |-> {"COMPLETED"},
   REFUND_PENDING |-> {"REFUNDED"},
   REFUNDED |-> {}]

LifecycleInit == status \in [Orders -> {"ABSENT", "PAID"}]

Insert(o) ==
  /\ status[o] = "ABSENT"
  /\ status' = [status EXCEPT ![o] = "PENDING_PAYMENT"]

TransitionOrder(o) ==
  /\ status[o] # "ABSENT"
  /\ \E to \in Allowed[status[o]] : status' = [status EXCEPT ![o] = to]

LifecycleNext == \E o \in Orders : Insert(o) \/ TransitionOrder(o)

LifecycleSpec == LifecycleInit /\ [][LifecycleNext]_status
=============================================================================
