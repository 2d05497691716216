-------------------------- MODULE DeliveryContract --------------------------
(***************************************************************************)
(* One delivery bundle as its order sees it: what the sender of its        *)
(* message, the buyer's link, the expiry sweep and the owner may do to the *)
(* order, to the unit and to the bundle, and in which progress of the      *)
(* message.  DeliveryHandoff implements it with the rows, leases, marks    *)
(* and deaths of one message; Fulfilment, where an order may come to have  *)
(* several bundles, implements it for each of them.                        *)
(***************************************************************************)
CONSTANT Alone  \* no other bundle of the order is ever issued

None == "none"

VARIABLES
  order,    \* "order".status, None before the bundle is issued
  unit,     \* digital_asset.status of the bundle's unit
  bundle,   \* delivery_bundle.status
  ttlOver,  \* delivery_bundle.expires_at has passed
  note      \* the message: None, "QUEUED", "ATTEMPTED", then "PARKED" for the
            \* owner or "OVER"

contractVars == <<order, unit, bundle, ttlOver, note>>

Fulfilled == {"PAID", "PROCESSING", "COMPLETED", "FULFILLMENT_NEEDS_REVIEW"}

Absent == order = None /\ unit = None /\ bundle = None
Issued == order \in Fulfilled /\ unit = "READY" /\ bundle = "AVAILABLE"

ContractInit ==
  /\ Absent \/ (Issued /\ order = "PROCESSING")
  /\ ttlOver = FALSE /\ note = None

Live == bundle \in {"AVAILABLE", "VIEWED"} /\ ~ttlOver

Issue ==
  /\ Absent /\ Issued'
  /\ UNCHANGED <<ttlOver, note>>

Start ==
  /\ order = "PAID" /\ order' = "PROCESSING"
  /\ UNCHANGED <<unit, bundle, ttlOver, note>>

\* A message is queued and a credential revealed only while the bundle is live.
Queue ==
  /\ Live /\ note = None /\ note' = "QUEUED"
  /\ UNCHANGED <<order, unit, bundle, ttlOver>>

Reveal ==
  /\ Live /\ note # None /\ bundle' = "VIEWED"
  /\ UNCHANGED <<order, unit, ttlOver, note>>

\* A message is attempted once, and with a credential that was revealed.
Attempt ==
  /\ bundle # "AVAILABLE" /\ note = "QUEUED" /\ note' = "ATTEMPTED"
  /\ UNCHANGED <<order, unit, bundle, ttlOver>>

\* A delivery closes the bundle and the unit with the order.
Close ==
  /\ unit = "READY" /\ unit' = "DELIVERED"
  /\ bundle # "CONSUMED" /\ bundle' = "CONSUMED"
  /\ UNCHANGED ttlOver

\* By proof of the one attempt, while the order is waiting for it.
Finalize ==
  /\ order = "PROCESSING" /\ order' = "COMPLETED"
  /\ note = "ATTEMPTED" /\ note' = "OVER"
  /\ Close

\* By the owner, of an order under review whose bundle can no longer be opened.
Reconcile ==
  /\ order = "FULFILLMENT_NEEDS_REVIEW" /\ order' = "COMPLETED"
  /\ bundle = "EXPIRED" /\ note = "OVER"
  /\ Close /\ UNCHANGED note

\* By the buyer, who opens the link.
Open ==
  /\ bundle = "VIEWED" \/ Live
  /\ order' = IF order = "PROCESSING" THEN "COMPLETED" ELSE order
  /\ Close /\ note # None /\ UNCHANGED note

\* An attempt whose outcome is unknown leaves its order to the owner.
Park ==
  /\ order \in {"PROCESSING", "FULFILLMENT_NEEDS_REVIEW"}
  /\ order' = "FULFILLMENT_NEEDS_REVIEW"
  /\ note = "ATTEMPTED" /\ note' \in {"PARKED", "OVER"}
  /\ UNCHANGED <<unit, bundle, ttlOver>>

\* A bundle the buyer has opened needs no message.
Forget ==
  /\ bundle = "CONSUMED" /\ note = "QUEUED" /\ note' = "OVER"
  /\ UNCHANGED <<order, unit, bundle, ttlOver>>

Lapse ==
  /\ Live /\ ttlOver' = TRUE
  /\ UNCHANGED <<order, unit, bundle, note>>

Expire ==
  /\ bundle \in {"AVAILABLE", "VIEWED"} /\ ttlOver /\ bundle' = "EXPIRED"
  /\ UNCHANGED <<order, unit, ttlOver, note>>

\* Another bundle of the order is parked, or delivered: that one is then the only
\* one open, and may be about the same unit.
Elsewhere ==
  /\ ~Alone /\ bundle # None
  /\ \/ /\ order \in {"PROCESSING", "FULFILLMENT_NEEDS_REVIEW"}
        /\ order' = "FULFILLMENT_NEEDS_REVIEW" /\ UNCHANGED unit
     \/ /\ bundle \in {"CONSUMED", "EXPIRED"}
        /\ \/ order \in {"PROCESSING", "FULFILLMENT_NEEDS_REVIEW"} /\ order' = "COMPLETED"
           \/ UNCHANGED order
        /\ unit' \in {unit, "DELIVERED"}
  /\ UNCHANGED <<bundle, ttlOver, note>>

ContractNext ==
  \/ Issue \/ Start \/ Queue \/ Reveal \/ Attempt \/ Finalize \/ Reconcile \/ Open
  \/ Park \/ Forget \/ Lapse \/ Expire \/ Elsewhere

ContractSpec == ContractInit /\ [][ContractNext]_contractVars
=============================================================================
