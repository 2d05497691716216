------------------------------ MODULE Preorder ------------------------------
(*************************************************************************)
(* Preorders of one variant: deposit, queue, allocation of a unit, balance, *)
(* forfeiture and the shop's cancel (modules/commerce/preorder.ts and       *)
(* shop-cancel.ts), with the payment of their legs                         *)
(* (modules/payments/service.ts), the sweep of lapsed reservations and the  *)
(* other buyers of the same stock.                                         *)
(*                                                                       *)
(* Every action is one transaction: it locks its reservation first, and the  *)
(* allocation is behind an advisory lock on the variant.                    *)
(*************************************************************************)
EXTENDS Integers, Sequences, FiniteSets, Functions

CONSTANTS Preorders,
          Units,           \* digital assets, by created_at
          DepositOf,       \* preorder -> deposit_amount_vnd
          BalanceOf,       \* preorder -> balance_amount_vnd, 0 if none is due
          QueueLimit,      \* max_preorder_queue
          NoPreorder, NoUnit, Shopper

ASSUME PreorderAssumption ==
  /\ IsFiniteSet(Preorders) /\ IsFiniteSet(Units)
  /\ Units \subseteq Nat
  /\ NoUnit \notin Units
  /\ NoPreorder \notin Preorders
  /\ Shopper \notin Preorders \cup {NoPreorder}
  /\ DepositOf \in [Preorders -> Nat \ {0}]
  /\ BalanceOf \in [Preorders -> Nat]

VARIABLES preorder,    \* preorder -> its reservation
          depositors,  \* preorders in the order of deposit_paid_at
          unit,        \* unit -> its digital_asset
          leg,         \* preorder, leg -> its latest payment intent
          obligation,  \* preorder -> amount of its shop_refund_obligation
          pOrder       \* preorder -> the order it became

preorderVars == <<preorder, depositors, unit, leg, obligation, pOrder>>

Legs == {"DEPOSIT", "BALANCE"}
Holding == {"ALLOCATED", "BALANCE_DUE"}
Cancellable == {"WAITING_DEPOSIT", "DEPOSIT_PAID", "ALLOCATED", "FULLY_PAID"}
NoReservation == [status |-> "none", unit |-> NoUnit, lapsed |-> FALSE]
Unstocked == [status |-> "absent", owner |-> NoPreorder, lapsed |-> FALSE]

PreorderTypeOK ==
  /\ preorder \in [Preorders ->
       [status : Cancellable \cup {"none", "SHOP_CANCELLED", "REFUND_DUE", "DEPOSIT_FORFEITED"},
        unit : Units \cup {NoUnit}, lapsed : BOOLEAN]]
  /\ depositors \in Seq(Preorders) /\ IsInjective(depositors)
  /\ unit \in [Units -> [status : {"absent", "AVAILABLE", "RESERVED", "DELIVERED"},
                         owner : Preorders \cup {NoPreorder, Shopper}, lapsed : BOOLEAN]]
  /\ leg \in [Preorders -> [Legs -> {"none", "PRESENTED", "SUCCEEDED", "NEEDS_REVIEW", "EXPIRED"}]]
  /\ obligation \in [Preorders -> Nat]
  /\ pOrder \in [Preorders -> {"none", "PAID", "PROCESSING", "FULFILLMENT_NEEDS_REVIEW"}]

PreorderInit ==
  /\ preorder = [p \in Preorders |-> NoReservation]
  /\ depositors = <<>>
  /\ unit = [u \in Units |-> Unstocked]
  /\ leg = [p \in Preorders |-> [l \in Legs |-> "none"]]
  /\ obligation = [p \in Preorders |-> 0]
  /\ pOrder = [p \in Preorders |-> "none"]

-----------------------------------------------------------------------------
\* What a transaction has written so far: the reservations, units and orders.
State(pre, stock, orders) == [preorder |-> pre, unit |-> stock, pOrder |-> orders]

\* The allocator's hold on a unit is not bound to any order yet.
Unbound(asset) == asset.status = "RESERVED" /\ asset.owner = NoPreorder

BoundTo(asset, p) ==
  IF Unbound(asset) THEN [asset EXCEPT !.owner = p, !.lapsed = FALSE] ELSE asset

(* finalizePreorderInTransaction: the order of the accepted price is PAID and *)
(* the held unit is handed to it, if it is still held.                       *)
Finalized(s, p) ==
  LET u == s.preorder[p].unit IN
  State([s.preorder EXCEPT ![p].status = "FULLY_PAID"],
        IF u \in Units THEN [s.unit EXCEPT ![u] = BoundTo(@, p)] ELSE s.unit,
        [s.pOrder EXCEPT ![p] = "PAID"])

\* The reservations a unit is due to, and the free units.
Waiting(s) == {p \in Preorders : s.preorder[p].status = "DEPOSIT_PAID"}
Free(s) == {u \in Units : s.unit[u].status = "AVAILABLE"}

\* Mutant of PaidBefore: the latest payer first.
PaidAfter(q, p) ==
  \E i, j \in DOMAIN depositors' : i < j /\ depositors'[i] = p /\ depositors'[j] = q

\* The queue: by deposit_paid_at.
PaidBefore(q, p) ==
  \E i, j \in DOMAIN depositors' : i < j /\ depositors'[i] = q /\ depositors'[j] = p

\* Those ahead of p in the queue, and the free units that are older than u.
Ahead(s, p) == {q \in Waiting(s) : PaidBefore(q, p)}
Older(s, u) == {v \in Free(s) : v < u}

\* The n-th of the queue gets the n-th free unit.
IsPair(s, p, u) ==
  p \in Waiting(s) /\ u \in Free(s) /\ Cardinality(Ahead(s, p)) = Cardinality(Older(s, u))

(* One pair: the unit is held for the reservation; a deposit that covers the  *)
(* price completes the purchase at once.                                    *)
IsCovered(p) == BalanceOf[p] = 0

Served(p, u) ==
  [status |-> IF IsCovered(p) THEN "FULLY_PAID" ELSE "ALLOCATED", unit |-> u, lapsed |-> FALSE]

Granted(asset, p) ==
  LET held == [asset EXCEPT !.status = "RESERVED", !.lapsed = FALSE]
  IN IF IsCovered(p) THEN BoundTo(held, p) ELSE held

(* allocateRestockToPreorders: paid reservations and free units, pairwise.    *)
Allocated(s) ==
  LET served == {p \in Preorders : \E u \in Units : IsPair(s, p, u)}
      given == {u \in Units : \E p \in Preorders : IsPair(s, p, u)}
      unitFor == [p \in served |-> CHOOSE u \in Units : IsPair(s, p, u)]
      buyerOf == [u \in given |-> CHOOSE p \in Preorders : IsPair(s, p, u)]
  IN State([p \in Preorders |-> IF p \in served THEN Served(p, unitFor[p]) ELSE s.preorder[p]],
           [u \in Units |-> IF u \in given THEN Granted(s.unit[u], buyerOf[u]) ELSE s.unit[u]],
           [p \in Preorders |-> IF p \in served /\ IsCovered(p) THEN "PAID" ELSE s.pOrder[p]])

Becomes(s) == preorder' = s.preorder /\ unit' = s.unit /\ pOrder' = s.pOrder
Now == State(preorder, unit, pOrder)

-----------------------------------------------------------------------------
(* createPreorderReservation: the queue of those who paid is not full.       *)
Reserve(p) ==
  /\ preorder[p].status = "none"
  /\ Cardinality({q \in Preorders : preorder[q].status \in {"DEPOSIT_PAID"} \cup Holding})
       < QueueLimit
  /\ preorder' = [preorder EXCEPT ![p].status = "WAITING_DEPOSIT"]
  /\ UNCHANGED <<depositors, unit, leg, obligation, pOrder>>

\* preorderPayableLeg.
Payable(p, l) ==
  \/ l = "DEPOSIT" /\ preorder[p].status = "WAITING_DEPOSIT"
  \/ l = "BALANCE" /\ preorder[p].status \in Holding

(* presentPreorderPayment: the live intent of the leg, or a new one.         *)
PresentLeg(p, l) ==
  /\ Payable(p, l)
  /\ leg[p][l] # "PRESENTED"
  /\ leg' = [leg EXCEPT ![p][l] = "PRESENTED"]
  /\ UNCHANGED <<preorder, depositors, unit, obligation, pOrder>>

\* Mutant of Settleable: the reservation is not read again.
SettleableIfPresented(p, l) == leg[p][l] = "PRESENTED"

\* settlePreorderLeg: the amount is exact and in time, the intent is live and
\* the locked reservation can still take it.
Settleable(p, l) == leg[p][l] = "PRESENTED" /\ Payable(p, l)

(* confirmPreorderDepositInTransaction, and the allocation it triggers.      *)
DepositSettles(p) ==
  /\ Settleable(p, "DEPOSIT")
  /\ leg' = [leg EXCEPT ![p]["DEPOSIT"] = "SUCCEEDED"]
  /\ depositors' = Append(depositors, p)
  /\ Becomes(Allocated([Now EXCEPT !.preorder = [preorder EXCEPT ![p].status = "DEPOSIT_PAID"]]))
  /\ UNCHANGED obligation

(* The balance is in: the purchase is finalized.                            *)
BalanceSettles(p) ==
  /\ Settleable(p, "BALANCE")
  /\ leg' = [leg EXCEPT ![p]["BALANCE"] = "SUCCEEDED"]
  /\ Becomes(Finalized(Now, p))
  /\ UNCHANGED <<depositors, obligation>>

(* Money that cannot settle a live intent: wrong, late, or for a reservation  *)
(* that takes none any more.  (A dead intent is not touched.)               *)
LegToReview(p, l) ==
  /\ leg[p][l] = "PRESENTED"
  /\ leg' = [leg EXCEPT ![p][l] = "NEEDS_REVIEW"]
  /\ UNCHANGED <<preorder, depositors, unit, obligation, pOrder>>

(* hold_until passes, and reserved_until of the held unit with it: both were  *)
(* written by one allocation.                                               *)
HoldLapses(p) ==
  LET u == preorder[p].unit IN
  /\ preorder[p].status \in Holding
  /\ ~preorder[p].lapsed
  /\ preorder' = [preorder EXCEPT ![p].lapsed = TRUE]
  /\ unit' = IF Unbound(unit[u]) THEN [unit EXCEPT ![u].lapsed = TRUE] ELSE unit
  /\ UNCHANGED <<depositors, leg, obligation, pOrder>>

(* reserved_until of a unit that is bound to an order passes.                *)
ReservationLapses(u) ==
  /\ unit[u].status = "RESERVED"
  /\ unit[u].owner # NoPreorder
  /\ ~unit[u].lapsed
  /\ unit' = [unit EXCEPT ![u].lapsed = TRUE]
  /\ UNCHANGED <<preorder, depositors, leg, obligation, pOrder>>

(* releaseReservedAsset, by the sweep of stale reservations.                *)
SweepUnit(u) ==
  /\ unit[u].status = "RESERVED"
  /\ unit[u].lapsed
  /\ unit' = [unit EXCEPT ![u] = [Unstocked EXCEPT !.status = "AVAILABLE"]]
  /\ UNCHANGED <<preorder, depositors, leg, obligation, pOrder>>

Expired == {p \in Preorders : preorder[p].status \in Holding /\ preorder[p].lapsed}

(* releaseExpiredPreorderHolds: deposits are forfeited, intents closed, units *)
(* freed and given to the next in the queue.                                *)
ForfeitExpired ==
  LET freed == {preorder[p].unit : p \in Expired}
      forfeited ==
        State([p \in Preorders |-> IF p \in Expired
                                   THEN [preorder[p] EXCEPT !.status = "DEPOSIT_FORFEITED"]
                                   ELSE preorder[p]],
              [u \in Units |-> IF u \in freed /\ Unbound(unit[u])
                               THEN [Unstocked EXCEPT !.status = "AVAILABLE"]
                               ELSE unit[u]],
              pOrder)
  IN
  /\ Expired # {}
  /\ leg' = [p \in Preorders |-> [l \in Legs |->
       IF p \in Expired /\ leg[p][l] = "PRESENTED" THEN "EXPIRED" ELSE leg[p][l]]]
  /\ UNCHANGED <<depositors, obligation>>
  /\ Becomes(Allocated(forfeited))

\* collectedAmountVnd.
Collected(p) ==
  IF preorder[p].status = "FULLY_PAID" THEN DepositOf[p] + BalanceOf[p]
  ELSE IF p \in Range(depositors) THEN DepositOf[p]
  ELSE 0

(* shopCancelPreorder: what was collected is owed, and the unit is released   *)
(* though its owner may be an order.  The intents stay as they are.          *)
ShopCancel(p) ==
  LET u == preorder[p].unit
      status == IF Collected(p) > 0 THEN "REFUND_DUE" ELSE "SHOP_CANCELLED"
      cancelled ==
        State([preorder EXCEPT ![p] = [status |-> status, unit |-> NoUnit, lapsed |-> FALSE]],
              IF u \in Units /\ unit[u].status = "RESERVED"
              THEN [unit EXCEPT ![u].status = "AVAILABLE", ![u].lapsed = FALSE]
              ELSE unit,
              pOrder)
  IN
  /\ preorder[p].status \in Cancellable
  /\ obligation' = [obligation EXCEPT ![p] = Collected(p)]
  /\ UNCHANGED <<depositors, leg>>
  /\ Becomes(Allocated(cancelled))

-----------------------------------------------------------------------------
(* A unit is imported.  Nothing is allocated by that.                       *)
Restock(u) ==
  /\ unit[u].status = "absent"
  /\ unit' = [unit EXCEPT ![u].status = "AVAILABLE"]
  /\ UNCHANGED <<preorder, depositors, leg, obligation, pOrder>>

(* A Buy Now takes a free unit ...                                          *)
ShopperReserves(u) ==
  /\ unit[u].status = "AVAILABLE"
  /\ unit' = [unit EXCEPT ![u] = [status |-> "RESERVED", owner |-> Shopper, lapsed |-> FALSE]]
  /\ UNCHANGED <<preorder, depositors, leg, obligation, pOrder>>

(* ... and is delivered it.                                                 *)
ShopperGets(u) ==
  /\ unit[u].status = "RESERVED"
  /\ unit[u].owner = Shopper
  /\ unit' = [unit EXCEPT ![u].status = "DELIVERED"]
  /\ UNCHANGED <<preorder, depositors, leg, obligation, pOrder>>

(* OrderPaid of a preorder's order (claimAssetForOrder): the unit bound to    *)
(* it, else any free one, else a review (Fulfilment).                        *)
FulfilPreorder(p) ==
  LET bound == {u \in Units : unit[u].owner = p /\ unit[u].status = "RESERVED"}
      free == {u \in Units : unit[u].status = "AVAILABLE"}
  IN
  /\ pOrder[p] = "PAID"
  /\ \/ \E u \in IF bound # {} THEN bound ELSE free :
          /\ unit' = [unit EXCEPT ![u] = [status |-> "DELIVERED", owner |-> p, lapsed |-> FALSE]]
          /\ pOrder' = [pOrder EXCEPT ![p] = "PROCESSING"]
     \/ /\ bound \cup free = {}
        /\ pOrder' = [pOrder EXCEPT ![p] = "FULFILLMENT_NEEDS_REVIEW"]
        /\ UNCHANGED unit
  /\ UNCHANGED <<preorder, depositors, leg, obligation>>

PreorderNext ==
  \/ \E p \in Preorders :
       \/ Reserve(p) \/ DepositSettles(p) \/ BalanceSettles(p) \/ ShopCancel(p)
       \/ FulfilPreorder(p) \/ HoldLapses(p)
       \/ \E l \in Legs : PresentLeg(p, l) \/ LegToReview(p, l)
  \/ \E u \in Units :
       ReservationLapses(u) \/ SweepUnit(u) \/ Restock(u) \/ ShopperReserves(u) \/ ShopperGets(u)
  \/ ForfeitExpired

PreorderSpec == PreorderInit /\ [][PreorderNext]_preorderVars

-----------------------------------------------------------------------------
Received(p) ==
  (IF leg[p]["DEPOSIT"] = "SUCCEEDED" THEN DepositOf[p] ELSE 0)
  + (IF leg[p]["BALANCE"] = "SUCCEEDED" THEN BalanceOf[p] ELSE 0)

(* What the shop owes for a cancelled preorder is what it received for it, to *)
(* the dong: no leg settles after the cancel, none that settled is forgotten, *)
(* and nothing is owed where the deposit is forfeited; an order exists when   *)
(* the full price was received.                                             *)
RefundOwesWhatWasReceived ==
  \A p \in Preorders :
    /\ preorder[p].status \in {"REFUND_DUE", "SHOP_CANCELLED"} => obligation[p] = Received(p)
    /\ obligation[p] > 0 => preorder[p].status = "REFUND_DUE"
    /\ pOrder[p] # "none" => Received(p) = DepositOf[p] + BalanceOf[p]

(* First paid, first served: a reservation never gets a unit while one that   *)
(* paid its deposit before is left waiting, by whatever transaction.         *)
QueueIsServedInOrder ==
  [][\A i, j \in 1..Len(depositors') :
       (/\ i < j
        /\ preorder[depositors'[j]].status \notin Holding \cup {"FULLY_PAID"}
        /\ preorder'[depositors'[j]].status \in Holding \cup {"FULLY_PAID"}) =>
       preorder'[depositors'[i]].status # "DEPOSIT_PAID"]_preorderVars

(* "Khi hang ve, he thong giu hang rieng cho ban": while a hold runs, its     *)
(* unit is reserved for that preorder and no other.                          *)
HeldUnitIsExclusive ==
  \A p \in Preorders :
    (preorder[p].status \in Holding /\ ~preorder[p].lapsed) =>
      /\ Unbound(unit[preorder[p].unit])
      /\ \A q \in Preorders \ {p} :
           preorder[q].status \in Holding => preorder[q].unit # preorder[p].unit

(* "Used when a reservation stops being payable (FAILED on shop cancel)": a   *)
(* cancelled preorder has no live payment request.                          *)
CancelledHasNoLiveIntent ==
  \A p \in Preorders :
    preorder[p].status \in {"REFUND_DUE", "SHOP_CANCELLED"} =>
      \A l \in Legs : leg[p][l] # "PRESENTED"
=============================================================================
