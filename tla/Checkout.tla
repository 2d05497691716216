------------------------------ MODULE Checkout ------------------------------
(***************************************************************************)
(* From Buy Now to paid or dead: the order, the stock it holds, its        *)
(* promotion redemption, its payment intent, the bank transfers that name  *)
(* it and the wallet that may pay for it instead.                          *)
(*                                                                         *)
(* Every operation is one database transaction that locks the order row    *)
(* (or, for the sweep, the asset row), so each is one action; what races   *)
(* is their order: the customer, the bank's evidence, the recovery lane    *)
(* and the clock.  An order is named by its (customer, idempotency key),   *)
(* so a second Buy Now with the same key is the same order and writes      *)
(* nothing.  Refusals (store closed, price changed, no funds) write        *)
(* nothing either and may come at any time, so they are not modelled.      *)
(* Every order costs one unit of money.                                    *)
(***************************************************************************)
EXTENDS Naturals, FiniteSets

CONSTANTS
  Orders,         \* orders customers may place
  Customers,
  CustomerOf,     \* CustomerOf[o]
  Kind,           \* Kind[o]: "DISCRETE", "QUANTITY" or "DEFERRED" fulfilment
  WithPromo,      \* orders placed with the promotion code
  Assets,         \* digital_asset rows of the one discrete variant
  Units,          \* initial variant_quantity_stock.available_quantity
  Transfers,      \* bank transfers customers may make
  MaxTotalUses,
  MaxUsesPerCustomer,
  WalletBalance   \* WalletBalance[c]: initial balance

None == "none"

ASSUME CheckoutConstants ==
  /\ CustomerOf \in [Orders -> Customers]
  /\ Kind \in [Orders -> {"DISCRETE", "QUANTITY", "DEFERRED"}]
  /\ WithPromo \subseteq Orders
  /\ None \notin Orders
  /\ Units \in Nat
  /\ MaxTotalUses \in Nat
  /\ MaxUsesPerCustomer \in Nat
  /\ WalletBalance \in [Customers -> Nat]

VARIABLES
  status,      \* "order".status, "ABSENT" before the insert
  overdue,     \* expires_at, also reserved_until of its hold, has passed
  holder,      \* digital_asset.reserved_order_id while RESERVED, else None
  available,   \* variant_quantity_stock.available_quantity
  ledger,      \* the order's RESERVE entry: None, "HELD" or "RELEASED"
  redemption,  \* promotion_redemption.status of the order
  intent,      \* payment_intent.status of the order
  payee,       \* the order a transfer's content names, None before it is made
  amount,      \* of the transfer: "EXACT", "UNDER" or "OVER"
  late,        \* transacted after the intent's expiry plus the skew
  evidence,    \* what was recorded of it: None, "SETTLED" or "DISCREPANCY"
  balance,     \* wallet balance of a customer
  debited      \* the wallet ledger has a purchase entry for the order

stockVars == <<holder, available, ledger>>
bankVars  == <<payee, amount, late>>
walletVars == <<balance, debited>>
vars == <<status, overdue, stockVars, redemption, intent, bankVars, evidence, walletVars>>

Dead == {"CANCELLED", "EXPIRED"}

TypeOK ==
  /\ status \in [Orders -> {"ABSENT", "PENDING_PAYMENT", "PAID",
                            "PAYMENT_NEEDS_REVIEW"} \cup Dead]
  /\ overdue \in [Orders -> BOOLEAN]
  /\ holder \in [Assets -> Orders \cup {None}]
  /\ available \in Nat
  /\ ledger \in [Orders -> {None, "HELD", "RELEASED"}]
  /\ redemption \in [Orders -> {None, "RESERVED", "CONSUMED", "RELEASED"}]
  /\ intent \in [Orders -> {None, "PRESENTED", "SUCCEEDED", "FAILED", "NEEDS_REVIEW"}]
  /\ payee \in [Transfers -> Orders \cup {None}]
  /\ amount \in [Transfers -> {None, "EXACT", "UNDER", "OVER"}]
  /\ late \in [Transfers -> BOOLEAN]
  /\ evidence \in [Transfers -> {None, "SETTLED", "DISCREPANCY"}]
  /\ \A t \in Transfers : evidence[t] # None => payee[t] \in Orders
  /\ balance \in [Customers -> Nat]
  /\ debited \in [Orders -> BOOLEAN]

Init ==
  /\ status = [o \in Orders |-> "ABSENT"]
  /\ overdue = [o \in Orders |-> FALSE]
  /\ holder = [a \in Assets |-> None]
  /\ available = Units
  /\ ledger = [o \in Orders |-> None]
  /\ redemption = [o \in Orders |-> None]
  /\ intent = [o \in Orders |-> None]
  /\ payee = [t \in Transfers |-> None]
  /\ amount = [t \in Transfers |-> None]
  /\ late = [t \in Transfers |-> FALSE]
  /\ evidence = [t \in Transfers |-> None]
  /\ balance = WalletBalance
  /\ debited = [o \in Orders |-> FALSE]

-----------------------------------------------------------------------------
(* Stock and promotions *)

\* reserveTypedStockForOrder: one asset, one counted unit, or a mere readiness
\* check.  Buy Now fails, and rolls the order back, when there is no stock.
ReserveTypedStock(o) ==
  \/ /\ Kind[o] = "DISCRETE"
     /\ \E a \in Assets : holder[a] = None /\ holder' = [holder EXCEPT ![a] = o]
     /\ UNCHANGED <<available, ledger>>
  \/ /\ Kind[o] = "QUANTITY"
     /\ available > 0
     /\ available' = available - 1
     /\ ledger' = [ledger EXCEPT ![o] = "HELD"]
     /\ UNCHANGED holder
  \/ /\ Kind[o] = "DEFERRED"
     /\ UNCHANGED stockVars

\* Mutated form: an asset never goes back to the pool.
KeepAssets(o) == holder

\* releaseReservationForOrder: the discrete unit only.
WithoutHoldsOf(o) == [a \in Assets |-> IF holder[a] = o THEN None ELSE holder[a]]

\* Mutated form: the RESERVE entry is left open, so it can be released again.
LeaveEntryOpen(o) == ledger
CloseEntry(o) == [ledger EXCEPT ![o] = "RELEASED"]

ReleaseReservation(o) == holder' = WithoutHoldsOf(o)

ReleaseQuantity(o) ==
  IF ledger[o] = "HELD"
  THEN available' = available + 1 /\ ledger' = CloseEntry(o)
  ELSE UNCHANGED <<available, ledger>>

ReleaseTypedStock(o) == ReleaseReservation(o) /\ ReleaseQuantity(o)

\* orderHasActiveReservation
HasActiveReservation(o) ==
  CASE Kind[o] = "DISCRETE" -> ~overdue[o] /\ \E a \in Assets : holder[a] = o
    [] Kind[o] = "QUANTITY" -> ~overdue[o] /\ ledger[o] = "HELD"
    [] OTHER -> TRUE

\* Mutated form: only consumed redemptions count, so reserved ones oversell.
ConsumedUses == {o \in Orders : redemption[o] = "CONSUMED"}
Uses == {o \in Orders : redemption[o] \in {"RESERVED", "CONSUMED"}}

UsesBy(c) == {o \in Uses : CustomerOf[o] = c}

ReservePromotion(o) ==
  IF o \in WithPromo
  THEN /\ Cardinality(Uses) < MaxTotalUses
       /\ Cardinality(UsesBy(CustomerOf[o])) < MaxUsesPerCustomer
       /\ redemption' = [redemption EXCEPT ![o] = "RESERVED"]
  ELSE UNCHANGED redemption

FromReserved(o, to) ==
  redemption' = [redemption EXCEPT ![o] = IF @ = "RESERVED" THEN to ELSE @]

\* Mutated form: a cancel keeps the redemption.
KeepRedemption(o) == UNCHANGED redemption

ConsumePromotion(o) == FromReserved(o, "CONSUMED")
ReleasePromotion(o) == FromReserved(o, "RELEASED")

-----------------------------------------------------------------------------
(* Orders and intents *)

LiveIntent(o) == intent[o] = "PRESENTED"

\* Mutated forms: nothing is voided; a status the column does not know.
KeepIntents(o) == intent
VoidedAsCancelled(o) == [intent EXCEPT ![o] = IF LiveIntent(o) THEN "CANCELLED" ELSE @]
VoidedIntents(o) == [intent EXCEPT ![o] = IF LiveIntent(o) THEN "FAILED" ELSE @]

VoidLiveIntents(o) == intent' = VoidedIntents(o)
TransitionOrder(o, to) == status' = [status EXCEPT ![o] = to]

BuyNow(o) ==
  /\ status[o] = "ABSENT"
  /\ TransitionOrder(o, "PENDING_PAYMENT")
  /\ ReservePromotion(o)
  /\ ReserveTypedStock(o)
  /\ UNCHANGED <<overdue, intent, bankVars, evidence, walletVars>>

\* presentPaymentForOrder mints an intent; with a live one it shows that one.
PresentPayment(o) ==
  /\ status[o] = "PENDING_PAYMENT"
  /\ ~overdue[o]
  /\ HasActiveReservation(o)
  /\ ~LiveIntent(o)
  /\ intent' = [intent EXCEPT ![o] = "PRESENTED"]
  /\ UNCHANGED <<status, overdue, stockVars, redemption, bankVars, evidence, walletVars>>

\* Mutated form: a paid order may be cancelled too.
CancellableThoughPaid(o) == status[o] \in {"PENDING_PAYMENT", "PAID"}

IsCancellableByCustomer(o) == status[o] = "PENDING_PAYMENT"

CancelUnpaidOrder(o) ==
  /\ IsCancellableByCustomer(o)
  /\ TransitionOrder(o, "CANCELLED")
  /\ VoidLiveIntents(o)
  /\ ReleasePromotion(o)
  /\ ReleaseTypedStock(o)
  /\ UNCHANGED <<overdue, bankVars, evidence, walletVars>>

\* Mutated form: an order with a live QR code is spared.
ExpirableWithoutIntent(o) == status[o] = "PENDING_PAYMENT" /\ overdue[o] /\ ~LiveIntent(o)

IsExpirable(o) == status[o] = "PENDING_PAYMENT" /\ overdue[o]

\* One row of recoverExpiredOrdersBatch: unlike a cancel, it releases neither
\* the promotion nor a counted unit.
RecoverExpiredOrder(o) ==
  /\ IsExpirable(o)
  /\ TransitionOrder(o, "EXPIRED")
  /\ VoidLiveIntents(o)
  /\ ReleaseReservation(o)
  /\ UNCHANGED <<overdue, available, ledger, redemption, bankVars, evidence, walletVars>>

\* Mutated form: holds of orders under review are left out.
LapsedUnfrozen(a) ==
  holder[a] # None /\ overdue[holder[a]] /\ status[holder[a]] # "PAYMENT_NEEDS_REVIEW"

Lapsed(a) == holder[a] # None /\ overdue[holder[a]]

\* One row of recoverStaleReservationsBatch, whatever became of the order: also
\* the hold of a paid order that is not fulfilled yet.
RecoverStaleReservation(a) ==
  /\ Lapsed(a)
  /\ holder' = [holder EXCEPT ![a] = None]
  /\ UNCHANGED <<status, overdue, available, ledger, redemption, intent,
                 bankVars, evidence, walletVars>>

TimePasses(o) ==
  /\ status[o] # "ABSENT"
  /\ ~overdue[o]
  /\ overdue' = [overdue EXCEPT ![o] = TRUE]
  /\ UNCHANGED <<status, stockVars, redemption, intent, bankVars, evidence, walletVars>>

-----------------------------------------------------------------------------
(* Money *)

\* A customer who saw the transfer content pays, at any time and any amount,
\* possibly twice.  Within the skew a transfer after the expiry is not late.
MakeTransfer(t, o, amt, isLate) ==
  /\ payee[t] = None
  /\ intent[o] # None
  /\ isLate => overdue[o]
  /\ payee' = [payee EXCEPT ![t] = o]
  /\ amount' = [amount EXCEPT ![t] = amt]
  /\ late' = [late EXCEPT ![t] = isLate]
  /\ UNCHANGED <<status, overdue, stockVars, redemption, intent, evidence, walletVars>>

\* Mutated forms: late evidence is dropped; the intent's state is not checked.
NewAndInTime(t) == evidence[t] = None /\ ~late[t]
ExactAndInTime(t) == amount[t] = "EXACT" /\ ~late[t]

\* insertBankTransactionIfNew: a replay of recorded evidence has no effect.
NewEvidence(t) == evidence[t] = None

\* decideMatch
Matches(t) == amount[t] = "EXACT" /\ LiveIntent(payee[t]) /\ ~late[t]

\* projectSettlement: money for any other order is a discrepancy.
Payable(o) == status[o] \in {"PENDING_PAYMENT", "PAID"}

\* applyPaymentEvidence, exact match: the settled allocation, the intent and,
\* if it was still unpaid, the order.
Settle(t) ==
  LET o == payee[t] IN
  /\ NewEvidence(t)
  /\ o # None
  /\ Matches(t)
  /\ Payable(o)
  /\ evidence' = [evidence EXCEPT ![t] = "SETTLED"]
  /\ intent' = [intent EXCEPT ![o] = "SUCCEEDED"]
  /\ TransitionOrder(o, "PAID")
  /\ IF status[o] = "PENDING_PAYMENT" THEN ConsumePromotion(o) ELSE UNCHANGED redemption
  /\ UNCHANGED <<overdue, stockVars, bankVars, walletVars>>

\* Mutated form: what does not match is dropped silently.
Unrecorded(t) == evidence
Recorded(t) == [evidence EXCEPT ![t] = "DISCREPANCY"]

\* applyPaymentEvidence, no match or money for a dead order: the evidence is
\* kept for review, a live intent is flagged and an unpaid order frozen.
RecordDiscrepancy(t) ==
  LET o == payee[t] IN
  /\ NewEvidence(t)
  /\ o # None
  /\ Matches(t) => ~Payable(o)
  /\ evidence' = Recorded(t)
  /\ intent' = [intent EXCEPT ![o] = IF LiveIntent(o) THEN "NEEDS_REVIEW" ELSE @]
  /\ status' = [status EXCEPT ![o] = IF @ = "PENDING_PAYMENT"
                                     THEN "PAYMENT_NEEDS_REVIEW" ELSE @]
  /\ UNCHANGED <<overdue, stockVars, redemption, bankVars, walletVars>>

ApplyPaymentEvidence(t) == Settle(t) \/ RecordDiscrepancy(t)

\* createWalletPurchaseService.purchase.  It leaves the redemption RESERVED.
WalletPurchase(o) ==
  LET c == CustomerOf[o] IN
  /\ status[o] = "PENDING_PAYMENT"
  /\ ~overdue[o]
  /\ HasActiveReservation(o)
  /\ balance[c] > 0
  /\ balance' = [balance EXCEPT ![c] = balance[c] - 1]
  /\ debited' = [debited EXCEPT ![o] = TRUE]
  /\ VoidLiveIntents(o)
  /\ TransitionOrder(o, "PAID")
  /\ UNCHANGED <<overdue, stockVars, redemption, bankVars, evidence>>

-----------------------------------------------------------------------------
Next ==
  \/ \E o \in Orders :
       \/ BuyNow(o) \/ PresentPayment(o) \/ CancelUnpaidOrder(o)
       \/ RecoverExpiredOrder(o) \/ TimePasses(o) \/ WalletPurchase(o)
  \/ \E a \in Assets : RecoverStaleReservation(a)
  \/ \E t \in Transfers :
       \/ ApplyPaymentEvidence(t)
       \/ \E o \in Orders, amt \in {"EXACT", "UNDER", "OVER"}, isLate \in BOOLEAN :
            MakeTransfer(t, o, amt, isLate)

Spec == Init /\ [][Next]_vars

\* The recovery lane runs on a timer, its batches make progress past a failing
\* row, and SePay's webhook or the reconciliation delivers every transfer.
Fairness ==
  /\ \A o \in Orders : WF_vars(TimePasses(o)) /\ WF_vars(RecoverExpiredOrder(o))
  /\ \A a \in Assets : WF_vars(RecoverStaleReservation(a))
  /\ \A t \in Transfers : WF_vars(ApplyPaymentEvidence(t))

FairSpec == Spec /\ Fairness
-----------------------------------------------------------------------------
(* Properties *)

SettledFor(o) == {t \in Transfers : evidence[t] = "SETTLED" /\ payee[t] = o}

\* An order is paid exactly once, by one settled transfer or by one wallet
\* debit, and no money is taken for an order that is not paid: whatever the
\* customer sends twice, late, or while cancelling or paying from the wallet.
PaidExactlyOnce ==
  \A o \in Orders :
    /\ status[o] = "PAID" <=> debited[o] \/ SettledFor(o) # {}
    /\ ~(debited[o] /\ SettledFor(o) # {})
    /\ \A s, t \in SettledFor(o) : s = t

\* A QR code that can still settle belongs to an unpaid order: no cancel,
\* expiry, wallet payment or discrepancy leaves one behind.
LiveIntentOnlyWhileUnpaid ==
  \A o \in Orders : LiveIntent(o) => status[o] = "PENDING_PAYMENT"

\* A discrete unit is never held for a dead order, nor two for one order.
HoldsServeLiveOrders ==
  \A a, b \in Assets : holder[a] # None =>
    /\ status[holder[a]] \notin Dead \cup {"ABSENT"}
    /\ holder[a] = holder[b] => a = b

\* Counted units are neither created nor lost by reserving and releasing.
CountedUnitsConserved ==
  available + Cardinality({o \in Orders : ledger[o] = "HELD"}) = Units

\* The code is never used beyond its limits, by all or by one customer.
PromotionWithinLimits ==
  /\ Cardinality({o \in Orders : redemption[o] \in {"RESERVED", "CONSUMED"}}) <= MaxTotalUses
  /\ \A c \in Customers :
       Cardinality({o \in Orders : CustomerOf[o] = c
                      /\ redemption[o] \in {"RESERVED", "CONSUMED"}}) <= MaxUsesPerCustomer

\* A redemption is spent only on a paid order and given back only by a cancel.
RedemptionFollowsOrder ==
  \A o \in Orders :
    /\ redemption[o] = "CONSUMED" => status[o] = "PAID"
    /\ redemption[o] = "RELEASED" <=> o \in WithPromo /\ status[o] = "CANCELLED"

\* What is counted adds up, however orders are placed, paid, cancelled and expired
\* at once: counted units are conserved, the code keeps both limits, and a use of
\* it follows the fate of its order.
CountsAreKept == CountedUnitsConserved /\ PromotionWithinLimits /\ RedemptionFollowsOrder

\* An order is frozen for review exactly because of evidence that did not
\* settle it and that an operator finds recorded.
FrozenForRecordedEvidence ==
  \A o \in Orders : status[o] = "PAYMENT_NEEDS_REVIEW" =>
    /\ \E t \in Transfers : payee[t] = o /\ evidence[t] = "DISCREPANCY"
    /\ ~debited[o] /\ SettledFor(o) = {}

\* No caller of transitionOrder trips its assertion on legal moves.
Lifecycle == INSTANCE OrderLifecycle

ImplementsLifecycle == Lifecycle!LifecycleSpec

\* An unpaid order is always paid, cancelled, expired or put under review.
EveryOrderIsDecided ==
  \A o \in Orders : status[o] = "PENDING_PAYMENT" ~> status[o] # "PENDING_PAYMENT"

\* No unit is stranded under an order that is neither paid nor fulfilled in
\* time, also one frozen for review (fulfilment upgrades a hold in Delivery).
EveryHoldEnds == \A a \in Assets, o \in Orders : holder[a] = o ~> holder[a] # o

\* Every transfer, late or wrong as it may be, settles or is left for review.
EveryTransferIsAccounted ==
  \A t \in Transfers : payee[t] # None ~> evidence[t] # None

\* "Same atomic void + release as cancel": no dead order keeps a counted unit out
\* of the pool or a use of its promotion code from other customers.
DeadOrdersHoldNothing ==
  \A o \in Orders : status[o] \in Dead => ledger[o] # "HELD" /\ redemption[o] # "RESERVED"
=============================================================================
