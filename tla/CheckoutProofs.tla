--------------------------- MODULE CheckoutProofs ---------------------------
(***************************************************************************)
(* The money and the discrete stock of Checkout, for every number of       *)
(* orders, customers, assets and transfers.  The argument: an intent that  *)
(* can still settle belongs to an unpaid order, an unpaid order has taken  *)
(* no money, and every writer that takes money first sees the order        *)
(* unpaid; so the two ways to pay exclude each other and themselves.       *)
(***************************************************************************)
EXTENDS Checkout, FiniteSetTheorems, TLAPS

-----------------------------------------------------------------------------
(* Type correctness *)

LEMMA InitType == Init => TypeOK
  BY CheckoutConstants DEF Init, TypeOK

LEMMA NextType == TypeOK /\ [Next]_vars => TypeOK'
<1> SUFFICES ASSUME TypeOK, [Next]_vars PROVE TypeOK'
  OBVIOUS
<1> USE CheckoutConstants
    DEF TypeOK, stockVars, bankVars, walletVars, Dead, TransitionOrder, VoidLiveIntents,
        VoidedIntents, FromReserved, ConsumePromotion, ReleasePromotion
<1>1. CASE UNCHANGED vars
  BY <1>1 DEF vars
<1>2. ASSUME NEW o \in Orders, BuyNow(o) PROVE TypeOK'
  BY <1>2 DEF BuyNow, ReservePromotion, ReserveTypedStock
<1>3. ASSUME NEW o \in Orders, PresentPayment(o) PROVE TypeOK'
  BY <1>3 DEF PresentPayment
<1>4. ASSUME NEW o \in Orders, CancelUnpaidOrder(o) PROVE TypeOK'
  BY <1>4 DEF CancelUnpaidOrder, ReleaseTypedStock, ReleaseReservation, WithoutHoldsOf,
              ReleaseQuantity, CloseEntry
<1>5. ASSUME NEW o \in Orders, RecoverExpiredOrder(o) PROVE TypeOK'
  BY <1>5 DEF RecoverExpiredOrder, ReleaseReservation, WithoutHoldsOf
<1>6. ASSUME NEW o \in Orders, TimePasses(o) PROVE TypeOK'
  BY <1>6 DEF TimePasses
<1>7. ASSUME NEW o \in Orders, WalletPurchase(o) PROVE TypeOK'
  BY <1>7 DEF WalletPurchase
<1>8. ASSUME NEW a \in Assets, RecoverStaleReservation(a) PROVE TypeOK'
  BY <1>8 DEF RecoverStaleReservation
<1>9. ASSUME NEW t \in Transfers, Settle(t) PROVE TypeOK'
  <2>1. payee[t] \in Orders
    BY <1>9 DEF Settle
  <2> QED BY <1>9, <2>1 DEF Settle
<1>10. ASSUME NEW t \in Transfers, RecordDiscrepancy(t) PROVE TypeOK'
  <2>1. payee[t] \in Orders
    BY <1>10 DEF RecordDiscrepancy
  <2> QED BY <1>10, <2>1 DEF RecordDiscrepancy, Recorded
<1>11. ASSUME NEW t \in Transfers, NEW o \in Orders, NEW amt \in {"EXACT", "UNDER", "OVER"},
              NEW isLate \in BOOLEAN, MakeTransfer(t, o, amt, isLate)
       PROVE TypeOK'
  BY <1>11 DEF MakeTransfer
<1> QED
  BY <1>1, <1>2, <1>3, <1>4, <1>5, <1>6, <1>7, <1>8, <1>9, <1>10, <1>11
     DEF Next, ApplyPaymentEvidence
-----------------------------------------------------------------------------
(* Money: paid exactly once, and only through a live intent or the wallet *)

Money == PaidExactlyOnce /\ LiveIntentOnlyWhileUnpaid

\* An order that has taken money, once, knows which; SettledFor is unfolded here.
LEMMA MoneyUnfolded ==
  Money <=> \A o \in Orders :
    /\ status[o] = "PAID"
         <=> debited[o] \/ \E t \in Transfers : evidence[t] = "SETTLED" /\ payee[t] = o
    /\ debited[o] => \A t \in Transfers : ~(evidence[t] = "SETTLED" /\ payee[t] = o)
    /\ \A s, t \in Transfers :
         evidence[s] = "SETTLED" /\ payee[s] = o /\ evidence[t] = "SETTLED" /\ payee[t] = o
           => s = t
    /\ intent[o] = "PRESENTED" => status[o] = "PENDING_PAYMENT"
  BY DEF Money, PaidExactlyOnce, LiveIntentOnlyWhileUnpaid, SettledFor, LiveIntent

LEMMA MoneyStep == TypeOK /\ Money /\ [Next]_vars => Money'
<1> SUFFICES ASSUME TypeOK, Money, [Next]_vars PROVE Money'
  OBVIOUS
<1> DEFINE M == \A o \in Orders :
    /\ status[o] = "PAID"
         <=> debited[o] \/ \E t \in Transfers : evidence[t] = "SETTLED" /\ payee[t] = o
    /\ debited[o] => \A t \in Transfers : ~(evidence[t] = "SETTLED" /\ payee[t] = o)
    /\ \A s, t \in Transfers :
         evidence[s] = "SETTLED" /\ payee[s] = o /\ evidence[t] = "SETTLED" /\ payee[t] = o
           => s = t
    /\ intent[o] = "PRESENTED" => status[o] = "PENDING_PAYMENT"
<1>m. M
  BY MoneyUnfolded
<1>u. M' => Money'
  BY DEF Money, PaidExactlyOnce, LiveIntentOnlyWhileUnpaid, SettledFor, LiveIntent
<1> USE <1>m, CheckoutConstants
    DEF TypeOK, bankVars, walletVars, Dead, TransitionOrder, VoidLiveIntents, VoidedIntents,
        LiveIntent, None
<1>1. ASSUME UNCHANGED vars PROVE M'
  BY <1>1 DEF vars
<1>2. ASSUME NEW o \in Orders, BuyNow(o) PROVE M'
  BY <1>2 DEF BuyNow
<1>3. ASSUME NEW o \in Orders, PresentPayment(o) PROVE M'
  BY <1>3 DEF PresentPayment
<1>4. ASSUME NEW o \in Orders, CancelUnpaidOrder(o) PROVE M'
  BY <1>4 DEF CancelUnpaidOrder, IsCancellableByCustomer
<1>5. ASSUME NEW o \in Orders, RecoverExpiredOrder(o) PROVE M'
  BY <1>5 DEF RecoverExpiredOrder, IsExpirable
<1>6. ASSUME NEW o \in Orders, TimePasses(o) PROVE M'
  BY <1>6 DEF TimePasses
<1>7. ASSUME NEW o \in Orders, WalletPurchase(o) PROVE M'
  BY <1>7 DEF WalletPurchase
<1>8. ASSUME NEW a \in Assets, RecoverStaleReservation(a) PROVE M'
  BY <1>8 DEF RecoverStaleReservation
<1>9. ASSUME NEW t \in Transfers, Settle(t) PROVE M'
  <2>1. payee[t] \in Orders
    BY <1>9 DEF Settle
  <2>2. status[payee[t]] = "PENDING_PAYMENT" /\ evidence[t] = None
    BY <1>9, <2>1 DEF Settle, Matches, NewEvidence
  <2> QED BY <1>9, <2>1, <2>2 DEF Settle
<1>10. ASSUME NEW t \in Transfers, RecordDiscrepancy(t) PROVE M'
  <2>1. payee[t] \in Orders /\ evidence[t] = None
    BY <1>10 DEF RecordDiscrepancy, NewEvidence
  <2> QED BY <1>10, <2>1 DEF RecordDiscrepancy, Recorded
<1>11. ASSUME NEW t \in Transfers, NEW o \in Orders, NEW amt \in {"EXACT", "UNDER", "OVER"},
              NEW isLate \in BOOLEAN, MakeTransfer(t, o, amt, isLate)
       PROVE M'
  BY <1>11 DEF MakeTransfer
<1> QED
  <2> HIDE DEF M
  <2> QED BY <1>u, <1>1, <1>2, <1>3, <1>4, <1>5, <1>6, <1>7, <1>8, <1>9, <1>10, <1>11
     DEF Next, ApplyPaymentEvidence

-----------------------------------------------------------------------------
(* Stock: a held unit serves a live order, and no order holds two *)

LEMMA HoldsStep == TypeOK /\ HoldsServeLiveOrders /\ [Next]_vars => HoldsServeLiveOrders'
<1> SUFFICES ASSUME TypeOK, HoldsServeLiveOrders, [Next]_vars PROVE HoldsServeLiveOrders'
  OBVIOUS
<1> USE CheckoutConstants
    DEF HoldsServeLiveOrders, TypeOK, stockVars, bankVars, walletVars, Dead, TransitionOrder,
        ReleaseReservation, WithoutHoldsOf
<1>1. CASE UNCHANGED vars
  BY <1>1 DEF vars
<1>2. ASSUME NEW o \in Orders, BuyNow(o) PROVE HoldsServeLiveOrders'
  BY <1>2 DEF BuyNow, ReserveTypedStock
<1>3. ASSUME NEW o \in Orders, PresentPayment(o) PROVE HoldsServeLiveOrders'
  BY <1>3 DEF PresentPayment
<1>4. ASSUME NEW o \in Orders, CancelUnpaidOrder(o) PROVE HoldsServeLiveOrders'
  BY <1>4 DEF CancelUnpaidOrder, ReleaseTypedStock
<1>5. ASSUME NEW o \in Orders, RecoverExpiredOrder(o) PROVE HoldsServeLiveOrders'
  BY <1>5 DEF RecoverExpiredOrder
<1>6. ASSUME NEW o \in Orders, TimePasses(o) PROVE HoldsServeLiveOrders'
  BY <1>6 DEF TimePasses
<1>7. ASSUME NEW o \in Orders, WalletPurchase(o) PROVE HoldsServeLiveOrders'
  BY <1>7 DEF WalletPurchase
<1>8. ASSUME NEW a \in Assets, RecoverStaleReservation(a) PROVE HoldsServeLiveOrders'
  BY <1>8 DEF RecoverStaleReservation
<1>9. ASSUME NEW t \in Transfers, Settle(t) PROVE HoldsServeLiveOrders'
  BY <1>9 DEF Settle
<1>10. ASSUME NEW t \in Transfers, RecordDiscrepancy(t) PROVE HoldsServeLiveOrders'
  BY <1>10 DEF RecordDiscrepancy
<1>11. ASSUME NEW t \in Transfers, NEW o \in Orders, NEW amt \in {"EXACT", "UNDER", "OVER"},
              NEW isLate \in BOOLEAN, MakeTransfer(t, o, amt, isLate)
       PROVE HoldsServeLiveOrders'
  BY <1>11 DEF MakeTransfer
<1> QED
  BY <1>1, <1>2, <1>3, <1>4, <1>5, <1>6, <1>7, <1>8, <1>9, <1>10, <1>11
     DEF Next, ApplyPaymentEvidence

-----------------------------------------------------------------------------
(* Orders under review: the evidence that froze one is never rewritten *)

Evidenced ==
  \A o \in Orders : status[o] = "PAYMENT_NEEDS_REVIEW" =>
    \E t \in Transfers : payee[t] = o /\ evidence[t] = "DISCREPANCY"

LEMMA EvidencedStep == TypeOK /\ Evidenced /\ [Next]_vars => Evidenced'
<1> SUFFICES ASSUME TypeOK, Evidenced, [Next]_vars PROVE Evidenced'
  OBVIOUS
<1> USE CheckoutConstants
    DEF Evidenced, TypeOK, bankVars, walletVars, Dead, TransitionOrder, None
<1>1. CASE UNCHANGED vars
  BY <1>1 DEF vars
<1>2. ASSUME NEW o \in Orders, BuyNow(o) PROVE Evidenced'
  BY <1>2 DEF BuyNow
<1>3. ASSUME NEW o \in Orders, PresentPayment(o) PROVE Evidenced'
  BY <1>3 DEF PresentPayment
<1>4. ASSUME NEW o \in Orders, CancelUnpaidOrder(o) PROVE Evidenced'
  BY <1>4 DEF CancelUnpaidOrder
<1>5. ASSUME NEW o \in Orders, RecoverExpiredOrder(o) PROVE Evidenced'
  BY <1>5 DEF RecoverExpiredOrder
<1>6. ASSUME NEW o \in Orders, TimePasses(o) PROVE Evidenced'
  BY <1>6 DEF TimePasses
<1>7. ASSUME NEW o \in Orders, WalletPurchase(o) PROVE Evidenced'
  BY <1>7 DEF WalletPurchase
<1>8. ASSUME NEW a \in Assets, RecoverStaleReservation(a) PROVE Evidenced'
  BY <1>8 DEF RecoverStaleReservation
<1>9. ASSUME NEW t \in Transfers, Settle(t) PROVE Evidenced'
  BY <1>9 DEF Settle, NewEvidence
<1>10. ASSUME NEW t \in Transfers, RecordDiscrepancy(t) PROVE Evidenced'
  <2>1. payee[t] \in Orders /\ evidence[t] = None
    BY <1>10 DEF RecordDiscrepancy, NewEvidence
  <2>2. evidence' = [evidence EXCEPT ![t] = "DISCREPANCY"] /\ payee' = payee
    BY <1>10 DEF RecordDiscrepancy, Recorded
  <2>3. \A o \in Orders \ {payee[t]} : status'[o] = status[o]
    BY <1>10, <2>1 DEF RecordDiscrepancy
  <2> QED BY <2>1, <2>2, <2>3
<1>11. ASSUME NEW t \in Transfers, NEW o \in Orders, NEW amt \in {"EXACT", "UNDER", "OVER"},
              NEW isLate \in BOOLEAN, MakeTransfer(t, o, amt, isLate)
       PROVE Evidenced'
  BY <1>11 DEF MakeTransfer
<1> QED
  BY <1>1, <1>2, <1>3, <1>4, <1>5, <1>6, <1>7, <1>8, <1>9, <1>10, <1>11
     DEF Next, ApplyPaymentEvidence

\* An order under review has taken no money: it is not paid.
LEMMA FrozenUnpaid == Money /\ Evidenced <=> Money /\ FrozenForRecordedEvidence
  BY DEF Money, PaidExactlyOnce, Evidenced, FrozenForRecordedEvidence

-----------------------------------------------------------------------------
(* The invariants of every run *)

IInv == TypeOK /\ Money /\ HoldsServeLiveOrders /\ Evidenced

LEMMA InitInv == Init => IInv
<1> SUFFICES ASSUME Init PROVE IInv
  OBVIOUS
<1>1. TypeOK
  BY InitType
<1>2. Money
  BY DEF Init, Money, PaidExactlyOnce, LiveIntentOnlyWhileUnpaid, SettledFor, LiveIntent, None
<1>3. HoldsServeLiveOrders /\ Evidenced
  BY DEF Init, HoldsServeLiveOrders, Evidenced
<1> QED BY <1>1, <1>2, <1>3 DEF IInv

LEMMA NextInv == IInv /\ [Next]_vars => IInv'
  BY NextType, MoneyStep, HoldsStep, EvidencedStep DEF IInv

THEOREM Inductive == Spec => []IInv
<1>1. Init => IInv
  BY InitInv
<1>2. IInv /\ [Next]_vars => IInv'
  BY NextInv
<1> QED BY <1>1, <1>2, PTL DEF Spec

\* Every variable of the checkout keeps its type.
THEOREM TypeCorrect == Spec => []TypeOK
<1>1. IInv => TypeOK
  BY DEF IInv
<1> QED BY <1>1, Inductive, PTL

\* However transfers, wallet payments, cancels and expiry interleave, an order
\* is paid exactly once and nothing is taken for one that is not paid.
THEOREM OrdersPaidOnce == Spec => []PaidExactlyOnce
<1>1. IInv => PaidExactlyOnce
  BY DEF IInv, Money
<1> QED BY <1>1, Inductive, PTL

\* Whatever closes an order, it leaves no QR code behind that could settle.
THEOREM NoIntentOutlivesOrder == Spec => []LiveIntentOnlyWhileUnpaid
<1>1. IInv => LiveIntentOnlyWhileUnpaid
  BY DEF IInv, Money
<1> QED BY <1>1, Inductive, PTL

\* No dead order holds a discrete unit and no order holds two.
THEOREM HoldsAreLive == Spec => []HoldsServeLiveOrders
<1>1. IInv => HoldsServeLiveOrders
  BY DEF IInv
<1> QED BY <1>1, Inductive, PTL

\* An order is frozen for review only by recorded evidence, and unpaid.
THEOREM FreezesAreJustified == Spec => []FrozenForRecordedEvidence
<1>1. IInv => FrozenForRecordedEvidence
  BY FrozenUnpaid DEF IInv
<1> QED BY <1>1, Inductive, PTL

-----------------------------------------------------------------------------
(* Counts: a unit or a use that is taken was free, and each is taken and    *)
(* given back once.                                                         *)

HeldUnits == {o \in Orders : ledger[o] = "HELD"}

\* What the redemption and the ledger entry of an order are, by its status.
RowsFollowOrder ==
  \A o \in Orders :
    /\ status[o] = "ABSENT" => ledger[o] = None /\ redemption[o] = None
    /\ o \notin WithPromo => redemption[o] = None
    /\ o \in WithPromo /\ status[o] = "PENDING_PAYMENT" => redemption[o] = "RESERVED"
    /\ redemption[o] = "CONSUMED" => status[o] = "PAID"
    /\ redemption[o] = "RELEASED" <=> o \in WithPromo /\ status[o] = "CANCELLED"

CountInv ==
  /\ IsFiniteSet(HeldUnits) /\ available + Cardinality(HeldUnits) = Units
  /\ IsFiniteSet(Uses) /\ Cardinality(Uses) <= MaxTotalUses
  /\ \A c \in Customers : Cardinality(UsesBy(c)) <= MaxUsesPerCustomer
  /\ RowsFollowOrder

LEMMA CountInvIsEnough == CountInv => CountsAreKept
<1> SUFFICES ASSUME CountInv PROVE CountsAreKept
  OBVIOUS
<1>1. CountedUnitsConserved
  BY DEF CountInv, CountedUnitsConserved, HeldUnits
<1>2. \A c \in Customers :
        UsesBy(c) = {o \in Orders : CustomerOf[o] = c /\ redemption[o] \in {"RESERVED", "CONSUMED"}}
  BY DEF UsesBy, Uses
<1>3. PromotionWithinLimits
  BY <1>2 DEF CountInv, PromotionWithinLimits, Uses
<1>4. RedemptionFollowsOrder
  BY DEF CountInv, RowsFollowOrder, RedemptionFollowsOrder
<1> QED
  BY <1>1, <1>3, <1>4 DEF CountsAreKept

LEMMA InitCounts == Init => CountInv
<1> SUFFICES ASSUME Init PROVE CountInv
  OBVIOUS
<1>1. HeldUnits = {} /\ Uses = {} /\ available = Units
  BY DEF Init, HeldUnits, Uses, None
<1>2. \A c \in Customers : UsesBy(c) = {}
  BY <1>1 DEF UsesBy
<1>3. RowsFollowOrder
  BY DEF Init, RowsFollowOrder, None
<1>4. IsFiniteSet({}) /\ Cardinality({}) = 0
  BY FS_EmptySet
<1>5. IsFiniteSet(HeldUnits) /\ available + Cardinality(HeldUnits) = Units
  BY <1>1, <1>4, CheckoutConstants
<1>6. IsFiniteSet(Uses) /\ Cardinality(Uses) <= MaxTotalUses
  BY <1>1, <1>4, CheckoutConstants
<1>7. \A c \in Customers : Cardinality(UsesBy(c)) <= MaxUsesPerCustomer
  BY <1>2, <1>4, CheckoutConstants
<1> QED
  BY <1>3, <1>5, <1>6, <1>7 DEF CountInv

\* The rows of one order at most change, and each way.
LEMMA RowsStep ==
  ASSUME TypeOK, LiveIntentOnlyWhileUnpaid, RowsFollowOrder, [Next]_vars
  PROVE  RowsFollowOrder'
<1> USE CheckoutConstants
    DEF RowsFollowOrder, TypeOK, stockVars, bankVars, walletVars, Dead, TransitionOrder, None
<1>1. CASE UNCHANGED vars
  BY <1>1 DEF vars
<1>2. ASSUME NEW o \in Orders, BuyNow(o) PROVE RowsFollowOrder'
  BY <1>2 DEF BuyNow, ReservePromotion, ReserveTypedStock
<1>3. ASSUME NEW o \in Orders, PresentPayment(o) PROVE RowsFollowOrder'
  BY <1>3 DEF PresentPayment
<1>4. ASSUME NEW o \in Orders, CancelUnpaidOrder(o) PROVE RowsFollowOrder'
  BY <1>4 DEF CancelUnpaidOrder, IsCancellableByCustomer, ReleasePromotion, FromReserved,
              ReleaseTypedStock, ReleaseQuantity, CloseEntry
<1>5. ASSUME NEW o \in Orders, RecoverExpiredOrder(o) PROVE RowsFollowOrder'
  BY <1>5 DEF RecoverExpiredOrder, IsExpirable
<1>6. ASSUME NEW o \in Orders, TimePasses(o) PROVE RowsFollowOrder'
  BY <1>6 DEF TimePasses
<1>7. ASSUME NEW o \in Orders, WalletPurchase(o) PROVE RowsFollowOrder'
  BY <1>7 DEF WalletPurchase
<1>8. ASSUME NEW a \in Assets, RecoverStaleReservation(a) PROVE RowsFollowOrder'
  BY <1>8 DEF RecoverStaleReservation
<1>9. ASSUME NEW t \in Transfers, Settle(t) PROVE RowsFollowOrder'
  <2>1. payee[t] \in Orders
    BY <1>9 DEF Settle
  <2>2. status[payee[t]] = "PENDING_PAYMENT"
    BY <1>9, <2>1 DEF Settle, Matches, LiveIntentOnlyWhileUnpaid
  <2> QED
    BY <1>9, <2>1, <2>2 DEF Settle, ConsumePromotion, FromReserved
<1>10. ASSUME NEW t \in Transfers, RecordDiscrepancy(t) PROVE RowsFollowOrder'
  BY <1>10 DEF RecordDiscrepancy
<1>11. ASSUME NEW t \in Transfers, NEW o \in Orders, NEW amt \in {"EXACT", "UNDER", "OVER"},
              NEW isLate \in BOOLEAN, MakeTransfer(t, o, amt, isLate)
       PROVE RowsFollowOrder'
  BY <1>11 DEF MakeTransfer
<1> QED
  BY <1>1, <1>2, <1>3, <1>4, <1>5, <1>6, <1>7, <1>8, <1>9, <1>10, <1>11
     DEF Next, ApplyPaymentEvidence

\* Counted units: BuyNow takes one, a cancel gives it back, the rest leave them.
LEMMA UnitsMove ==
  ASSUME TypeOK, RowsFollowOrder, [Next]_vars
  PROVE  \/ available' = available /\ HeldUnits' = HeldUnits
         \/ \E o \in Orders \ HeldUnits :
              available > 0 /\ available' = available - 1 /\ HeldUnits' = HeldUnits \cup {o}
         \/ \E o \in HeldUnits : available' = available + 1 /\ HeldUnits' = HeldUnits \ {o}
<1> DEFINE Goal == \/ available' = available /\ HeldUnits' = HeldUnits
                   \/ \E o \in Orders \ HeldUnits :
                        available > 0 /\ available' = available - 1 /\ HeldUnits' = HeldUnits \cup {o}
                   \/ \E o \in HeldUnits : available' = available + 1 /\ HeldUnits' = HeldUnits \ {o}
<1>t. ledger \in [Orders -> {None, "HELD", "RELEASED"}]
  BY DEF TypeOK
<1>0. ASSUME UNCHANGED <<available, ledger>> PROVE Goal
  BY <1>0 DEF HeldUnits
<1> USE DEF stockVars, bankVars, walletVars
<1>1. ASSUME NEW o \in Orders, BuyNow(o) PROVE Goal
  <2>1. CASE UNCHANGED <<available, ledger>>
    BY <1>0, <2>1
  <2>2. CASE available > 0 /\ available' = available - 1 /\ ledger' = [ledger EXCEPT ![o] = "HELD"]
    <3>1. o \notin HeldUnits
      BY <1>1 DEF BuyNow, RowsFollowOrder, HeldUnits, None
    <3>2. HeldUnits' = HeldUnits \cup {o}
      BY <1>t, <2>2 DEF HeldUnits
    <3> QED
      BY <2>2, <3>1, <3>2
  <2> QED
    BY <1>1, <2>1, <2>2 DEF BuyNow, ReserveTypedStock
<1>2. ASSUME NEW o \in Orders, CancelUnpaidOrder(o) PROVE Goal
  <2>1. ReleaseQuantity(o)
    BY <1>2 DEF CancelUnpaidOrder, ReleaseTypedStock
  <2>2. CASE ledger[o] = "HELD"
    <3>1. available' = available + 1 /\ ledger' = [ledger EXCEPT ![o] = "RELEASED"] /\ o \in HeldUnits
      BY <2>1, <2>2 DEF ReleaseQuantity, CloseEntry, HeldUnits
    <3>2. HeldUnits' = HeldUnits \ {o}
      BY <1>t, <3>1 DEF HeldUnits
    <3> QED
      BY <3>1, <3>2
  <2>3. CASE ledger[o] # "HELD"
    BY <1>0, <2>1, <2>3 DEF ReleaseQuantity
  <2> QED
    BY <2>2, <2>3
<1>3. ASSUME \/ UNCHANGED vars
             \/ \E o \in Orders : PresentPayment(o) \/ RecoverExpiredOrder(o) \/ TimePasses(o) \/ WalletPurchase(o)
             \/ \E a \in Assets : RecoverStaleReservation(a)
             \/ \E t \in Transfers :
                  \/ ApplyPaymentEvidence(t)
                  \/ \E o \in Orders, amt \in {"EXACT", "UNDER", "OVER"}, isLate \in BOOLEAN :
                       MakeTransfer(t, o, amt, isLate)
      PROVE UNCHANGED <<available, ledger>>
  BY <1>3 DEF vars, PresentPayment, RecoverExpiredOrder, TimePasses, WalletPurchase, RecoverStaleReservation,
              ApplyPaymentEvidence, Settle, RecordDiscrepancy, MakeTransfer
<1> HIDE DEF Goal
<1>4. Goal
  BY <1>0, <1>1, <1>2, <1>3 DEF Next
<1> QED
  BY <1>4 DEF Goal

\* Uses of the code: BuyNow adds one where both limits leave room, the rest add none.
LEMMA UsesMove ==
  ASSUME TypeOK, RowsFollowOrder, [Next]_vars
  PROVE  \/ Uses' \subseteq Uses
         \/ \E o \in Orders \ Uses :
              /\ Uses' = Uses \cup {o}
              /\ Cardinality(Uses) < MaxTotalUses
              /\ Cardinality(UsesBy(CustomerOf[o])) < MaxUsesPerCustomer
<1> DEFINE Goal == \/ Uses' \subseteq Uses
                   \/ \E o \in Orders \ Uses :
                        /\ Uses' = Uses \cup {o}
                        /\ Cardinality(Uses) < MaxTotalUses
                        /\ Cardinality(UsesBy(CustomerOf[o])) < MaxUsesPerCustomer
<1>t. redemption \in [Orders -> {None, "RESERVED", "CONSUMED", "RELEASED"}]
  BY DEF TypeOK
<1>0. ASSUME UNCHANGED redemption PROVE Goal
  BY <1>0 DEF Uses
<1> USE DEF stockVars, bankVars, walletVars
<1>1. ASSUME NEW o \in Orders, BuyNow(o) PROVE Goal
  <2>1. CASE UNCHANGED redemption
    BY <1>0, <2>1
  <2>2. CASE /\ Cardinality(Uses) < MaxTotalUses
             /\ Cardinality(UsesBy(CustomerOf[o])) < MaxUsesPerCustomer
             /\ redemption' = [redemption EXCEPT ![o] = "RESERVED"]
    <3>1. o \notin Uses
      BY <1>1 DEF BuyNow, RowsFollowOrder, Uses, None
    <3>2. Uses' = Uses \cup {o}
      BY <1>t, <2>2 DEF Uses
    <3> QED
      BY <2>2, <3>1, <3>2
  <2> QED
    BY <1>1, <2>1, <2>2 DEF BuyNow, ReservePromotion
<1>2. ASSUME NEW o \in Orders, NEW to \in {"CONSUMED", "RELEASED"}, FromReserved(o, to) PROVE Goal
  <2>1. redemption' = [redemption EXCEPT ![o] = IF redemption[o] = "RESERVED" THEN to ELSE redemption[o]]
    BY <1>2 DEF FromReserved
  <2>2. Uses' \subseteq Uses
    BY <1>t, <2>1 DEF Uses
  <2> QED
    BY <2>2
<1> HIDE DEF Goal
<1>3. ASSUME NEW o \in Orders, CancelUnpaidOrder(o) PROVE Goal
  BY <1>2, <1>3 DEF CancelUnpaidOrder, ReleasePromotion
<1>4. ASSUME NEW t \in Transfers, Settle(t) PROVE Goal
  <2>1. payee[t] \in Orders
    BY <1>4, CheckoutConstants DEF Settle, TypeOK
  <2> QED
    BY <1>0, <1>2, <1>4, <2>1 DEF Settle, ConsumePromotion
<1>5. ASSUME \/ UNCHANGED vars
             \/ \E o \in Orders : PresentPayment(o) \/ RecoverExpiredOrder(o) \/ TimePasses(o) \/ WalletPurchase(o)
             \/ \E a \in Assets : RecoverStaleReservation(a)
             \/ \E t \in Transfers :
                  \/ RecordDiscrepancy(t)
                  \/ \E o \in Orders, amt \in {"EXACT", "UNDER", "OVER"}, isLate \in BOOLEAN :
                       MakeTransfer(t, o, amt, isLate)
      PROVE UNCHANGED redemption
  BY <1>5 DEF vars, PresentPayment, RecoverExpiredOrder, TimePasses, WalletPurchase, RecoverStaleReservation,
              RecordDiscrepancy, MakeTransfer
<1>6. Goal
  BY <1>0, <1>1, <1>3, <1>4, <1>5 DEF Next, ApplyPaymentEvidence
<1> QED
  BY <1>6 DEF Goal

LEMMA NextCounts ==
  ASSUME IInv, CountInv, [Next]_vars
  PROVE  CountInv'
<1>0. /\ TypeOK /\ LiveIntentOnlyWhileUnpaid /\ RowsFollowOrder
      /\ IsFiniteSet(HeldUnits) /\ available + Cardinality(HeldUnits) = Units
      /\ IsFiniteSet(Uses) /\ Cardinality(Uses) <= MaxTotalUses
      /\ \A c \in Customers : Cardinality(UsesBy(c)) <= MaxUsesPerCustomer
  BY DEF IInv, Money, CountInv
<1>1. RowsFollowOrder'
  BY <1>0, RowsStep
<1>2. IsFiniteSet(HeldUnits') /\ available' + Cardinality(HeldUnits') = Units
  <2>0. Cardinality(HeldUnits) \in Nat /\ available \in Nat
    BY <1>0, FS_CardinalityType DEF TypeOK
  <2>1. CASE available' = available /\ HeldUnits' = HeldUnits
    BY <1>0, <2>1
  <2>2. ASSUME NEW o \in Orders \ HeldUnits, available > 0, available' = available - 1,
               HeldUnits' = HeldUnits \cup {o}
        PROVE IsFiniteSet(HeldUnits') /\ available' + Cardinality(HeldUnits') = Units
    <3>1. IsFiniteSet(HeldUnits') /\ Cardinality(HeldUnits') = Cardinality(HeldUnits) + 1
      BY <1>0, <2>2, FS_AddElement
    <3> QED
      BY <1>0, <2>0, <2>2, <3>1
  <2>3. ASSUME NEW o \in HeldUnits, available' = available + 1, HeldUnits' = HeldUnits \ {o}
        PROVE IsFiniteSet(HeldUnits') /\ available' + Cardinality(HeldUnits') = Units
    <3>1. IsFiniteSet(HeldUnits') /\ Cardinality(HeldUnits') = Cardinality(HeldUnits) - 1
      BY <1>0, <2>3, FS_RemoveElement
    <3> QED
      BY <1>0, <2>0, <2>3, <3>1
  <2> QED
    BY <1>0, <2>1, <2>2, <2>3, UnitsMove
<1>3. /\ IsFiniteSet(Uses') /\ Cardinality(Uses') <= MaxTotalUses
      /\ \A c \in Customers : Cardinality(UsesBy(c)') <= MaxUsesPerCustomer
  <2>0. /\ Cardinality(Uses) \in Nat /\ MaxTotalUses \in Nat /\ MaxUsesPerCustomer \in Nat
        /\ \A c \in Customers : IsFiniteSet(UsesBy(c)) /\ Cardinality(UsesBy(c)) \in Nat
    <3>1. \A c \in Customers : UsesBy(c) \subseteq Uses
      BY DEF UsesBy
    <3>2. \A c \in Customers : IsFiniteSet(UsesBy(c))
      BY <1>0, <3>1, FS_Subset
    <3> QED
      BY <1>0, <3>2, FS_CardinalityType, CheckoutConstants
  <2>1. CASE Uses' \subseteq Uses
    <3>1. IsFiniteSet(Uses') /\ Cardinality(Uses') <= Cardinality(Uses) /\ Cardinality(Uses') \in Nat
      BY <1>0, <2>1, FS_Subset, FS_CardinalityType
    <3>2. ASSUME NEW c \in Customers PROVE Cardinality(UsesBy(c)') <= MaxUsesPerCustomer
      <4>1. UsesBy(c)' \subseteq UsesBy(c)
        BY <2>1 DEF UsesBy
      <4>2. Cardinality(UsesBy(c)') <= Cardinality(UsesBy(c)) /\ IsFiniteSet(UsesBy(c)')
        BY <2>0, <4>1, FS_Subset
      <4>3. Cardinality(UsesBy(c)') \in Nat
        BY <4>2, FS_CardinalityType
      <4> QED
        BY <1>0, <2>0, <4>2, <4>3
    <3> QED
      BY <1>0, <2>0, <3>1, <3>2
  <2>2. ASSUME NEW o \in Orders \ Uses, Uses' = Uses \cup {o},
               Cardinality(Uses) < MaxTotalUses,
               Cardinality(UsesBy(CustomerOf[o])) < MaxUsesPerCustomer
        PROVE  /\ IsFiniteSet(Uses') /\ Cardinality(Uses') <= MaxTotalUses
               /\ \A c \in Customers : Cardinality(UsesBy(c)') <= MaxUsesPerCustomer
    <3>1. IsFiniteSet(Uses') /\ Cardinality(Uses') = Cardinality(Uses) + 1
      BY <1>0, <2>2, FS_AddElement
    <3>2. ASSUME NEW c \in Customers PROVE Cardinality(UsesBy(c)') <= MaxUsesPerCustomer
      <4>1. CASE CustomerOf[o] = c
        <5>1. UsesBy(c)' = UsesBy(c) \cup {o} /\ o \notin UsesBy(c)
          BY <2>2, <4>1 DEF UsesBy
        <5>2. Cardinality(UsesBy(c)') = Cardinality(UsesBy(c)) + 1
          BY <2>0, <5>1, FS_AddElement
        <5> QED
          BY <2>0, <2>2, <4>1, <5>2
      <4>2. CASE CustomerOf[o] # c
        <5>1. UsesBy(c)' = UsesBy(c)
          BY <2>2, <4>2 DEF UsesBy
        <5> QED
          BY <1>0, <5>1
      <4> QED
        BY <4>1, <4>2
    <3> QED
      BY <2>0, <2>2, <3>1, <3>2
  <2> QED
    BY <1>0, <2>1, <2>2, UsesMove
<1> QED
  BY <1>1, <1>2, <1>3 DEF CountInv

\* What is counted adds up: no counted unit is created or lost, the code keeps its
\* limit in all and its limit per customer, and a use of it follows its order.
THEOREM CountsKept == Spec => []CountsAreKept
<1>1. IInv /\ CountInv /\ [Next]_vars => CountInv'
  BY NextCounts
<1> QED
  BY <1>1, InitCounts, CountInvIsEnough, Inductive, PTL DEF Spec

-----------------------------------------------------------------------------
(* Refinement of the order lifecycle *)

\* Every checkout transaction moves an order along the table of legal moves.
THEOREM LifecycleRefined == Spec => ImplementsLifecycle
<1> USE DEF Lifecycle!LifecycleNext, Lifecycle!Insert, Lifecycle!TransitionOrder,
            Lifecycle!Allowed
<1>1. Init => Lifecycle!LifecycleInit
  BY DEF Init, Lifecycle!LifecycleInit
<1>2. IInv /\ [Next]_vars => [Lifecycle!LifecycleNext]_status
  <2> SUFFICES ASSUME IInv, [Next]_vars
               PROVE  UNCHANGED status \/ Lifecycle!LifecycleNext
    OBVIOUS
  <2> USE DEF TransitionOrder
  <2>t. TypeOK /\ Money
    BY DEF IInv
  <2>1. CASE UNCHANGED vars
    BY <2>1 DEF vars
  <2>2. ASSUME NEW o \in Orders, BuyNow(o) PROVE Lifecycle!LifecycleNext
    BY <2>2 DEF BuyNow
  <2>3. ASSUME NEW o \in Orders, PresentPayment(o) \/ TimePasses(o) PROVE UNCHANGED status
    BY <2>3 DEF PresentPayment, TimePasses
  <2>m. ASSUME NEW o \in Orders, status[o] = "PENDING_PAYMENT",
               NEW to \in {"PAID", "CANCELLED", "EXPIRED", "PAYMENT_NEEDS_REVIEW"},
               status' = [status EXCEPT ![o] = to]
        PROVE  Lifecycle!LifecycleNext
    <3>1. status[o] # "ABSENT" /\ to \in Lifecycle!Allowed[status[o]]
      BY <2>m
    <3> QED
      BY <2>m, <3>1
  <2>4. ASSUME NEW o \in Orders, CancelUnpaidOrder(o) PROVE Lifecycle!LifecycleNext
    BY <2>4, <2>m DEF CancelUnpaidOrder, IsCancellableByCustomer
  <2>5. ASSUME NEW o \in Orders, RecoverExpiredOrder(o) PROVE Lifecycle!LifecycleNext
    BY <2>5, <2>m DEF RecoverExpiredOrder, IsExpirable
  <2>6. ASSUME NEW o \in Orders, WalletPurchase(o) PROVE Lifecycle!LifecycleNext
    BY <2>6, <2>m DEF WalletPurchase
  <2>7. ASSUME NEW a \in Assets, RecoverStaleReservation(a) PROVE UNCHANGED status
    BY <2>7 DEF RecoverStaleReservation
  <2>8. ASSUME NEW t \in Transfers, Settle(t) PROVE Lifecycle!LifecycleNext
    <3>1. payee[t] \in Orders
      BY <2>8, <2>t DEF Settle, TypeOK
    <3>2. status[payee[t]] = "PENDING_PAYMENT"
      BY <2>8, <2>t, <3>1 DEF Settle, Matches, Money, LiveIntentOnlyWhileUnpaid
    <3> QED BY <2>8, <2>m, <3>1, <3>2 DEF Settle
  <2>9. ASSUME NEW t \in Transfers, RecordDiscrepancy(t)
        PROVE  UNCHANGED status \/ Lifecycle!LifecycleNext
    <3> PICK o \in Orders : o = payee[t]
      BY <2>9, <2>t DEF RecordDiscrepancy, TypeOK
    <3>1. status' = [status EXCEPT ![o] = IF status[o] = "PENDING_PAYMENT"
                                          THEN "PAYMENT_NEEDS_REVIEW" ELSE status[o]]
      BY <2>9 DEF RecordDiscrepancy
    <3>2. CASE status[o] = "PENDING_PAYMENT"
      <4>1. status' = [status EXCEPT ![o] = "PAYMENT_NEEDS_REVIEW"]
        BY <3>1, <3>2
      <4> QED BY <2>m, <3>2, <4>1
    <3>3. CASE status[o] # "PENDING_PAYMENT"
      BY <3>1, <3>3, <2>t DEF TypeOK
    <3> QED BY <3>2, <3>3
  <2>10. ASSUME NEW t \in Transfers, NEW o \in Orders, NEW amt \in {"EXACT", "UNDER", "OVER"},
                NEW isLate \in BOOLEAN, MakeTransfer(t, o, amt, isLate)
         PROVE UNCHANGED status
    BY <2>10 DEF MakeTransfer
  <2> QED
    BY <2>1, <2>2, <2>3, <2>4, <2>5, <2>6, <2>7, <2>8, <2>9, <2>10
       DEF Next, ApplyPaymentEvidence
<1> QED
  BY <1>1, <1>2, Inductive, PTL DEF Spec, ImplementsLifecycle, Lifecycle!LifecycleSpec
=============================================================================
