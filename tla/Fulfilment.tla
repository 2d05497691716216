----------------------------- MODULE Fulfilment -----------------------------
(***************************************************************************)
(* From PAID to COMPLETED for orders delivered from stock: the outbox      *)
(* handlers that claim a unit, issue its delivery bundle and queue its     *)
(* message, each step its own transaction after an unlocked read of the    *)
(* order; the message, the buyer's link, the recovery lane and the owner.  *)
(* DeliveryHandoff has the inside of one bundle's message; here it is the  *)
(* handoff's progress only.                                                *)
(***************************************************************************)
EXTENDS Naturals

CONSTANTS
  Orders,
  Assets,      \* digital_asset rows of the variant
  Runs,        \* handler runs that may overlap: drains of several processes
  MaxBundles,  \* bound: bundles issued
  MaxCrashes,  \* bound: handler runs that die or throw, Unlimited for none
  Unlimited

None == "none"

ASSUME FulfilmentConstants ==
  /\ None \notin Orders \cup Assets
  /\ MaxBundles \in Nat /\ MaxCrashes \in Nat \cup {Unlimited}

BundleIds == 1 .. MaxBundles

VARIABLES
  status,       \* "order".status, from its payment on
  unit,         \* digital_asset.status
  reservedFor,  \* digital_asset.reserved_order_id
  deliveredTo,  \* digital_asset.delivered_order_id
  issued,       \* bundles inserted so far: their ids, in order of creation
  bundleOf,     \* delivery_bundle.order_id
  assetOf,      \* delivery_bundle.asset_id
  bundle,       \* delivery_bundle.status
  ttlOver,      \* delivery_bundle.expires_at has passed
  note,         \* the bundle's handoff: None, "QUEUED", "REVEALED", "SENT" or "FINAL"
  pending,      \* unpublished events: <<o, 0>> is OrderPaid, <<o, b>> the
                \* DeliveryBundleCreated of b
  step,         \* step[r]: the transaction a handler run reaches next
  event,        \* event[r]: the event it handles
  seen,         \* seen[r]: the status its first, unlocked read returned
  claimed,      \* claimed[r]: the unit its claim returned
  reached,      \* reached[r]: the bundle its issue returned
  disclosed,    \* <<u, o>>: the credential of u was sent or shown to o's buyer
  crashes

unitVars == <<unit, reservedFor, deliveredTo>>
bundleVars == <<issued, bundleOf, assetOf, bundle, ttlOver>>
runVars == <<step, event, seen, claimed, reached>>
vars == <<status, unitVars, bundleVars, note, pending, runVars, disclosed, crashes>>

Payable == {"PAID", "PROCESSING", "COMPLETED"}
Events == Orders \X (0 .. MaxBundles)
NoEvent == <<None, 0>>

TypeOK ==
  /\ status \in [Orders -> Payable \cup {"FULFILLMENT_NEEDS_REVIEW"}]
  /\ unit \in [Assets -> {"AVAILABLE", "RESERVED", "READY", "DELIVERED"}]
  /\ reservedFor \in [Assets -> Orders \cup {None}]
  /\ \A u \in Assets : reservedFor[u] = None <=> unit[u] = "AVAILABLE"
  /\ deliveredTo \in [Assets -> Orders \cup {None}]
  /\ issued \in 0 .. MaxBundles
  /\ bundleOf \in [BundleIds -> Orders \cup {None}]
  /\ assetOf \in [BundleIds -> Assets \cup {None}]
  /\ bundle \in [BundleIds -> {None, "AVAILABLE", "VIEWED", "CONSUMED", "EXPIRED"}]
  /\ \A b \in BundleIds :
       /\ b <= issued <=> bundle[b] # None
       /\ b <= issued <=> bundleOf[b] # None
       /\ b <= issued <=> assetOf[b] # None
  /\ ttlOver \in [BundleIds -> BOOLEAN]
  /\ note \in [BundleIds -> {None, "QUEUED", "REVEALED", "SENT", "FINAL"}]
  /\ pending \subseteq Events
  /\ step \in [Runs -> {"idle", "load", "claim", "issue", "progress", "handoff"}]
  /\ event \in [Runs -> Events \cup {NoEvent}]
  /\ \A r \in Runs : step[r] # "idle" => event[r] # NoEvent
  /\ seen \in [Runs -> Payable \cup {None}]
  /\ claimed \in [Runs -> Assets \cup {None}]
  /\ reached \in [Runs -> 0 .. MaxBundles]
  /\ disclosed \subseteq Assets \X Orders
  /\ crashes \in Nat

\* Every order is just paid.  The unit its checkout reserved is still held, or
\* the sweep has freed it already.
Init ==
  /\ status = [o \in Orders |-> "PAID"]
  /\ reservedFor \in {f \in [Assets -> Orders \cup {None}] :
       \A u, v \in Assets : f[u] = f[v] /\ f[u] # None => u = v}
  /\ unit = [u \in Assets |-> IF reservedFor[u] = None THEN "AVAILABLE" ELSE "RESERVED"]
  /\ deliveredTo = [u \in Assets |-> None]
  /\ issued = 0
  /\ bundleOf = [b \in BundleIds |-> None] /\ assetOf = [b \in BundleIds |-> None]
  /\ bundle = [b \in BundleIds |-> None] /\ ttlOver = [b \in BundleIds |-> FALSE]
  /\ note = [b \in BundleIds |-> None]
  /\ pending = {<<o, 0>> : o \in Orders}
  /\ step = [r \in Runs |-> "idle"] /\ event = [r \in Runs |-> NoEvent]
  /\ seen = [r \in Runs |-> None] /\ claimed = [r \in Runs |-> None]
  /\ reached = [r \in Runs |-> 0]
  /\ disclosed = {} /\ crashes = 0

-----------------------------------------------------------------------------
(* A handler run of OrderPaid or DeliveryBundleCreated.                     *)

Of(r) == event[r][1]
Goto(r, s) == step' = [step EXCEPT ![r] = s] /\ UNCHANGED event

\* The run ends and its locals with it.
Idle(r) ==
  /\ step' = [step EXCEPT ![r] = "idle"] /\ event' = [event EXCEPT ![r] = NoEvent]
  /\ seen' = [seen EXCEPT ![r] = None] /\ claimed' = [claimed EXCEPT ![r] = None]
  /\ reached' = [reached EXCEPT ![r] = 0]

\* The event is taken up in the given status.
Loaded(r, e) ==
  /\ step' = [step EXCEPT ![r] = "claim"]
  /\ event' = [event EXCEPT ![r] = e]
  /\ seen' = [seen EXCEPT ![r] = status[e[1]]]

\* Events reach fulfillPaidOrder at once, but OrderPaid by way of queueFileDelivery.
Reaches(r, e) ==
  \/ step[r] = "idle" /\ e \in pending /\ e[2] # 0
  \/ step[r] = "load" /\ e = event[r]

\* The event is parked for review.
Park(r, e) ==
  pending' = pending \ {e} /\ Idle(r)

\* queueFileDelivery's read, under the order's lock: these orders are not of
\* files, and one that is not being fulfilled parks its OrderPaid.
QueueFile(r, e) ==
  /\ step[r] = "idle" /\ e \in pending /\ e[2] = 0
  /\ IF status[e[1]] \in {"PAID", "PROCESSING"}
     THEN /\ step' = [step EXCEPT ![r] = "load"] /\ event' = [event EXCEPT ![r] = e]
          /\ UNCHANGED <<pending, seen, claimed, reached>>
     ELSE Park(r, e)
  /\ UNCHANGED <<status, unitVars, bundleVars, note, disclosed, crashes>>

\* Mutant: the event is acked before the work is done.
LoadAndAck(r, e) ==
  /\ Reaches(r, e) /\ status[e[1]] \in Payable
  /\ Loaded(r, e) /\ pending' = pending \ {e}
  /\ UNCHANGED <<status, unitVars, bundleVars, note, claimed, reached, disclosed, crashes>>

\* fulfillPaidOrder's read, without a lock.
LoadOrder(r, e) ==
  /\ Reaches(r, e)
  /\ IF status[e[1]] \in Payable
     THEN Loaded(r, e) /\ UNCHANGED <<pending, claimed, reached>>
     ELSE Park(r, e)
  /\ UNCHANGED <<status, unitVars, bundleVars, note, disclosed, crashes>>

HeldBy(o) == {u \in Assets : reservedFor[u] = o /\ unit[u] \in {"RESERVED", "READY"}}
Free == {u \in Assets : unit[u] = "AVAILABLE"}

\* Mutant: any unit that is not delivered may be claimed.
ClaimableUndelivered(o) == {u \in Assets : unit[u] # "DELIVERED"}

Claimable(o) == IF HeldBy(o) # {} THEN HeldBy(o) ELSE Free

\* The claim and the promotion to READY commit together; nothing reads the
\* expiry of a READY unit's hold.  Without a unit the
\* run ends and the event is retried.
ClaimAsset(r) ==
  /\ step[r] = "claim"
  /\ \/ \E u \in Claimable(Of(r)) :
          /\ unit' = [unit EXCEPT ![u] = "READY"]
          /\ reservedFor' = [reservedFor EXCEPT ![u] = Of(r)]
          /\ claimed' = [claimed EXCEPT ![r] = u]
          /\ Goto(r, "issue") /\ UNCHANGED <<seen, reached>>
     \/ /\ Claimable(Of(r)) = {}
        /\ Idle(r) /\ UNCHANGED <<unit, reservedFor>>
  /\ UNCHANGED <<status, deliveredTo, bundleVars, note, pending, disclosed, crashes>>

IsOpen(b) == bundle[b] \in {"AVAILABLE", "VIEWED"}
OpenBundles(o) == {b \in BundleIds : bundleOf[b] = o /\ IsOpen(b)}

\* Mutant: the unit's status is not looked at again.
DeliverableIfReserved(u, o) == reservedFor[u] = o

IsDeliverable(u, o) == reservedFor[u] = o /\ unit[u] \in {"RESERVED", "READY"}

\* The run has its bundle and is done with its unit.
Issued(r, b) ==
  /\ reached' = [reached EXCEPT ![r] = b] /\ claimed' = [claimed EXCEPT ![r] = None]
  /\ Goto(r, "progress") /\ UNCHANGED seen

\* issueDeliveryBundle: reuse the active bundle unless it lapsed unviewed,
\* which expires it; then a new one for the claimed unit, if it is still ours.
IssueBundle(r) ==
  LET o == Of(r)
      reusable == {b \in OpenBundles(o) : bundle[b] = "VIEWED" \/ ~ttlOver[b]}
      expired == [b \in BundleIds |-> IF b \in OpenBundles(o) THEN "EXPIRED" ELSE bundle[b]]
      new == issued + 1
  IN
  /\ step[r] = "issue"
  /\ \/ \E b \in reusable :
          /\ Issued(r, b)
          /\ UNCHANGED <<bundleVars, pending>>
     \/ /\ reusable = {} /\ IsDeliverable(claimed[r], o) /\ issued < MaxBundles
        /\ issued' = new
        /\ bundleOf' = [bundleOf EXCEPT ![new] = o]
        /\ assetOf' = [assetOf EXCEPT ![new] = claimed[r]]
        /\ bundle' = [expired EXCEPT ![new] = "AVAILABLE"]
        /\ pending' = pending \cup {<<o, new>>}
        /\ Issued(r, new)
        /\ UNCHANGED ttlOver
     \/ /\ reusable = {} /\ ~IsDeliverable(claimed[r], o)
        /\ bundle' = expired
        /\ Idle(r)
        /\ UNCHANGED <<issued, bundleOf, assetOf, ttlOver, pending>>
  /\ UNCHANGED <<status, unitVars, note, disclosed, crashes>>

\* PAID -> PROCESSING, if the first read and a second one both saw PAID.
StartProcessing(r) ==
  /\ step[r] = "progress"
  /\ status' = IF seen[r] = "PAID" /\ status[Of(r)] = "PAID"
               THEN [status EXCEPT ![Of(r)] = "PROCESSING"] ELSE status
  /\ seen' = [seen EXCEPT ![r] = None]
  /\ Goto(r, "handoff")
  /\ UNCHANGED <<unitVars, bundleVars, note, pending, claimed, reached, disclosed, crashes>>

\* Mutant: the message is queued anew, whatever it has come to.
RequeueHandoff(r) ==
  LET b == reached[r] IN
  /\ step[r] = "handoff"
  /\ IF IsOpen(b) /\ ~ttlOver[b]
     THEN note' = [note EXCEPT ![b] = "QUEUED"] /\ pending' = pending \ {event[r]}
     ELSE UNCHANGED <<note, pending>>
  /\ Idle(r)
  /\ UNCHANGED <<status, unitVars, bundleVars, disclosed, crashes>>

\* createDeliveryNotificationHandoff, and the ack.  It throws for a bundle that
\* is not live, and the event is retried.
QueueHandoff(r) ==
  LET b == reached[r] IN
  /\ step[r] = "handoff"
  /\ IF IsOpen(b) /\ ~ttlOver[b]
     THEN /\ note' = [note EXCEPT ![b] = IF @ = None THEN "QUEUED" ELSE @]
          /\ pending' = pending \ {event[r]}
     ELSE UNCHANGED <<note, pending>>
  /\ Idle(r)
  /\ UNCHANGED <<status, unitVars, bundleVars, disclosed, crashes>>

\* The process dies or a statement throws: the event is handled again.
RunDies(r) ==
  /\ step[r] # "idle" /\ Idle(r)
  /\ IF MaxCrashes = Unlimited THEN UNCHANGED crashes
     ELSE crashes < MaxCrashes /\ crashes' = crashes + 1
  /\ UNCHANGED <<status, unitVars, bundleVars, note, pending, disclosed>>

RunStep(r) ==
  ClaimAsset(r) \/ IssueBundle(r) \/ StartProcessing(r) \/ QueueHandoff(r)

-----------------------------------------------------------------------------
(* The message of a bundle, and what ends it.                               *)

Disclose(b) == disclosed' = disclosed \cup {<<assetOf[b], bundleOf[b]>>}

\* A lane that holds the row reveals the secret while the bundle is live; a row
\* that it releases or gives up waits like any other.
RevealSecret(b) ==
  /\ note[b] = "QUEUED" /\ IsOpen(b) /\ ~ttlOver[b]
  /\ bundle' = [bundle EXCEPT ![b] = "VIEWED"]
  /\ note' = [note EXCEPT ![b] = "REVEALED"]
  /\ UNCHANGED <<status, unitVars, issued, bundleOf, assetOf, ttlOver, pending,
                 runVars, disclosed, crashes>>

\* The attempt is marked after the Vault read and the message sent, whatever became
\* of the bundle meanwhile.
SendCredential(b) ==
  /\ note[b] = "REVEALED"
  /\ note' = [note EXCEPT ![b] = "SENT"]
  /\ Disclose(b)
  /\ UNCHANGED <<status, unitVars, bundleVars, pending, runVars, crashes>>

IsLatest(b) == \A c \in BundleIds : bundleOf[c] = bundleOf[b] => c <= b
IsFirstDelivery(o) ==
  /\ \A u \in Assets : ~(unit[u] = "DELIVERED" /\ deliveredTo[u] = o)
  /\ \A c \in BundleIds : bundleOf[c] = o => bundle[c] # "CONSUMED"

\* Mutant: the unit is left READY.
CloseBundleOnly(b) ==
  /\ bundle' = [bundle EXCEPT ![b] = "CONSUMED"]
  /\ UNCHANGED <<unitVars, issued, bundleOf, assetOf, ttlOver>>

CloseDelivery(b) ==
  /\ bundle' = [bundle EXCEPT ![b] = "CONSUMED"]
  /\ unit' = [unit EXCEPT ![assetOf[b]] = "DELIVERED"]
  /\ deliveredTo' = [deliveredTo EXCEPT ![assetOf[b]] = bundleOf[b]]
  /\ UNCHANGED <<reservedFor, issued, bundleOf, assetOf, ttlOver>>

\* reconcilePaidDeliveryDeliveredInTransaction, by the worker on a PROCESSING
\* order or by the owner on one under review.
FinalizeDelivery(b, from) ==
  LET o == bundleOf[b] IN
  /\ status[o] = from
  /\ IsLatest(b) /\ IsFirstDelivery(o)
  /\ unit[assetOf[b]] = "READY" /\ reservedFor[assetOf[b]] = o
  /\ CloseDelivery(b)
  /\ status' = [status EXCEPT ![o] = "COMPLETED"]
  /\ note' = [note EXCEPT ![b] = "FINAL"]
  /\ UNCHANGED <<pending, runVars, disclosed, crashes>>

Finalize(b) == note[b] = "SENT" /\ FinalizeDelivery(b, "PROCESSING")

ReconcileDelivered(b) ==
  /\ note[b] = "FINAL" /\ bundle[b] = "EXPIRED"
  /\ <<assetOf[b], bundleOf[b]>> \in disclosed
  /\ FinalizeDelivery(b, "FULFILLMENT_NEEDS_REVIEW")

Parkable == {"PROCESSING", "FULFILLMENT_NEEDS_REVIEW"}

\* parkPaidDeliveryUncertainInTransaction.
ParkUncertain(b) ==
  /\ note[b] = "SENT" /\ status[bundleOf[b]] \in Parkable
  /\ status' = [status EXCEPT ![bundleOf[b]] = "FULFILLMENT_NEEDS_REVIEW"]
  /\ note' = [note EXCEPT ![b] = "FINAL"]
  /\ UNCHANGED <<unitVars, bundleVars, pending, runVars, disclosed, crashes>>

\* openTelegramDeliveryHandoff: the legacy link, once its capability exists.  The
\* expiry is asked when the secret is revealed, and not again when it is consumed.
OpenLink(b) ==
  /\ note[b] # None /\ IsOpen(b) /\ (bundle[b] = "VIEWED" \/ ~ttlOver[b])
  /\ CloseDelivery(b) /\ Disclose(b)
  /\ status' = [status EXCEPT ![bundleOf[b]] = IF @ = "PROCESSING" THEN "COMPLETED" ELSE @]
  /\ UNCHANGED <<note, pending, runVars, crashes>>

BundleLapses(b) ==
  /\ IsOpen(b) /\ ~ttlOver[b]
  /\ ttlOver' = [ttlOver EXCEPT ![b] = TRUE]
  /\ UNCHANGED <<status, unitVars, issued, bundleOf, assetOf, bundle, note,
                 pending, runVars, disclosed, crashes>>

RecoverExpiredBundle(b) ==
  /\ IsOpen(b) /\ ttlOver[b]
  /\ bundle' = [bundle EXCEPT ![b] = "EXPIRED"]
  /\ UNCHANGED <<status, unitVars, issued, bundleOf, assetOf, ttlOver, note,
                 pending, runVars, disclosed, crashes>>

\* recoverStaleReservationsBatch asks the unit, not the order.  Nothing else here
\* reads reserved_until, so it may have passed whenever the sweep looks.
IsStaleHold(u) == unit[u] = "RESERVED"

\* Mutant: reserved_order_id is left behind.
FreeKeepingOwner(u) ==
  /\ IsStaleHold(u)
  /\ unit' = [unit EXCEPT ![u] = "AVAILABLE"]
  /\ UNCHANGED <<status, reservedFor, deliveredTo, bundleVars, note,
                 pending, runVars, disclosed, crashes>>

RecoverStaleReservation(u) ==
  /\ IsStaleHold(u)
  /\ unit' = [unit EXCEPT ![u] = "AVAILABLE"]
  /\ reservedFor' = [reservedFor EXCEPT ![u] = None]
  /\ UNCHANGED <<status, deliveredTo, bundleVars, note, pending, runVars,
                 disclosed, crashes>>

Next ==
  \/ \E r \in Runs : RunStep(r) \/ RunDies(r)
       \/ \E e \in Events : QueueFile(r, e) \/ LoadOrder(r, e)
  \/ \E b \in BundleIds :
       \/ RevealSecret(b) \/ SendCredential(b) \/ Finalize(b) \/ ParkUncertain(b)
       \/ OpenLink(b) \/ ReconcileDelivered(b) \/ BundleLapses(b) \/ RecoverExpiredBundle(b)
  \/ \E u \in Assets : RecoverStaleReservation(u)

Spec == Init /\ [][Next]_vars

\* Every pending event is claimed again until it is acked (Outbox), and a run
\* that does not die goes on.
Fairness ==
  \A r \in Runs :
    /\ WF_vars(RunStep(r))
    /\ \A e \in Events : WF_vars(QueueFile(r, e)) /\ WF_vars(LoadOrder(r, e))

FairSpec == Spec /\ Fairness

-----------------------------------------------------------------------------
\* A credential one buyer has seen is never another's, nor is its unit for sale
\* again, however runs, sweeps and crashes interleave.
SoldOnce ==
  \A d \in disclosed :
    /\ unit[d[1]] \in {"READY", "DELIVERED"} /\ reservedFor[d[1]] = d[2]
    /\ \A e \in disclosed : d[1] = e[1] => d = e

\* What the buyer can open is there: an open bundle's unit is READY and held
\* for its order, and no other open bundle of that order or unit exists.
OpenBundlesAreBacked ==
  \A b \in BundleIds : IsOpen(b) =>
    /\ unit[assetOf[b]] = "READY" /\ reservedFor[assetOf[b]] = bundleOf[b]
    /\ \A c \in BundleIds : IsOpen(c) /\ c # b =>
         bundleOf[c] # bundleOf[b] /\ assetOf[c] # assetOf[b]

\* An order is COMPLETED only when its buyer has the credential of a unit that
\* is DELIVERED to it.
CompletedIsDelivered ==
  \A o \in Orders : status[o] = "COMPLETED" =>
    \E u \in Assets : unit[u] = "DELIVERED" /\ deliveredTo[u] = o /\ <<u, o>> \in disclosed

\* Fulfilment moves orders along the table of legal transitions only.
ImplementsLifecycle == INSTANCE OrderLifecycle
LifecycleSteps == ImplementsLifecycle!LifecycleSpec

\* What the contract speaks of, for one bundle; a message that is only revealed is not
\* attempted yet.
OrderOf(b) == IF b <= issued THEN status[bundleOf[b]] ELSE None
UnitOf(b) == IF b <= issued THEN unit[assetOf[b]] ELSE None
Progress(b) ==
  CASE note[b] \in {"QUEUED", "REVEALED"} -> "QUEUED"
    [] note[b] = "SENT" -> "ATTEMPTED"
    [] note[b] = "FINAL" -> "OVER"
    [] note[b] = None -> None

Bundle(b) == INSTANCE DeliveryContract WITH
  order <- OrderOf(b), unit <- UnitOf(b), bundle <- bundle[b], ttlOver <- ttlOver[b],
  note <- Progress(b), Alone <- FALSE

\* The step changes what the contract sees of b.
Sees(b) == Bundle(b)!contractVars' # Bundle(b)!contractVars

\* To each of its bundles fulfilment is the delivery contract that DeliveryHandoff
\* implements from the inside, whatever becomes of the order's other bundles.
BundlesKeepContract ==
  /\ \A b \in BundleIds : Bundle(b)!ContractInit
  /\ [][\A b \in BundleIds : Sees(b) => Bundle(b)!ContractNext]_vars

\* "Every step is idempotent on its unique-effect key": a buyer is given the
\* credential of one unit per order.
OneUnitPerOrder == \A d, e \in disclosed : d[2] = e[2] => d = e

\* "Post-payment fulfillment upgrades the same reservation rather than claiming
\* a second asset": a paid order keeps the unit its checkout reserved.
PaidHoldIsKept ==
  [][\A u \in Assets : reservedFor[u] # None => reservedFor'[u] = reservedFor[u]]_vars

\* A paid order in stock is taken up, though handler runs die.
PaidOrderStarts == \A o \in Orders : status[o] = "PAID" ~> status[o] # "PAID"
=============================================================================
