-------------------------- MODULE FulfilmentProofs --------------------------
(***************************************************************************)
(* One unit per buyer and a delivery behind every COMPLETED order, for any *)
(* number of orders, units, handler runs and crashes.  The argument: a     *)
(* unit once READY or DELIVERED never changes hands; an open bundle is the *)
(* latest of its order and about such a unit; so what a buyer is shown is  *)
(* held for him at that moment and ever after.                             *)
(***************************************************************************)
EXTENDS Fulfilment, TLAPS

IsKept(u) == unit[u] \in {"READY", "DELIVERED"}

\* A run between its claim and its issue still has the unit it claimed, and
\* after the issue it has a bundle.
RunsHaveTheirs ==
  \A r \in Runs :
    /\ step[r] = "issue" =>
         claimed[r] \in Assets /\ IsKept(claimed[r]) /\ reservedFor[claimed[r]] = Of(r)
    /\ step[r] \in {"progress", "handoff"} => reached[r] \in 1 .. issued

\* An open bundle is backed and is the latest of its order.
OpenIsLatest ==
  \A b \in BundleIds : IsOpen(b) =>
    /\ unit[assetOf[b]] = "READY" /\ reservedFor[assetOf[b]] = bundleOf[b]
    /\ IsLatest(b)

\* A message is about an issued bundle, and a sent one was seen.
SentIsDisclosed ==
  \A b \in BundleIds :
    /\ note[b] # None => b <= issued
    /\ note[b] = "SENT" => <<assetOf[b], bundleOf[b]>> \in disclosed

\* A bundle's unit is its order's for good, though the bundle may be over.
IssuedIsKept ==
  \A b \in BundleIds : b <= issued =>
    IsKept(assetOf[b]) /\ reservedFor[assetOf[b]] = bundleOf[b]

\* A revealed secret is one of a bundle that was live, and what is not issued has not
\* lapsed.
RevealedIsViewed ==
  \A b \in BundleIds :
    /\ note[b] = "REVEALED" => bundle[b] # "AVAILABLE"
    /\ ~(b <= issued) => ~ttlOver[b]

DisclosedIsHeld ==
  \A d \in disclosed : IsKept(d[1]) /\ reservedFor[d[1]] = d[2]

IInv ==
  /\ TypeOK /\ RunsHaveTheirs /\ OpenIsLatest /\ IssuedIsKept /\ SentIsDisclosed
  /\ RevealedIsViewed /\ DisclosedIsHeld /\ CompletedIsDelivered

-----------------------------------------------------------------------------
(* Type correctness *)

\* An event is about an order, and a run that is not idle has one.
LEMMA EventsAreOfOrders ==
  /\ \A e \in Events : e[1] \in Orders /\ e # NoEvent
  /\ TypeOK => \A r \in Runs : step[r] # "idle" => event[r] \in Events /\ Of(r) \in Orders
<1>1. \A e \in Events : e[1] \in Orders /\ e # NoEvent
  BY FulfilmentConstants DEF Events, NoEvent
<1> QED
  BY <1>1 DEF TypeOK, Of

\* What is issued has an order and a unit, what is not has nothing, and only
\* what is issued is ever open.
LEMMA IssuedBundles ==
  ASSUME TypeOK, NEW b \in BundleIds
  PROVE  /\ b <= issued => bundleOf[b] \in Orders /\ assetOf[b] \in Assets
         /\ IsOpen(b) => b <= issued /\ bundleOf[b] \in Orders /\ assetOf[b] \in Assets
<1>1. b <= issued => bundleOf[b] \in Orders /\ assetOf[b] \in Assets
  BY DEF TypeOK
<1>2. bundle[b] # None => b <= issued
  BY DEF TypeOK
<1> QED
  BY <1>1, <1>2 DEF IsOpen, None

LEMMA InitType == Init => TypeOK
  BY FulfilmentConstants DEF Init, TypeOK, Events, NoEvent, Payable, BundleIds, None

\* A bundle that is issued or closes keeps the ids of the issued ones apart.
LEMMA NextType == TypeOK /\ RunsHaveTheirs /\ OpenIsLatest /\ SentIsDisclosed /\ [Next]_vars => TypeOK'
<1> SUFFICES ASSUME TypeOK, RunsHaveTheirs, OpenIsLatest, SentIsDisclosed, [Next]_vars PROVE TypeOK'
  OBVIOUS
<1> USE FulfilmentConstants DEF TypeOK, unitVars, bundleVars, runVars
<1>0. ASSUME UNCHANGED vars PROVE TypeOK'
  BY <1>0 DEF vars
<1>1. ASSUME NEW r \in Runs, NEW e \in Events, QueueFile(r, e) PROVE TypeOK'
  BY <1>1, EventsAreOfOrders DEF QueueFile, Park, Idle
<1>2. ASSUME NEW r \in Runs, NEW e \in Events, LoadOrder(r, e) PROVE TypeOK'
  BY <1>2, EventsAreOfOrders DEF LoadOrder, Reaches, Loaded, Park, Idle
<1>3. ASSUME NEW r \in Runs, ClaimAsset(r) PROVE TypeOK'
  BY <1>3, EventsAreOfOrders, SMTT(30) DEF ClaimAsset, Claimable, HeldBy, Free, Goto, Idle
<1>4. ASSUME NEW r \in Runs, IssueBundle(r) PROVE TypeOK'
  <2> DEFINE o == Of(r)
             reusable == {b \in OpenBundles(o) : bundle[b] = "VIEWED" \/ ~ttlOver[b]}
             expired == [b \in BundleIds |-> IF b \in OpenBundles(o) THEN "EXPIRED" ELSE bundle[b]]
             new == issued + 1
  <2>1. o \in Orders /\ claimed[r] \in Assets
    BY <1>4, EventsAreOfOrders DEF IssueBundle, RunsHaveTheirs
  <2>2. /\ expired \in [BundleIds -> {None, "AVAILABLE", "VIEWED", "CONSUMED", "EXPIRED"}]
        /\ \A b \in BundleIds : b <= issued <=> expired[b] # None
    BY IssuedBundles DEF OpenBundles, None
  <2>3. CASE \E b \in reusable : Issued(r, b) /\ UNCHANGED <<bundleVars, pending>>
    BY <1>4, <2>3 DEF IssueBundle, OpenBundles, BundleIds, Issued, Goto
  <2>4. CASE /\ issued < MaxBundles /\ issued' = new
             /\ bundleOf' = [bundleOf EXCEPT ![new] = o]
             /\ assetOf' = [assetOf EXCEPT ![new] = claimed[r]]
             /\ bundle' = [expired EXCEPT ![new] = "AVAILABLE"]
             /\ pending' = pending \cup {<<o, new>>}
             /\ Issued(r, new) /\ UNCHANGED ttlOver
    <3> HIDE DEF o, expired
    <3>1. new \in BundleIds /\ new \in 0 .. MaxBundles /\ <<o, new>> \in Events
      BY <2>1, <2>4 DEF BundleIds, Events
    <3>2. \A b \in BundleIds :
            b <= issued' <=> b <= issued \/ b = new
      BY <2>4 DEF BundleIds
    <3>3. \A b \in BundleIds :
            /\ b <= issued' <=> bundle'[b] # None
            /\ b <= issued' <=> bundleOf'[b] # None
            /\ b <= issued' <=> assetOf'[b] # None
      BY <2>1, <2>2, <2>4, <3>1, <3>2 DEF None
    <3>4. UNCHANGED <<status, unitVars, note, disclosed, crashes>>
      BY <1>4 DEF IssueBundle
    <3>5. /\ step' \in [Runs -> {"idle", "load", "claim", "issue", "progress", "handoff"}]
          /\ \A q \in Runs : step'[q] # "idle" => event'[q] # NoEvent
          /\ event' = event /\ seen' = seen
          /\ claimed' \in [Runs -> Assets \cup {None}] /\ reached' \in [Runs -> 0 .. MaxBundles]
      BY <1>4, <2>4, <3>1 DEF IssueBundle, Issued, Goto
    <3> QED
      BY <2>1, <2>2, <2>4, <3>1, <3>3, <3>4, <3>5
  <2>5. CASE bundle' = expired /\ Idle(r) /\ UNCHANGED <<issued, bundleOf, assetOf, ttlOver, pending>>
    <3> HIDE DEF o, expired
    <3> QED
      BY <1>4, <2>2, <2>5 DEF IssueBundle, Idle
  <2> QED
    BY <1>4, <2>3, <2>4, <2>5 DEF IssueBundle
<1>5. ASSUME NEW r \in Runs, StartProcessing(r) PROVE TypeOK'
  BY <1>5, EventsAreOfOrders DEF StartProcessing, Goto, Payable
<1>6. ASSUME NEW r \in Runs, QueueHandoff(r) PROVE TypeOK'
  BY <1>6 DEF QueueHandoff, Idle
<1>7. ASSUME NEW r \in Runs, RunDies(r) PROVE TypeOK'
  BY <1>7 DEF RunDies, Idle
<1>8. ASSUME NEW b \in BundleIds, SendCredential(b) PROVE TypeOK'
  <2>1. b <= issued /\ <<assetOf[b], bundleOf[b]>> \in Assets \X Orders
    BY <1>8, IssuedBundles DEF SendCredential, SentIsDisclosed, None
  <2> QED
    BY <1>8, <2>1 DEF SendCredential, Disclose, None
<1>9. ASSUME NEW b \in BundleIds, RevealSecret(b) PROVE TypeOK'
  <2>1. b <= issued
    BY <1>9, IssuedBundles DEF RevealSecret
  <2> QED
    BY <1>9, <2>1 DEF RevealSecret, None
<1>10. ASSUME NEW b \in BundleIds, Finalize(b) \/ ReconcileDelivered(b) PROVE TypeOK'
  <2>1. b <= issued /\ bundleOf[b] \in Orders /\ assetOf[b] \in Assets
    BY <1>10, IssuedBundles DEF Finalize, ReconcileDelivered, SentIsDisclosed, None
  <2>2. FinalizeDelivery(b, "PROCESSING") \/ FinalizeDelivery(b, "FULFILLMENT_NEEDS_REVIEW")
    BY <1>10 DEF Finalize, ReconcileDelivered
  <2> QED
    BY <2>1, <2>2 DEF FinalizeDelivery, CloseDelivery, Payable, None
<1>11. ASSUME NEW b \in BundleIds, ParkUncertain(b) PROVE TypeOK'
  BY <1>11 DEF ParkUncertain, Parkable
<1>12. ASSUME NEW b \in BundleIds, OpenLink(b) PROVE TypeOK'
  <2>1. b <= issued /\ bundleOf[b] \in Orders /\ assetOf[b] \in Assets
    BY <1>12, IssuedBundles DEF OpenLink
  <2>2. disclosed' \subseteq Assets \X Orders
    BY <1>12, <2>1 DEF OpenLink, Disclose
  <2>3. status' \in [Orders -> Payable \cup {"FULFILLMENT_NEEDS_REVIEW"}]
    BY <1>12, <2>1 DEF OpenLink, Payable
  <2>4. /\ unit' \in [Assets -> {"AVAILABLE", "RESERVED", "READY", "DELIVERED"}]
        /\ deliveredTo' \in [Assets -> Orders \cup {None}]
        /\ \A u \in Assets : reservedFor'[u] = None <=> unit'[u] = "AVAILABLE"
    <3>1. unit[assetOf[b]] # "AVAILABLE"
      BY <1>12, <2>1 DEF OpenLink, OpenIsLatest
    <3> QED
      BY <1>12, <2>1, <3>1 DEF OpenLink, CloseDelivery
  <2>5. /\ bundle' \in [BundleIds -> {None, "AVAILABLE", "VIEWED", "CONSUMED", "EXPIRED"}]
        /\ \A c \in BundleIds : c <= issued <=> bundle'[c] # None
    BY <1>12, <2>1 DEF OpenLink, CloseDelivery, None
  <2> QED
    BY <1>12, <2>2, <2>3, <2>4, <2>5 DEF OpenLink, CloseDelivery
<1>13. ASSUME NEW b \in BundleIds, BundleLapses(b) PROVE TypeOK'
  BY <1>13 DEF BundleLapses
<1>14. ASSUME NEW b \in BundleIds, RecoverExpiredBundle(b) PROVE TypeOK'
  <2>1. b <= issued
    BY <1>14, IssuedBundles DEF RecoverExpiredBundle
  <2> QED
    BY <1>14, <2>1 DEF RecoverExpiredBundle, None
<1>15. ASSUME NEW u \in Assets, RecoverStaleReservation(u) PROVE TypeOK'
  BY <1>15 DEF RecoverStaleReservation, IsStaleHold
<1> QED
  BY <1>0, <1>1, <1>2, <1>3, <1>4, <1>5, <1>6, <1>7, <1>8, <1>9, <1>10, <1>11, <1>12, <1>13,
     <1>14, <1>15 DEF Next, RunStep

-----------------------------------------------------------------------------
(* What no step undoes *)

\* Issued bundles stay what they are, and a message is only about them.
LEMMA BundlesStay ==
  ASSUME TypeOK, [Next]_vars
  PROVE  /\ issued <= issued'
         /\ \A b \in BundleIds : b <= issued => bundleOf'[b] = bundleOf[b] /\ assetOf'[b] = assetOf[b]
<1> USE DEF TypeOK, unitVars, bundleVars, runVars
<1>1. CASE UNCHANGED <<issued, bundleOf, assetOf>>
  BY <1>1
<1>2. ASSUME NEW r \in Runs, IssueBundle(r)
      PROVE  \/ UNCHANGED <<issued, bundleOf, assetOf>>
             \/ /\ issued' = issued + 1
                /\ bundleOf' = [bundleOf EXCEPT ![issued + 1] = Of(r)]
                /\ assetOf' = [assetOf EXCEPT ![issued + 1] = claimed[r]]
  BY <1>2 DEF IssueBundle
<1>3. \/ UNCHANGED <<issued, bundleOf, assetOf>>
      \/ \E r \in Runs : IssueBundle(r)
  BY ZenonT(60) DEF Next, vars, RunStep, QueueFile, LoadOrder, ClaimAsset, StartProcessing, QueueHandoff,
         RunDies, SendCredential, RevealSecret, Finalize, ReconcileDelivered,
         FinalizeDelivery, CloseDelivery, ParkUncertain, OpenLink, BundleLapses,
         RecoverExpiredBundle, RecoverStaleReservation
<1>4. ASSUME NEW r \in Runs, issued' = issued + 1,
             bundleOf' = [bundleOf EXCEPT ![issued + 1] = Of(r)],
             assetOf' = [assetOf EXCEPT ![issued + 1] = claimed[r]]
      PROVE  /\ issued <= issued'
             /\ \A b \in BundleIds : b <= issued => bundleOf'[b] = bundleOf[b] /\ assetOf'[b] = assetOf[b]
  BY <1>4 DEF BundleIds
<1> QED
  BY <1>1, <1>2, <1>3, <1>4

\* A unit that was made READY for an order never leaves it, and one that is
\* DELIVERED stays so.
LEMMA KeptUnitsStay ==
  ASSUME TypeOK, OpenIsLatest, [Next]_vars, NEW u \in Assets
  PROVE  /\ IsKept(u) => IsKept(u)' /\ reservedFor'[u] = reservedFor[u]
         /\ unit[u] = "DELIVERED" => unit'[u] = "DELIVERED" /\ deliveredTo'[u] = deliveredTo[u]
<1> USE DEF TypeOK, IsKept, unitVars, bundleVars, runVars
<1>1. CASE UNCHANGED unitVars
  BY <1>1
<1>2. ASSUME NEW r \in Runs, ClaimAsset(r)
      PROVE  /\ IsKept(u) => IsKept(u)' /\ reservedFor'[u] = reservedFor[u]
             /\ unit[u] = "DELIVERED" => unit'[u] = "DELIVERED" /\ deliveredTo'[u] = deliveredTo[u]
  BY <1>2 DEF ClaimAsset, Claimable, HeldBy, Free
<1>3. ASSUME NEW b \in BundleIds, CloseDelivery(b), unit[assetOf[b]] = "READY"
      PROVE  /\ IsKept(u) => IsKept(u)' /\ reservedFor'[u] = reservedFor[u]
             /\ unit[u] = "DELIVERED" => unit'[u] = "DELIVERED" /\ deliveredTo'[u] = deliveredTo[u]
  BY <1>3 DEF CloseDelivery
<1>4. ASSUME NEW v \in Assets, RecoverStaleReservation(v)
      PROVE  /\ IsKept(u) => IsKept(u)' /\ reservedFor'[u] = reservedFor[u]
             /\ unit[u] = "DELIVERED" => unit'[u] = "DELIVERED" /\ deliveredTo'[u] = deliveredTo[u]
  BY <1>4 DEF RecoverStaleReservation, IsStaleHold
<1>5. \/ UNCHANGED unitVars
      \/ \E r \in Runs : ClaimAsset(r)
      \/ \E b \in BundleIds : Finalize(b) \/ ReconcileDelivered(b) \/ OpenLink(b)
      \/ \E v \in Assets : RecoverStaleReservation(v)
  BY DEF Next, vars, RunStep, QueueFile, LoadOrder, IssueBundle, StartProcessing, QueueHandoff,
         RunDies, SendCredential, RevealSecret, ParkUncertain, BundleLapses,
         RecoverExpiredBundle
<1>6. ASSUME NEW b \in BundleIds, Finalize(b) \/ ReconcileDelivered(b) \/ OpenLink(b)
      PROVE  CloseDelivery(b) /\ unit[assetOf[b]] = "READY"
  BY <1>6 DEF Finalize, ReconcileDelivered, FinalizeDelivery, OpenLink, OpenIsLatest
<1> QED
  BY <1>1, <1>2, <1>3, <1>4, <1>5, <1>6

-----------------------------------------------------------------------------
(* The invariant's parts *)

\* Between its claim and its issue a run's unit stays its order's: others are
\* claimed only when free or held by their own order.
LEMMA RunsStep ==
  ASSUME TypeOK, RunsHaveTheirs, OpenIsLatest, [Next]_vars, TypeOK'
  PROVE  RunsHaveTheirs'
<1> SUFFICES ASSUME NEW q \in Runs
             PROVE  /\ step'[q] = "issue" =>
                         /\ claimed'[q] \in Assets /\ IsKept(claimed[q])'
                         /\ reservedFor'[claimed'[q]] = Of(q)'
                    /\ step'[q] \in {"progress", "handoff"} => reached'[q] \in 1 .. issued'
  BY DEF RunsHaveTheirs, IsKept
<1> DEFINE Same == /\ step'[q] = step[q] /\ event'[q] = event[q]
                   /\ claimed'[q] = claimed[q] /\ reached'[q] = reached[q]
<1>1. issued <= issued' /\ issued \in Nat /\ issued' \in Nat
  BY BundlesStay DEF TypeOK
<1>2. step[q] = "issue" =>
        /\ claimed[q] \in Assets /\ (unit'[claimed[q]] \in {"READY", "DELIVERED"})
        /\ reservedFor'[claimed[q]] = Of(q)
  BY KeptUnitsStay DEF RunsHaveTheirs, IsKept
<1>3. CASE Same
  BY <1>1, <1>2, <1>3 DEF RunsHaveTheirs, IsKept, Of
<1>4. CASE step'[q] \in {"idle", "load", "claim"}
  BY <1>4
<1>5. CASE ClaimAsset(q)
  <2>1. CASE \E u \in Claimable(Of(q)) :
               /\ unit' = [unit EXCEPT ![u] = "READY"]
               /\ reservedFor' = [reservedFor EXCEPT ![u] = Of(q)]
               /\ claimed' = [claimed EXCEPT ![q] = u]
               /\ Goto(q, "issue")
    BY <2>1 DEF TypeOK, Claimable, HeldBy, Free, Goto, IsKept, Of
  <2>2. CASE Idle(q)
    BY <2>2 DEF Idle, TypeOK
  <2> QED
    BY <1>5, <2>1, <2>2 DEF ClaimAsset
<1>6. CASE IssueBundle(q)
  <2>1. CASE \E b \in BundleIds : IsOpen(b) /\ Issued(q, b)
    <3>1. PICK b \in BundleIds : IsOpen(b) /\ Issued(q, b)
      BY <2>1
    <3>2. b \in 1 .. issued'
      BY <1>1, <3>1, IssuedBundles DEF BundleIds
    <3> QED
      BY <3>1, <3>2 DEF Issued, Goto, TypeOK
  <2>2. CASE issued' = issued + 1 /\ Issued(q, issued + 1)
    BY <1>1, <2>2 DEF Issued, Goto, TypeOK
  <2>3. CASE Idle(q)
    BY <2>3 DEF Idle, TypeOK
  <2> QED
    BY <1>6, <2>1, <2>2, <2>3 DEF IssueBundle, OpenBundles
<1>7. CASE StartProcessing(q)
  BY <1>1, <1>7 DEF StartProcessing, Goto, TypeOK, RunsHaveTheirs
<1>8. ASSUME NEW r \in Runs, r # q,
             ClaimAsset(r) \/ IssueBundle(r) \/ StartProcessing(r)
      PROVE  Same
  BY <1>8 DEF ClaimAsset, IssueBundle, StartProcessing, Issued, Goto, Idle, TypeOK
<1>9. ASSUME NEW r \in Runs,
             \/ QueueHandoff(r) \/ RunDies(r)
             \/ \E e \in Events : QueueFile(r, e) \/ LoadOrder(r, e)
      PROVE  Same \/ step'[q] \in {"idle", "load", "claim"}
  BY <1>9 DEF QueueHandoff, RunDies, QueueFile, LoadOrder, Loaded, Park, Idle, TypeOK
<1>10. \/ UNCHANGED runVars
       \/ \E r \in Runs : RunStep(r) \/ RunDies(r) \/ \E e \in Events : QueueFile(r, e) \/ LoadOrder(r, e)
  BY DEF Next, vars, SendCredential, RevealSecret, Finalize, ReconcileDelivered,
         FinalizeDelivery, ParkUncertain, OpenLink, BundleLapses, RecoverExpiredBundle,
         RecoverStaleReservation
<1>11. CASE UNCHANGED runVars
  BY <1>3, <1>11 DEF runVars
<1> HIDE DEF Same
<1> QED
  BY <1>3, <1>4, <1>5, <1>6, <1>7, <1>8, <1>9, <1>10, <1>11 DEF RunStep

\* A new bundle is the only open one of its order, and it is about the unit
\* the run claimed; a unit leaves READY only with the order's latest bundle,
\* which is the one that is closed.
LEMMA OpenStep ==
  ASSUME TypeOK, RunsHaveTheirs, OpenIsLatest, [Next]_vars, TypeOK'
  PROVE  OpenIsLatest'
<1> DEFINE Backed(b) == /\ unit[assetOf[b]] = "READY" /\ reservedFor[assetOf[b]] = bundleOf[b]
                        /\ \A c \in BundleIds : bundleOf[c] = bundleOf[b] => c <= b
<1> SUFFICES ASSUME NEW b \in BundleIds, IsOpen(b)' PROVE Backed(b)'
  BY DEF OpenIsLatest, IsLatest
<1>1. IsOpen(b) => Backed(b) /\ b <= issued /\ bundleOf[b] \in Orders /\ assetOf[b] \in Assets
  BY IssuedBundles DEF OpenIsLatest, IsLatest
\* What keeps an open bundle as it was.
<1>2. ASSUME IsOpen(b), UNCHANGED <<bundleOf, assetOf>>, unit'[assetOf[b]] # "DELIVERED"
      PROVE  Backed(b)'
  BY <1>1, <1>2, KeptUnitsStay DEF IsKept
<1>3. ASSUME UNCHANGED <<bundleOf, assetOf, bundle>>,
             \A u \in Assets : unit[u] = "READY" => unit'[u] = "READY"
      PROVE  Backed(b)'
  <2>1. IsOpen(b)
    BY <1>3 DEF IsOpen
  <2> QED
    BY <1>1, <1>2, <1>3, <2>1
<1>4. CASE UNCHANGED <<bundleVars, unitVars>>
  BY <1>3, <1>4 DEF bundleVars, unitVars
<1>5. ASSUME NEW r \in Runs, ClaimAsset(r) PROVE Backed(b)'
  <2>1. UNCHANGED <<bundleOf, assetOf, bundle>>
    BY <1>5 DEF ClaimAsset, bundleVars
  <2>2. \A u \in Assets : unit[u] = "READY" => unit'[u] = "READY"
    BY <1>5 DEF ClaimAsset, TypeOK
  <2> QED
    BY <1>3, <2>1, <2>2
<1>6. ASSUME NEW r \in Runs, IssueBundle(r) PROVE Backed(b)'
  <2> DEFINE o == Of(r)
             reusable == {c \in OpenBundles(o) : bundle[c] = "VIEWED" \/ ~ttlOver[c]}
             expired == [c \in BundleIds |-> IF c \in OpenBundles(o) THEN "EXPIRED" ELSE bundle[c]]
             new == issued + 1
  <2>1. UNCHANGED unitVars
    BY <1>6 DEF IssueBundle
  <2>2. CASE UNCHANGED bundleVars
    BY <1>4, <2>1, <2>2
  <2>3. CASE /\ IsDeliverable(claimed[r], o) /\ issued < MaxBundles
             /\ bundleOf' = [bundleOf EXCEPT ![new] = o]
             /\ assetOf' = [assetOf EXCEPT ![new] = claimed[r]]
             /\ bundle' = [expired EXCEPT ![new] = "AVAILABLE"]
    <3>1. new \in BundleIds /\ new \notin 1 .. issued /\ \A c \in BundleIds : bundleOf[c] # None => c < new
      BY <2>3 DEF TypeOK, BundleIds
    <3>2. o \in Orders /\ claimed[r] \in Assets /\ unit[claimed[r]] = "READY" /\ reservedFor[claimed[r]] = o
      BY <1>6, <2>3, EventsAreOfOrders DEF IssueBundle, RunsHaveTheirs, IsDeliverable, IsKept
    <3>3. CASE b = new
      BY <2>1, <2>3, <3>1, <3>2, <3>3, FulfilmentConstants DEF TypeOK, unitVars, BundleIds
    <3>4. CASE b # new
      <4>1. IsOpen(b) /\ b \notin OpenBundles(o)
        BY <2>3, <3>1, <3>4 DEF IsOpen
      <4>2. bundleOf[b] # o
        BY <4>1 DEF OpenBundles
      <4> QED
        BY <1>1, <2>1, <2>3, <3>1, <3>4, <4>1, <4>2 DEF TypeOK, unitVars
    <3> QED
      BY <3>3, <3>4
  <2>4. CASE bundle' = expired /\ UNCHANGED <<bundleOf, assetOf>>
    <3>1. IsOpen(b)
      BY <2>4 DEF IsOpen
    <3> QED
      BY <1>1, <2>1, <2>4, <3>1 DEF unitVars
  <2> QED
    BY <1>6, <2>2, <2>3, <2>4 DEF IssueBundle
<1>7. ASSUME NEW c \in BundleIds, RevealSecret(c) PROVE Backed(b)'
  <2>1. IsOpen(b)
    BY <1>7 DEF RevealSecret, IsOpen, TypeOK
  <2> QED
    BY <1>1, <1>7, <2>1 DEF RevealSecret, unitVars
<1>8. ASSUME NEW c \in BundleIds, CloseDelivery(c), IsLatest(c), reservedFor[assetOf[c]] = bundleOf[c]
      PROVE Backed(b)'
  <2>1. b # c /\ IsOpen(b)
    BY <1>8 DEF CloseDelivery, IsOpen, TypeOK
  <2>2. assetOf[b] # assetOf[c]
    BY <1>1, <1>8, <2>1 DEF IsLatest, BundleIds
  <2> QED
    BY <1>1, <1>8, <2>1, <2>2 DEF CloseDelivery, TypeOK
<1>9. ASSUME NEW c \in BundleIds, Finalize(c) \/ ReconcileDelivered(c) \/ OpenLink(c) PROVE Backed(b)'
  BY <1>8, <1>9 DEF Finalize, ReconcileDelivered, FinalizeDelivery, OpenLink, OpenIsLatest
<1>10. ASSUME NEW c \in BundleIds, BundleLapses(c) PROVE Backed(b)'
  BY <1>3, <1>10 DEF BundleLapses, unitVars
<1>11. ASSUME NEW c \in BundleIds, RecoverExpiredBundle(c) PROVE Backed(b)'
  <2>1. IsOpen(b)
    BY <1>11 DEF RecoverExpiredBundle, IsOpen, TypeOK
  <2> QED
    BY <1>1, <1>11, <2>1 DEF RecoverExpiredBundle, unitVars
<1>12. ASSUME NEW u \in Assets, RecoverStaleReservation(u) PROVE Backed(b)'
  <2>1. UNCHANGED <<bundleOf, assetOf, bundle>>
    BY <1>12 DEF RecoverStaleReservation, bundleVars
  <2>2. \A v \in Assets : unit[v] = "READY" => unit'[v] = "READY"
    BY <1>12 DEF RecoverStaleReservation, IsStaleHold, TypeOK
  <2> QED
    BY <1>3, <2>1, <2>2
<1> HIDE DEF Backed
<1>13. \/ UNCHANGED <<bundleVars, unitVars>>
       \/ \E r \in Runs : ClaimAsset(r) \/ IssueBundle(r)
       \/ \E c \in BundleIds :
            \/ RevealSecret(c) \/ Finalize(c) \/ ReconcileDelivered(c) \/ OpenLink(c)
            \/ BundleLapses(c) \/ RecoverExpiredBundle(c)
       \/ \E u \in Assets : RecoverStaleReservation(u)
  BY DEF Next, vars, RunStep, QueueFile, LoadOrder, StartProcessing, QueueHandoff, RunDies,
         SendCredential, ParkUncertain
<1> QED
  BY <1>4, <1>5, <1>6, <1>7, <1>9, <1>10, <1>11, <1>12, <1>13

\* Only the sending of a message makes it SENT, and it discloses the unit.
LEMMA SentStep ==
  ASSUME TypeOK, RunsHaveTheirs, SentIsDisclosed, [Next]_vars, TypeOK'
  PROVE  SentIsDisclosed'
<1> SUFFICES ASSUME NEW b \in BundleIds
             PROVE  /\ note'[b] # None => b <= issued'
                    /\ note'[b] = "SENT" => <<assetOf'[b], bundleOf'[b]>> \in disclosed'
  BY DEF SentIsDisclosed
<1>1. /\ issued <= issued' /\ issued \in Nat /\ issued' \in Nat /\ b \in Nat
      /\ b <= issued => bundleOf'[b] = bundleOf[b] /\ assetOf'[b] = assetOf[b]
  BY BundlesStay DEF TypeOK, BundleIds
<1> DEFINE Sent == <<assetOf'[b], bundleOf'[b]>> \in disclosed'
<1>2. disclosed \subseteq disclosed'
  BY DEF Next, vars, RunStep, QueueFile, LoadOrder, ClaimAsset, IssueBundle, StartProcessing,
         QueueHandoff, RunDies, SendCredential, Disclose, RevealSecret, Finalize,
         ReconcileDelivered, FinalizeDelivery, ParkUncertain, OpenLink, BundleLapses,
         RecoverExpiredBundle, RecoverStaleReservation
<1>3. note[b] # None => b <= issued
  BY DEF SentIsDisclosed
<1>4. note[b] # None => b <= issued'
  BY <1>1, <1>3
<1>5. note[b] = "SENT" => Sent
  BY <1>1, <1>2, <1>3 DEF SentIsDisclosed, None
<1>6. ASSUME NEW r \in Runs, QueueHandoff(r)
      PROVE  note'[b] = note[b] \/ (b <= issued' /\ note'[b] = "QUEUED")
  <2>1. reached[r] \in BundleIds /\ reached[r] <= issued
    BY <1>6 DEF QueueHandoff, RunsHaveTheirs, TypeOK, BundleIds
  <2> QED
    BY <1>1, <1>6, <2>1 DEF QueueHandoff, TypeOK
<1>7. ASSUME NEW c \in BundleIds, SendCredential(c)
      PROVE  \/ note'[b] = note[b]
             \/ note[b] = "REVEALED" /\ Sent
  BY <1>7 DEF SendCredential, Disclose, TypeOK, bundleVars
<1>8. ASSUME NEW c \in BundleIds,
             Finalize(c) \/ ReconcileDelivered(c) \/ ParkUncertain(c)
      PROVE  note'[b] = note[b] \/ (note[b] # None /\ note'[b] = "FINAL")
  <2>1. note[c] # None /\ note' = [note EXCEPT ![c] = "FINAL"] 
    BY <1>8 DEF Finalize, ReconcileDelivered, FinalizeDelivery, ParkUncertain, None
  <2> QED
    BY <2>1 DEF TypeOK
<1>10. ASSUME NEW c \in BundleIds, RevealSecret(c)
       PROVE  note'[b] = note[b] \/ (note[b] = "QUEUED" /\ note'[b] = "REVEALED")
  BY <1>10 DEF RevealSecret, TypeOK
<1>9. \/ UNCHANGED note
      \/ \E r \in Runs : QueueHandoff(r)
      \/ \E c \in BundleIds :
           \/ SendCredential(c) \/ RevealSecret(c) \/ Finalize(c) \/ ReconcileDelivered(c)
           \/ ParkUncertain(c)
  BY DEF Next, vars, RunStep, QueueFile, LoadOrder, ClaimAsset, IssueBundle, StartProcessing,
         RunDies, OpenLink, BundleLapses, RecoverExpiredBundle, RecoverStaleReservation
<1> HIDE DEF Sent
<1> QED
  <2>1. note'[b] = note[b] \/ note'[b] \in {"QUEUED", "REVEALED", "FINAL"} \/ Sent
    BY <1>6, <1>7, <1>8, <1>9, <1>10
  <2>2. note'[b] # None => b <= issued'
    BY <1>4, <1>6, <1>7, <1>8, <1>9, <1>10 DEF None
  <2> QED
    BY <1>5, <2>1, <2>2 DEF Sent

\* A new bundle is about the unit its run made READY for the order.
LEMMA KeptStep ==
  ASSUME TypeOK, RunsHaveTheirs, OpenIsLatest, IssuedIsKept, [Next]_vars
  PROVE  IssuedIsKept'
<1> SUFFICES ASSUME NEW b \in BundleIds, b <= issued'
             PROVE  /\ unit'[assetOf'[b]] \in {"READY", "DELIVERED"}
                    /\ reservedFor'[assetOf'[b]] = bundleOf'[b]
  BY DEF IssuedIsKept, IsKept
<1>1. CASE b <= issued
  <2>1. assetOf'[b] = assetOf[b] /\ bundleOf'[b] = bundleOf[b] /\ assetOf[b] \in Assets
    BY <1>1, BundlesStay, IssuedBundles
  <2>2. IsKept(assetOf[b]) /\ reservedFor[assetOf[b]] = bundleOf[b]
    BY <1>1 DEF IssuedIsKept
  <2> QED
    BY <2>1, <2>2, KeptUnitsStay DEF IsKept
<1>2. CASE ~(b <= issued)
  <2>1. PICK r \in Runs : IssueBundle(r)
    BY <1>2, ZenonT(60) DEF Next, vars, bundleVars, RunStep, QueueFile, LoadOrder, ClaimAsset,
       StartProcessing, QueueHandoff, RunDies, RevealSecret, SendCredential, Finalize,
       ReconcileDelivered, FinalizeDelivery, CloseDelivery, ParkUncertain, OpenLink,
       BundleLapses, RecoverExpiredBundle, RecoverStaleReservation
  <2>2. /\ issued' = issued + 1 /\ UNCHANGED unitVars
        /\ bundleOf' = [bundleOf EXCEPT ![issued + 1] = Of(r)]
        /\ assetOf' = [assetOf EXCEPT ![issued + 1] = claimed[r]]
    BY <1>2, <2>1 DEF IssueBundle, bundleVars
  <2>3. b = issued + 1
    BY <1>2, <2>2 DEF BundleIds, TypeOK
  <2>4. IsKept(claimed[r]) /\ reservedFor[claimed[r]] = Of(r)
    BY <2>1 DEF IssueBundle, RunsHaveTheirs
  <2> QED
    BY <2>2, <2>3, <2>4 DEF TypeOK, IsKept, unitVars
<1> QED
  BY <1>1, <1>2

\* A secret is revealed by the step that makes its bundle VIEWED, and no bundle becomes
\* AVAILABLE again.
LEMMA RevealedStep ==
  ASSUME TypeOK, RunsHaveTheirs, SentIsDisclosed, RevealedIsViewed, [Next]_vars, TypeOK'
  PROVE  RevealedIsViewed'
<1> SUFFICES ASSUME NEW b \in BundleIds
             PROVE  /\ note'[b] = "REVEALED" => bundle'[b] # "AVAILABLE"
                    /\ ~(b <= issued') => ~ttlOver'[b]
  BY DEF RevealedIsViewed
<1>1. b <= issued => b <= issued'
  BY BundlesStay DEF TypeOK, BundleIds
<1>2. \/ ttlOver' = ttlOver
      \/ \E c \in BundleIds : BundleLapses(c)
  BY ZenonT(60) DEF Next, vars, bundleVars, RunStep, QueueFile, LoadOrder, ClaimAsset,
     IssueBundle, StartProcessing, QueueHandoff, RunDies, RevealSecret, SendCredential, Finalize,
     ReconcileDelivered, FinalizeDelivery, CloseDelivery, ParkUncertain, OpenLink,
     RecoverExpiredBundle, RecoverStaleReservation
<1>3. ~(b <= issued') => ~ttlOver'[b]
  <2>1. ASSUME NEW c \in BundleIds, BundleLapses(c) PROVE ttlOver'[b] = ttlOver[b] \/ b <= issued
    <3>1. CASE c = b
      BY <2>1, <3>1, IssuedBundles DEF BundleLapses
    <3>2. CASE c # b
      <4>1. ttlOver' = [ttlOver EXCEPT ![c] = TRUE] /\ ttlOver \in [BundleIds -> BOOLEAN]
        BY <2>1 DEF BundleLapses, TypeOK
      <4> QED
        BY <3>2, <4>1, Zenon
    <3> QED
      BY <3>1, <3>2
  <2> QED
    BY <1>1, <1>2, <2>1 DEF RevealedIsViewed
<1>4. CASE note'[b] # note[b]
  <2>1. ASSUME NEW r \in Runs, QueueHandoff(r) PROVE note'[b] # "REVEALED"
    BY <1>4, <2>1 DEF QueueHandoff, TypeOK
  <2>2. ASSUME NEW c \in BundleIds,
               SendCredential(c) \/ Finalize(c) \/ ReconcileDelivered(c) \/ ParkUncertain(c)
        PROVE  note'[b] # "REVEALED"
    BY <1>4, <2>2 DEF SendCredential, Finalize, ReconcileDelivered, FinalizeDelivery,
       ParkUncertain, TypeOK
  <2>3. ASSUME NEW c \in BundleIds, RevealSecret(c)
        PROVE  bundle'[b] = "VIEWED"
    BY <1>4, <2>3 DEF RevealSecret, TypeOK
  <2>4. \/ note' = note
        \/ \E r \in Runs : QueueHandoff(r)
        \/ \E c \in BundleIds : \/ SendCredential(c) \/ Finalize(c) \/ ReconcileDelivered(c)
                               \/ ParkUncertain(c) \/ RevealSecret(c)
    BY DEF Next, vars, RunStep, QueueFile, LoadOrder, ClaimAsset, IssueBundle, StartProcessing,
       RunDies, OpenLink, BundleLapses, RecoverExpiredBundle, RecoverStaleReservation
  <2> QED
    BY <1>3, <1>4, <2>1, <2>2, <2>3, <2>4
<1>5. CASE note'[b] = note[b]
  <2>1. ASSUME bundle[b] \notin {None, "AVAILABLE"} PROVE bundle'[b] # "AVAILABLE"
    <3>1. ASSUME NEW r \in Runs, IssueBundle(r) PROVE bundle'[b] # "AVAILABLE"
      <4> DEFINE expired == [c \in BundleIds |-> IF c \in OpenBundles(Of(r)) THEN "EXPIRED" ELSE bundle[c]]
      <4>1. /\ b # issued + 1 /\ expired[b] # "AVAILABLE"
            /\ expired \in [BundleIds -> {None, "AVAILABLE", "VIEWED", "CONSUMED", "EXPIRED"}]
        BY <2>1 DEF TypeOK, BundleIds
      <4>2. \/ bundle' = bundle \/ bundle' = expired
            \/ bundle' = [expired EXCEPT ![issued + 1] = "AVAILABLE"]
        BY <3>1 DEF IssueBundle, bundleVars
      <4> HIDE DEF expired
      <4>3. CASE bundle' = [expired EXCEPT ![issued + 1] = "AVAILABLE"]
        BY <4>1, <4>3
      <4> QED
        BY <2>1, <4>1, <4>2, <4>3
    <3>2. \/ UNCHANGED bundle
          \/ \E r \in Runs : IssueBundle(r)
          \/ \E c \in BundleIds, to \in {"VIEWED", "CONSUMED", "EXPIRED"} :
               bundle' = [bundle EXCEPT ![c] = to]
      BY DEF Next, vars, bundleVars, RunStep, QueueFile, LoadOrder, ClaimAsset,
         StartProcessing, QueueHandoff, RunDies, RevealSecret, SendCredential, Finalize,
         ReconcileDelivered, FinalizeDelivery, CloseDelivery, ParkUncertain, OpenLink, BundleLapses,
         RecoverExpiredBundle, RecoverStaleReservation
    <3> QED
      BY <2>1, <3>1, <3>2 DEF TypeOK
  <2>2. note[b] = "REVEALED" => bundle[b] \notin {None, "AVAILABLE"}
    BY DEF RevealedIsViewed, SentIsDisclosed, TypeOK, None
  <2> QED
    BY <1>3, <1>5, <2>1, <2>2
<1> QED
  BY <1>4, <1>5

\* What is disclosed is the unit of an issued bundle, so it is held for that buyer, and
\* stays so.
LEMMA DisclosedStep ==
  ASSUME TypeOK, OpenIsLatest, IssuedIsKept, SentIsDisclosed, DisclosedIsHeld, [Next]_vars
  PROVE  DisclosedIsHeld'
<1> SUFFICES ASSUME NEW d \in disclosed' PROVE IsKept(d[1])' /\ reservedFor'[d[1]] = d[2]
  BY DEF DisclosedIsHeld, IsKept
<1>1. CASE d \in disclosed
  <2>1. d[1] \in Assets /\ IsKept(d[1]) /\ reservedFor[d[1]] = d[2]
    BY <1>1 DEF DisclosedIsHeld, TypeOK
  <2> QED
    BY <2>1, KeptUnitsStay
<1>2. CASE d \notin disclosed
  <2>1. PICK b \in BundleIds : b <= issued /\ d = <<assetOf[b], bundleOf[b]>>
    BY <1>2, IssuedBundles DEF SentIsDisclosed, None, Next, vars, RunStep, QueueFile, LoadOrder, ClaimAsset, IssueBundle,
         StartProcessing, QueueHandoff, RunDies, SendCredential, Disclose, RevealSecret,
         Finalize, ReconcileDelivered, FinalizeDelivery, ParkUncertain, OpenLink, BundleLapses,
         RecoverExpiredBundle, RecoverStaleReservation
  <2>2. d[1] \in Assets /\ IsKept(d[1]) /\ reservedFor[d[1]] = d[2]
    BY <2>1, IssuedBundles DEF IssuedIsKept
  <2> QED
    BY <2>2, KeptUnitsStay
<1> QED
  BY <1>1, <1>2

\* An order is completed by the step that delivers a unit its buyer was shown,
\* and a delivered unit stays delivered.
LEMMA CompletedStep ==
  ASSUME TypeOK, OpenIsLatest, SentIsDisclosed, CompletedIsDelivered, [Next]_vars
  PROVE  CompletedIsDelivered'
<1> SUFFICES ASSUME NEW o \in Orders, status'[o] = "COMPLETED"
             PROVE  \E u \in Assets :
                      unit'[u] = "DELIVERED" /\ deliveredTo'[u] = o /\ <<u, o>> \in disclosed'
  BY DEF CompletedIsDelivered
<1>1. disclosed \subseteq disclosed'
  BY DEF Next, vars, RunStep, QueueFile, LoadOrder, ClaimAsset, IssueBundle, StartProcessing,
         QueueHandoff, RunDies, SendCredential, Disclose, RevealSecret, Finalize,
         ReconcileDelivered, FinalizeDelivery, ParkUncertain, OpenLink, BundleLapses,
         RecoverExpiredBundle, RecoverStaleReservation
<1>2. CASE status[o] = "COMPLETED"
  BY <1>1, <1>2, KeptUnitsStay DEF CompletedIsDelivered
<1>3. ASSUME NEW b \in BundleIds, CloseDelivery(b), bundleOf[b] = o, assetOf[b] \in Assets,
             <<assetOf[b], bundleOf[b]>> \in disclosed'
      PROVE  \E u \in Assets :
               unit'[u] = "DELIVERED" /\ deliveredTo'[u] = o /\ <<u, o>> \in disclosed'
  <2>1. unit'[assetOf[b]] = "DELIVERED" /\ deliveredTo'[assetOf[b]] = o
    BY <1>3 DEF CloseDelivery, TypeOK
  <2> QED
    BY <1>3, <2>1
<1>4. ASSUME NEW b \in BundleIds, Finalize(b) \/ ReconcileDelivered(b), status[o] # "COMPLETED"
      PROVE  \E u \in Assets :
               unit'[u] = "DELIVERED" /\ deliveredTo'[u] = o /\ <<u, o>> \in disclosed'
  <2>1. /\ CloseDelivery(b) /\ bundleOf[b] = o /\ note[b] \in {"SENT", "FINAL"}
        /\ <<assetOf[b], bundleOf[b]>> \in disclosed'
    BY <1>1, <1>4 DEF Finalize, ReconcileDelivered, FinalizeDelivery, SentIsDisclosed, TypeOK
  <2>2. assetOf[b] \in Assets
    BY <2>1, IssuedBundles DEF SentIsDisclosed, None
  <2> QED
    BY <1>3, <2>1, <2>2
<1>5. ASSUME NEW b \in BundleIds, OpenLink(b), status[o] # "COMPLETED"
      PROVE  \E u \in Assets :
               unit'[u] = "DELIVERED" /\ deliveredTo'[u] = o /\ <<u, o>> \in disclosed'
  <2>1. CloseDelivery(b) /\ bundleOf[b] = o /\ <<assetOf[b], bundleOf[b]>> \in disclosed'
    BY <1>5 DEF OpenLink, Disclose, TypeOK
  <2> QED
    BY <1>3, <1>5, <2>1, IssuedBundles DEF OpenLink
<1>6. \/ status'[o] = status[o]
      \/ \E b \in BundleIds : Finalize(b) \/ ReconcileDelivered(b) \/ OpenLink(b)
  <2>1. ASSUME NEW r \in Runs, StartProcessing(r) PROVE status'[o] = status[o]
    BY <2>1 DEF StartProcessing, TypeOK
  <2>2. ASSUME NEW b \in BundleIds, ParkUncertain(b) PROVE status'[o] = status[o]
    BY <2>2 DEF ParkUncertain, TypeOK
  <2> QED
    BY <2>1, <2>2 DEF Next, vars, RunStep, QueueFile, LoadOrder, ClaimAsset, IssueBundle,
         QueueHandoff, RunDies, SendCredential, RevealSecret, BundleLapses,
         RecoverExpiredBundle, RecoverStaleReservation
<1> QED
  BY <1>2, <1>4, <1>5, <1>6

-----------------------------------------------------------------------------
(* The theorems *)

LEMMA InitInv == Init => IInv
<1> SUFFICES ASSUME Init PROVE IInv
  OBVIOUS
<1>1. TypeOK
  BY InitType
<1>2. /\ RunsHaveTheirs /\ OpenIsLatest /\ IssuedIsKept /\ SentIsDisclosed
      /\ RevealedIsViewed /\ DisclosedIsHeld
  BY DEF Init, BundleIds, IssuedIsKept, RevealedIsViewed, RunsHaveTheirs, OpenIsLatest, IsOpen, SentIsDisclosed, DisclosedIsHeld, None
<1>3. CompletedIsDelivered
  BY DEF Init, CompletedIsDelivered
<1> QED
  BY <1>1, <1>2, <1>3 DEF IInv

LEMMA NextInv == IInv /\ [Next]_vars => IInv'
<1> SUFFICES ASSUME IInv, [Next]_vars PROVE IInv'
  OBVIOUS
<1>1. TypeOK'
  BY NextType DEF IInv
<1> QED
  BY <1>1, RunsStep, OpenStep, KeptStep, SentStep, RevealedStep, DisclosedStep, CompletedStep DEF IInv

\* The invariant the theorems below rest on.
THEOREM FulfilmentInv == Spec => []IInv
  BY InitInv, NextInv, PTL DEF Spec

\* Rows, events and runs have the values the tables and the handlers give them.
THEOREM FulfilmentType == Spec => []TypeOK
<1>1. IInv => TypeOK
  BY DEF IInv
<1> QED
  BY FulfilmentInv, <1>1, PTL

\* However runs, sweeps and crashes interleave, a credential a buyer has seen is
\* held for him and for nobody else.
THEOREM FulfilmentSoldOnce == Spec => []SoldOnce
<1>1. IInv => SoldOnce
  <2> SUFFICES ASSUME IInv, NEW d \in disclosed
               PROVE  /\ unit[d[1]] \in {"READY", "DELIVERED"} /\ reservedFor[d[1]] = d[2]
                      /\ \A e \in disclosed : d[1] = e[1] => d = e
    BY DEF SoldOnce
  <2>1. \A e \in disclosed : e = <<e[1], e[2]>> /\ IsKept(e[1]) /\ reservedFor[e[1]] = e[2]
    BY DEF IInv, TypeOK, DisclosedIsHeld
  <2> QED
    BY <2>1 DEF IsKept
<1> QED
  BY FulfilmentInv, <1>1, PTL

\* The reason: no step takes away a unit once it was made READY for an order,
\* though a paid order may lose the one its checkout reserved before that.
PromisesStay ==
  [][\A u \in Assets : IsKept(u) => IsKept(u)' /\ reservedFor'[u] = reservedFor[u]]_vars

\* A unit made READY for an order stays that order's, whatever runs and sweeps follow.
THEOREM FulfilmentPromises == Spec => PromisesStay
<1>1. IInv /\ [Next]_vars =>
        [\A u \in Assets : IsKept(u) => IsKept(u)' /\ reservedFor'[u] = reservedFor[u]]_vars
  BY KeptUnitsStay DEF IInv
<1> QED
  BY FulfilmentInv, <1>1, PTL DEF Spec, PromisesStay

\* What a buyer can open is READY for him, and no other open bundle is about
\* his order or that unit.
THEOREM FulfilmentBacked == Spec => []OpenBundlesAreBacked
<1>1. IInv => OpenBundlesAreBacked
  <2> SUFFICES ASSUME IInv, NEW b \in BundleIds, IsOpen(b)
               PROVE  /\ unit[assetOf[b]] = "READY" /\ reservedFor[assetOf[b]] = bundleOf[b]
                      /\ \A c \in BundleIds : IsOpen(c) /\ c # b =>
                           bundleOf[c] # bundleOf[b] /\ assetOf[c] # assetOf[b]
    BY DEF OpenBundlesAreBacked
  <2>1. \A c \in BundleIds : IsOpen(c) /\ c # b => bundleOf[c] # bundleOf[b]
    BY DEF IInv, OpenIsLatest, IsLatest, BundleIds
  <2> QED
    BY <2>1 DEF IInv, OpenIsLatest
<1> QED
  BY FulfilmentInv, <1>1, PTL

\* No order is COMPLETED without a unit delivered to it that its buyer has.
THEOREM FulfilmentCompleted == Spec => []CompletedIsDelivered
<1>1. IInv => CompletedIsDelivered
  BY DEF IInv
<1> QED
  BY FulfilmentInv, <1>1, PTL

\* Every move of an order's status is one of the table of legal transitions.
THEOREM FulfilmentLifecycle == Spec => LifecycleSteps
<1> USE DEF ImplementsLifecycle!LifecycleNext, ImplementsLifecycle!TransitionOrder,
            ImplementsLifecycle!Allowed
<1>1. Init => ImplementsLifecycle!LifecycleInit
  BY DEF Init, ImplementsLifecycle!LifecycleInit
<1>2. IInv /\ [Next]_vars => [ImplementsLifecycle!LifecycleNext]_status
  <2> SUFFICES ASSUME IInv, [Next]_vars PROVE [ImplementsLifecycle!LifecycleNext]_status
    OBVIOUS
  <2>1. ASSUME NEW o \in Orders, NEW to \in {"PROCESSING", "COMPLETED", "FULFILLMENT_NEEDS_REVIEW"},
               <<status[o], to>> \in {<<"PAID", "PROCESSING">>, <<"PROCESSING", "COMPLETED">>,
                  <<"PROCESSING", "FULFILLMENT_NEEDS_REVIEW">>, <<"FULFILLMENT_NEEDS_REVIEW", "COMPLETED">>},
               status' = [status EXCEPT ![o] = to]
        PROVE  ImplementsLifecycle!LifecycleNext
    <3>1. status[o] # "ABSENT" /\ to \in ImplementsLifecycle!Allowed[status[o]]
      BY <2>1
    <3> QED
      BY <2>1, <3>1
  <2>2. ASSUME NEW r \in Runs, StartProcessing(r) PROVE [ImplementsLifecycle!LifecycleNext]_status
    <3>1. Of(r) \in Orders
      BY <2>2, EventsAreOfOrders DEF IInv, StartProcessing
    <3> QED
      BY <2>1, <2>2, <3>1 DEF StartProcessing
  <2>3. ASSUME NEW b \in BundleIds, Finalize(b) \/ ReconcileDelivered(b) \/ ParkUncertain(b)
        PROVE  [ImplementsLifecycle!LifecycleNext]_status
    <3>1. bundleOf[b] \in Orders
      BY <2>3, IssuedBundles DEF IInv, SentIsDisclosed, Finalize, ReconcileDelivered, ParkUncertain, None
    <3>2. CASE ParkUncertain(b) /\ status[bundleOf[b]] = "FULFILLMENT_NEEDS_REVIEW"
      <4>1. status' = status
        BY <3>1, <3>2 DEF ParkUncertain, IInv, TypeOK
      <4> QED
        BY <4>1
    <3>3. CASE ParkUncertain(b) /\ status[bundleOf[b]] # "FULFILLMENT_NEEDS_REVIEW"
      BY <2>1, <3>1, <3>3 DEF ParkUncertain, Parkable
    <3>4. CASE Finalize(b) \/ ReconcileDelivered(b)
      BY <2>1, <3>1, <3>4 DEF Finalize, ReconcileDelivered, FinalizeDelivery
    <3> QED
      BY <2>3, <3>2, <3>3, <3>4
  <2>4. ASSUME NEW b \in BundleIds, OpenLink(b) PROVE [ImplementsLifecycle!LifecycleNext]_status
    <3>1. bundleOf[b] \in Orders
      BY <2>4, IssuedBundles DEF IInv, OpenLink
    <3>2. CASE status[bundleOf[b]] = "PROCESSING"
      BY <2>1, <2>4, <3>1, <3>2 DEF OpenLink
    <3>3. CASE status[bundleOf[b]] # "PROCESSING"
      <4>1. status' = status
        BY <2>4, <3>1, <3>3 DEF OpenLink, IInv, TypeOK
      <4> QED
        BY <4>1
    <3> QED
      BY <3>2, <3>3
  <2>5. \/ UNCHANGED status
        \/ \E r \in Runs : StartProcessing(r)
        \/ \E b \in BundleIds : Finalize(b) \/ ReconcileDelivered(b) \/ ParkUncertain(b) \/ OpenLink(b)
    BY DEF Next, vars, RunStep, QueueFile, LoadOrder, ClaimAsset, IssueBundle, QueueHandoff,
         RunDies, SendCredential, RevealSecret, BundleLapses, RecoverExpiredBundle,
         RecoverStaleReservation
  <2> QED
    BY <2>2, <2>3, <2>4, <2>5
<1> QED
  BY FulfilmentInv, <1>1, <1>2, PTL DEF Spec, LifecycleSteps, ImplementsLifecycle!LifecycleSpec
-----------------------------------------------------------------------------
(* To each bundle fulfilment is the delivery contract. *)

\* What the contract sees of an issued bundle before and after a step.
LEMMA BundleViews ==
  ASSUME IInv, [Next]_vars, NEW b \in BundleIds, b <= issued
  PROVE  /\ bundleOf[b] \in Orders /\ assetOf[b] \in Assets
         /\ bundleOf'[b] = bundleOf[b] /\ assetOf'[b] = assetOf[b]
         /\ OrderOf(b) = status[bundleOf[b]] /\ OrderOf(b)' = status'[bundleOf[b]]
         /\ UnitOf(b) = unit[assetOf[b]] /\ UnitOf(b)' = unit'[assetOf[b]]
         /\ unit[assetOf[b]] \in {"READY", "DELIVERED"}
         /\ bundle[b] \in {"AVAILABLE", "VIEWED", "CONSUMED", "EXPIRED"}
<1>1. bundleOf[b] \in Orders /\ assetOf[b] \in Assets
  BY IssuedBundles DEF IInv
<1>2. b <= issued' /\ bundleOf'[b] = bundleOf[b] /\ assetOf'[b] = assetOf[b]
  <2>1. issued \in Nat /\ issued' \in Nat /\ b \in Nat
    BY NextInv DEF IInv, TypeOK, BundleIds
  <2> QED
    BY <2>1, BundlesStay DEF IInv
<1>3. unit[assetOf[b]] \in {"READY", "DELIVERED"} /\ bundle[b] # None
  BY DEF IInv, IssuedIsKept, IsKept, TypeOK
<1> QED
  BY <1>1, <1>2, <1>3 DEF OrderOf, UnitOf, IInv, TypeOK

\* A step that the contract does not see.
LEMMA BundleStutters ==
  ASSUME NEW b \in BundleIds, OrderOf(b)' = OrderOf(b), UnitOf(b)' = UnitOf(b),
         bundle'[b] = bundle[b], ttlOver'[b] = ttlOver[b], note'[b] = note[b]
  PROVE  UNCHANGED Bundle(b)!contractVars
BY DEF Bundle!contractVars, Progress

\* A bundle is issued for the unit its run holds READY.
LEMMA BundleIssued ==
  ASSUME IInv, [Next]_vars, IInv', NEW b \in BundleIds, ~(b <= issued), b <= issued'
  PROVE  Bundle(b)!Issue
<1>1. PICK r \in Runs : IssueBundle(r)
  BY ZenonT(60) DEF Next, vars, bundleVars, RunStep, QueueFile, LoadOrder, ClaimAsset,
     StartProcessing, QueueHandoff, RunDies, RevealSecret, SendCredential, Finalize,
     ReconcileDelivered, FinalizeDelivery, CloseDelivery, ParkUncertain, OpenLink,
     BundleLapses, RecoverExpiredBundle, RecoverStaleReservation
<1> DEFINE expired == [c \in BundleIds |-> IF c \in OpenBundles(Of(r)) THEN "EXPIRED" ELSE bundle[c]]
<1>2. /\ issued' = issued + 1 /\ UNCHANGED <<status, unitVars, note, ttlOver>>
      /\ bundleOf' = [bundleOf EXCEPT ![issued + 1] = Of(r)]
      /\ assetOf' = [assetOf EXCEPT ![issued + 1] = claimed[r]]
      /\ bundle' = [expired EXCEPT ![issued + 1] = "AVAILABLE"]
      /\ IsDeliverable(claimed[r], Of(r))
  BY <1>1 DEF IssueBundle, bundleVars
<1>3. b = issued + 1
  BY <1>2 DEF BundleIds, IInv, TypeOK
<1>4. Of(r) \in Orders /\ claimed[r] \in Assets /\ unit[claimed[r]] = "READY"
  BY <1>1, <1>2, EventsAreOfOrders DEF IInv, IssueBundle, RunsHaveTheirs, IsDeliverable, IsKept
<1>5. bundle'[b] = "AVAILABLE" /\ bundleOf'[b] = Of(r) /\ assetOf'[b] = claimed[r]
  <2>1. /\ expired \in [BundleIds -> {None, "AVAILABLE", "VIEWED", "CONSUMED", "EXPIRED"}]
        /\ bundleOf \in [BundleIds -> Orders \cup {None}] /\ assetOf \in [BundleIds -> Assets \cup {None}]
    BY DEF IInv, TypeOK
  <2> HIDE DEF expired
  <2> QED
    BY <1>2, <1>3, <2>1
<1>6. OrderOf(b) = None /\ UnitOf(b) = None /\ bundle[b] = None
  BY DEF OrderOf, UnitOf, IInv, TypeOK
<1>7. OrderOf(b)' \in Payable \cup {"FULFILLMENT_NEEDS_REVIEW"} /\ UnitOf(b)' = "READY"
  BY <1>2, <1>4, <1>5 DEF OrderOf, UnitOf, IInv, TypeOK, unitVars
<1>8. ttlOver'[b] = ttlOver[b] /\ Progress(b)' = Progress(b)
  BY <1>2 DEF Progress
<1> QED
  BY <1>5, <1>6, <1>7, <1>8
     DEF Bundle!Issue, Bundle!Absent, Bundle!Issued, Bundle!Fulfilled, Bundle!None, None, Payable

\* The run that claims, the sweep and whatever else touches no issued bundle.
LEMMA BundleUntouched ==
  ASSUME IInv, [Next]_vars, NEW b \in BundleIds, b <= issued,
         \/ UNCHANGED <<status, unitVars, bundleVars, note>>
         \/ \E r \in Runs : ClaimAsset(r)
         \/ \E u \in Assets : RecoverStaleReservation(u)
  PROVE  UNCHANGED Bundle(b)!contractVars
<1>1. UNCHANGED <<status, bundleVars, note>>
  BY DEF ClaimAsset, RecoverStaleReservation
<1>2. unit'[assetOf[b]] = unit[assetOf[b]]
  <2>1. ASSUME NEW r \in Runs, ClaimAsset(r) PROVE unit'[assetOf[b]] = unit[assetOf[b]]
    BY <2>1, BundleViews DEF ClaimAsset, Claimable, HeldBy, Free, IInv, TypeOK
  <2>2. ASSUME NEW u \in Assets, RecoverStaleReservation(u)
        PROVE  unit'[assetOf[b]] = unit[assetOf[b]]
    BY <2>2, BundleViews DEF RecoverStaleReservation, IsStaleHold, IInv, TypeOK
  <2> QED
    BY <2>1, <2>2 DEF unitVars
<1> QED
  BY <1>1, <1>2, BundleViews, BundleStutters DEF bundleVars

\* A bundle that lapsed unviewed is expired by the run that finds it; a reused one
\* and one of another order stay.
LEMMA BundleReissued ==
  ASSUME IInv, [Next]_vars, NEW b \in BundleIds, b <= issued, NEW r \in Runs, IssueBundle(r)
  PROVE  [Bundle(b)!ContractNext]_(Bundle(b)!contractVars)
<1> DEFINE reusable == {c \in OpenBundles(Of(r)) : bundle[c] = "VIEWED" \/ ~ttlOver[c]}
           expired == [c \in BundleIds |-> IF c \in OpenBundles(Of(r)) THEN "EXPIRED" ELSE bundle[c]]
<1>1. UNCHANGED <<status, unitVars, note, ttlOver>>
  BY DEF IssueBundle, bundleVars
<1>2. OrderOf(b)' = OrderOf(b) /\ UnitOf(b)' = UnitOf(b) /\ Progress(b)' = Progress(b)
  BY <1>1, BundleViews DEF unitVars, Progress
<1>3. CASE bundle'[b] = bundle[b]
  BY <1>1, <1>2, <1>3, BundleStutters
<1>4. CASE bundle'[b] # bundle[b]
  <2>1. /\ reusable = {}
        /\ bundle' = expired \/ bundle' = [expired EXCEPT ![issued + 1] = "AVAILABLE"]
    BY <1>4 DEF IssueBundle, bundleVars
  <2>2. b # issued + 1
    BY DEF BundleIds, IInv, TypeOK
  <2>3. bundle'[b] = expired[b]
    <3>1. expired \in [BundleIds -> {None, "AVAILABLE", "VIEWED", "CONSUMED", "EXPIRED"}]
      BY DEF IInv, TypeOK
    <3> HIDE DEF expired
    <3> QED
      BY <2>1, <2>2, <3>1
  <2>4. b \in OpenBundles(Of(r)) /\ bundle'[b] = "EXPIRED"
    BY <1>4, <2>3
  <2>5. bundle[b] \in {"AVAILABLE", "VIEWED"} /\ ttlOver[b]
    BY <2>1, <2>4 DEF OpenBundles, IsOpen
  <2> QED
    BY <1>1, <1>2, <2>4, <2>5 DEF Bundle!ContractNext, Bundle!Expire
<1> QED
  BY <1>3, <1>4

\* The run that starts its order, or queues the message of the bundle it reached.
LEMMA BundleQueued ==
  ASSUME IInv, [Next]_vars, NEW b \in BundleIds, b <= issued, NEW r \in Runs,
         StartProcessing(r) \/ QueueHandoff(r)
  PROVE  [Bundle(b)!ContractNext]_(Bundle(b)!contractVars)
<1>1. CASE StartProcessing(r)
  <2>1. UNCHANGED <<unitVars, bundleVars, note>>
    BY <1>1 DEF StartProcessing
  <2>2. \/ status' = status
        \/ /\ status[Of(r)] = "PAID" /\ Of(r) \in Orders
           /\ status' = [status EXCEPT ![Of(r)] = "PROCESSING"]
    BY <1>1, EventsAreOfOrders DEF StartProcessing, IInv
  <2>3. UnitOf(b)' = UnitOf(b) /\ Progress(b)' = Progress(b)
    BY <2>1, BundleViews DEF unitVars, Progress
  <2>4. OrderOf(b)' = OrderOf(b) \/ (OrderOf(b) = "PAID" /\ OrderOf(b)' = "PROCESSING")
    BY <2>2, BundleViews DEF IInv, TypeOK
  <2>5. CASE OrderOf(b)' = OrderOf(b)
    BY <2>1, <2>3, <2>5, BundleStutters DEF bundleVars
  <2>6. CASE OrderOf(b) = "PAID" /\ OrderOf(b)' = "PROCESSING"
    BY <2>1, <2>3, <2>6 DEF bundleVars, Bundle!ContractNext, Bundle!Start
  <2> QED
    BY <2>4, <2>5, <2>6
<1>2. CASE QueueHandoff(r)
  <2>1. UNCHANGED <<status, unitVars, bundleVars>>
    BY <1>2 DEF QueueHandoff
  <2>2. \/ note'[b] = note[b]
        \/ note[b] = None /\ note'[b] = "QUEUED" /\ IsOpen(b) /\ ~ttlOver[b]
    BY <1>2 DEF QueueHandoff, IInv, TypeOK
  <2>3. UnitOf(b)' = UnitOf(b) /\ OrderOf(b)' = OrderOf(b)
    BY <2>1, BundleViews DEF unitVars
  <2>4. CASE note'[b] = note[b]
    BY <2>1, <2>3, <2>4, BundleStutters DEF bundleVars
  <2>5. CASE note[b] = None /\ note'[b] = "QUEUED" /\ IsOpen(b) /\ ~ttlOver[b]
    <3>1. Progress(b) = None /\ Progress(b)' = "QUEUED"
      BY <2>5 DEF Progress, None
    <3> QED
      BY <2>1, <2>3, <2>5, <3>1
         DEF bundleVars, IsOpen, None, Bundle!None, Bundle!ContractNext, Bundle!Queue, Bundle!Live
  <2> QED
    BY <2>2, <2>4, <2>5
<1> QED
  BY <1>1, <1>2

\* The lane reveals and attempts, the clock and the sweep end: of one bundle each.
LEMMA BundleMessaged ==
  ASSUME IInv, [Next]_vars, NEW b \in BundleIds, b <= issued, NEW c \in BundleIds,
         RevealSecret(c) \/ SendCredential(c) \/ BundleLapses(c) \/ RecoverExpiredBundle(c)
  PROVE  [Bundle(b)!ContractNext]_(Bundle(b)!contractVars)
<1>1. UNCHANGED <<status, unitVars>>
  BY DEF RevealSecret, SendCredential, BundleLapses, RecoverExpiredBundle
<1>2. OrderOf(b)' = OrderOf(b) /\ UnitOf(b)' = UnitOf(b)
  BY <1>1, BundleViews DEF unitVars
<1>3. CASE c # b
  <2>1. bundle'[b] = bundle[b] /\ note'[b] = note[b]
    BY <1>3 DEF RevealSecret, SendCredential, BundleLapses, RecoverExpiredBundle, bundleVars,
       IInv, TypeOK
  <2>2. \/ ttlOver' = ttlOver
        \/ ttlOver' = [ttlOver EXCEPT ![c] = TRUE] /\ ttlOver \in [BundleIds -> BOOLEAN]
    BY DEF RevealSecret, SendCredential, BundleLapses, RecoverExpiredBundle, bundleVars, IInv, TypeOK
  <2>3. ttlOver'[b] = ttlOver[b]
    BY <1>3, <2>2, Zenon
  <2> QED
    BY <1>2, <2>1, <2>3, BundleStutters
<1>4. CASE RevealSecret(b)
  <2>1. /\ note[b] = "QUEUED" /\ note'[b] = "REVEALED" /\ bundle'[b] = "VIEWED"
        /\ IsOpen(b) /\ ~ttlOver[b] /\ ttlOver' = ttlOver
    BY <1>4 DEF RevealSecret, IInv, TypeOK
  <2>2. Progress(b) = "QUEUED" /\ Progress(b)' = "QUEUED"
    BY <2>1 DEF Progress, None
  <2> QED
    BY <1>2, <2>1, <2>2 DEF IsOpen, Bundle!None, Bundle!ContractNext, Bundle!Reveal, Bundle!Live
<1>5. CASE SendCredential(b)
  <2>1. /\ note[b] = "REVEALED" /\ note'[b] = "SENT" /\ bundle'[b] = bundle[b]
        /\ ttlOver' = ttlOver /\ bundle[b] # "AVAILABLE"
    BY <1>5 DEF SendCredential, bundleVars, IInv, TypeOK, RevealedIsViewed
  <2>2. Progress(b) = "QUEUED" /\ Progress(b)' = "ATTEMPTED"
    BY <2>1 DEF Progress, None
  <2> QED
    BY <1>2, <2>1, <2>2 DEF Bundle!ContractNext, Bundle!Attempt
<1>6. CASE BundleLapses(b)
  <2>1. /\ IsOpen(b) /\ ~ttlOver[b] /\ UNCHANGED <<bundle, note>>
        /\ ttlOver' = [ttlOver EXCEPT ![b] = TRUE] /\ ttlOver \in [BundleIds -> BOOLEAN]
    BY <1>6 DEF BundleLapses, IInv, TypeOK
  <2>2. ttlOver'[b]
    BY <2>1, Zenon
  <2> QED
    BY <1>2, <2>1, <2>2 DEF IsOpen, Progress, Bundle!ContractNext, Bundle!Lapse, Bundle!Live
<1>7. CASE RecoverExpiredBundle(b)
  <2>1. IsOpen(b) /\ ttlOver[b] /\ UNCHANGED <<ttlOver, note>> /\ bundle'[b] = "EXPIRED"
    BY <1>7 DEF RecoverExpiredBundle, IInv, TypeOK
  <2> QED
    BY <1>2, <2>1 DEF IsOpen, Progress, Bundle!ContractNext, Bundle!Expire
<1> QED
  BY <1>3, <1>4, <1>5, <1>6, <1>7

\* A parked message leaves its order, and so the order's other bundles, to the owner.
LEMMA BundleParked ==
  ASSUME IInv, [Next]_vars, NEW b \in BundleIds, b <= issued, NEW c \in BundleIds, ParkUncertain(c)
  PROVE  [Bundle(b)!ContractNext]_(Bundle(b)!contractVars)
<1>1. /\ UNCHANGED <<unitVars, bundleVars>> /\ note[c] = "SENT"
      /\ note' = [note EXCEPT ![c] = "FINAL"] /\ bundleOf[c] \in Orders
      /\ status[bundleOf[c]] \in {"PROCESSING", "FULFILLMENT_NEEDS_REVIEW"}
      /\ status' = [status EXCEPT ![bundleOf[c]] = "FULFILLMENT_NEEDS_REVIEW"]
  BY IssuedBundles DEF ParkUncertain, Parkable, IInv, SentIsDisclosed, None
<1>2. UnitOf(b)' = UnitOf(b) /\ bundle'[b] = bundle[b] /\ ttlOver'[b] = ttlOver[b]
  BY <1>1, BundleViews DEF unitVars, bundleVars
<1>3. CASE c = b
  <2>1. /\ OrderOf(b) \in {"PROCESSING", "FULFILLMENT_NEEDS_REVIEW"}
        /\ OrderOf(b)' = "FULFILLMENT_NEEDS_REVIEW" /\ note'[b] = "FINAL"
    BY <1>1, <1>3, BundleViews DEF IInv, TypeOK
  <2>2. Progress(b) = "ATTEMPTED" /\ Progress(b)' = "OVER"
    BY <1>1, <1>3, <2>1 DEF Progress, None
  <2> QED
    BY <1>2, <2>1, <2>2 DEF Bundle!ContractNext, Bundle!Park
<1>4. CASE c # b
  <2>1. note'[b] = note[b] /\ Progress(b)' = Progress(b)
    BY <1>1, <1>4 DEF IInv, TypeOK, Progress
  <2>2. CASE bundleOf[c] = bundleOf[b]
    <3>1. /\ OrderOf(b) \in {"PROCESSING", "FULFILLMENT_NEEDS_REVIEW"}
          /\ OrderOf(b)' = "FULFILLMENT_NEEDS_REVIEW"
      BY <1>1, <2>2, BundleViews DEF IInv, TypeOK
    <3>2. bundle[b] # None
      BY BundleViews DEF None
    <3> QED
      BY <1>2, <2>1, <3>1, <3>2
         DEF None, Bundle!None, Bundle!ContractNext, Bundle!Elsewhere
  <2>3. CASE bundleOf[c] # bundleOf[b]
    <3>1. OrderOf(b)' = OrderOf(b)
      BY <1>1, <2>3, BundleViews DEF IInv, TypeOK
    <3> QED
      BY <1>2, <2>1, <3>1, BundleStutters
  <2> QED
    BY <2>2, <2>3
<1> QED
  BY <1>3, <1>4

\* What every delivery does: it closes its bundle and unit, and completes the order if
\* the order was waiting.
LEMMA Deliveries ==
  ASSUME IInv, NEW c \in BundleIds, Finalize(c) \/ ReconcileDelivered(c) \/ OpenLink(c)
  PROVE  /\ c <= issued /\ bundleOf[c] \in Orders /\ assetOf[c] \in Assets
         /\ unit[assetOf[c]] = "READY" /\ IsLatest(c)
         /\ unit' = [unit EXCEPT ![assetOf[c]] = "DELIVERED"]
         /\ bundle[c] # "CONSUMED" /\ bundle' = [bundle EXCEPT ![c] = "CONSUMED"]
         /\ ttlOver' = ttlOver
         /\ \/ status' = status
            \/ /\ status[bundleOf[c]] \in {"PROCESSING", "FULFILLMENT_NEEDS_REVIEW"}
               /\ status' = [status EXCEPT ![bundleOf[c]] = "COMPLETED"]
<1>1. CloseDelivery(c) /\ unit[assetOf[c]] = "READY" /\ IsLatest(c)
  BY DEF Finalize, ReconcileDelivered, FinalizeDelivery, OpenLink, IInv, OpenIsLatest
<1>2. c <= issued
  BY IssuedBundles DEF IInv, SentIsDisclosed, Finalize, ReconcileDelivered, OpenLink, None
<1>3. bundleOf[c] \in Orders /\ assetOf[c] \in Assets
  BY <1>2, IssuedBundles DEF IInv
<1>4. bundle[c] # "CONSUMED"
  BY DEF Finalize, ReconcileDelivered, FinalizeDelivery, IsFirstDelivery, OpenLink, IsOpen
<1>5. \/ status' = status
      \/ /\ status[bundleOf[c]] \in {"PROCESSING", "FULFILLMENT_NEEDS_REVIEW"}
         /\ status' = [status EXCEPT ![bundleOf[c]] = "COMPLETED"]
  <2>1. CASE OpenLink(c)
    BY <1>3, <2>1 DEF OpenLink, IInv, TypeOK
  <2>2. CASE Finalize(c) \/ ReconcileDelivered(c)
    BY <2>2 DEF Finalize, ReconcileDelivered, FinalizeDelivery
  <2> QED
    BY <2>1, <2>2
<1> QED
  BY <1>1, <1>2, <1>3, <1>4, <1>5 DEF CloseDelivery

\* The message, the owner or the buyer delivers the bundle; an older bundle of the order
\* is not open then, and one of another order is about another unit.
LEMMA BundleDelivered ==
  ASSUME IInv, [Next]_vars, NEW b \in BundleIds, b <= issued, NEW c \in BundleIds,
         Finalize(c) \/ ReconcileDelivered(c) \/ OpenLink(c)
  PROVE  [Bundle(b)!ContractNext]_(Bundle(b)!contractVars)
<1>1. ttlOver'[b] = ttlOver[b]
  BY Deliveries
<1>2. CASE c = b
  <2>1. /\ bundle[b] # "CONSUMED" /\ bundle'[b] = "CONSUMED"
        /\ UnitOf(b) = "READY" /\ UnitOf(b)' = "DELIVERED"
    BY <1>2, Deliveries, BundleViews DEF IInv, TypeOK
  <2>2. Bundle(b)!Close
    BY <1>1, <2>1 DEF Bundle!Close
  <2>3. CASE Finalize(b)
    <3>1. /\ note[b] = "SENT" /\ note'[b] = "FINAL"
          /\ OrderOf(b) = "PROCESSING" /\ OrderOf(b)' = "COMPLETED"
      BY <2>3, BundleViews DEF Finalize, FinalizeDelivery, IInv, TypeOK
    <3>2. Progress(b) = "ATTEMPTED" /\ Progress(b)' = "OVER"
      BY <3>1 DEF Progress, None
    <3> QED
      BY <2>2, <3>1, <3>2 DEF Bundle!ContractNext, Bundle!Finalize
  <2>4. CASE ReconcileDelivered(b)
    <3>1. /\ note[b] = "FINAL" /\ note'[b] = "FINAL" /\ bundle[b] = "EXPIRED"
          /\ OrderOf(b) = "FULFILLMENT_NEEDS_REVIEW" /\ OrderOf(b)' = "COMPLETED"
      BY <2>4, BundleViews DEF ReconcileDelivered, FinalizeDelivery, IInv, TypeOK
    <3>2. Progress(b) = "OVER" /\ Progress(b)' = "OVER"
      BY <3>1 DEF Progress, None
    <3> QED
      BY <2>2, <3>1, <3>2 DEF Bundle!ContractNext, Bundle!Reconcile
  <2>5. CASE OpenLink(b)
    <3>1. /\ note[b] # None /\ note' = note /\ IsOpen(b)
          /\ bundle[b] = "VIEWED" \/ ~ttlOver[b]
          /\ OrderOf(b)' = IF OrderOf(b) = "PROCESSING" THEN "COMPLETED" ELSE OrderOf(b)
      BY <2>5, BundleViews DEF OpenLink, IInv, TypeOK
    <3>2. Progress(b) # None /\ Progress(b)' = Progress(b)
      BY <3>1 DEF Progress, None, IInv, TypeOK
    <3> QED
      BY <2>2, <3>1, <3>2
         DEF IsOpen, None, Bundle!None, Bundle!Live, Bundle!ContractNext, Bundle!Open
  <2> QED
    BY <1>2, <2>3, <2>4, <2>5
<1>3. CASE c # b
  <2>1. bundle'[b] = bundle[b] /\ Progress(b)' = Progress(b)
    <3>1. note'[b] = note[b]
      BY <1>3 DEF Finalize, ReconcileDelivered, FinalizeDelivery, OpenLink, IInv, TypeOK
    <3> QED
      BY <1>3, <3>1, Deliveries DEF IInv, TypeOK, Progress
  <2>2. CASE bundleOf[c] = bundleOf[b]
    <3>1. bundle[b] \in {"CONSUMED", "EXPIRED"}
      <4>1. ~IsOpen(b)
        BY <1>3, <2>2, Deliveries DEF IInv, OpenIsLatest, IsLatest, BundleIds
      <4> QED
        BY <4>1, BundleViews DEF IsOpen
    <3>2. \/ OrderOf(b)' = OrderOf(b)
          \/ /\ OrderOf(b) \in {"PROCESSING", "FULFILLMENT_NEEDS_REVIEW"}
             /\ OrderOf(b)' = "COMPLETED"
      BY <2>2, Deliveries, BundleViews DEF IInv, TypeOK
    <3>3. UnitOf(b)' \in {UnitOf(b), "DELIVERED"}
      BY Deliveries, BundleViews DEF IInv, TypeOK
    <3> QED
      BY <1>1, <2>1, <3>1, <3>2, <3>3 DEF None, Bundle!None, Bundle!ContractNext, Bundle!Elsewhere
  <2>3. CASE bundleOf[c] # bundleOf[b]
    <3>1. assetOf[c] # assetOf[b]
      BY <2>3, Deliveries DEF IInv, IssuedIsKept
    <3>2. OrderOf(b)' = OrderOf(b) /\ UnitOf(b)' = UnitOf(b)
      BY <2>3, <3>1, Deliveries, BundleViews DEF IInv, TypeOK
    <3> QED
      BY <1>1, <2>1, <3>2 DEF Bundle!contractVars
  <2> QED
    BY <2>2, <2>3
<1> QED
  BY <1>2, <1>3

LEMMA ContractStep ==
  ASSUME IInv, [Next]_vars, IInv', NEW b \in BundleIds
  PROVE  [Bundle(b)!ContractNext]_(Bundle(b)!contractVars)
<1>1. CASE ~(b <= issued) /\ ~(b <= issued')
  <2>1. /\ bundle[b] = None /\ bundle'[b] = None /\ note[b] = None /\ note'[b] = None
        /\ OrderOf(b) = None /\ OrderOf(b)' = None /\ UnitOf(b) = None /\ UnitOf(b)' = None
    BY <1>1 DEF IInv, TypeOK, SentIsDisclosed, OrderOf, UnitOf
  <2>2. ttlOver'[b] = ttlOver[b]
    <3>1. /\ ttlOver[b] \in BOOLEAN /\ ttlOver'[b] \in BOOLEAN /\ ~ttlOver[b] /\ ~ttlOver'[b]
      BY <1>1, Zenon DEF IInv, TypeOK, RevealedIsViewed
    <3> QED
      BY <3>1, Zenon
  <2> QED
    BY <2>1, <2>2, BundleStutters
<1>2. CASE ~(b <= issued) /\ b <= issued'
  BY <1>2, BundleIssued DEF Bundle!ContractNext
<1>3. CASE b <= issued
  <2>1. \/ UNCHANGED <<status, unitVars, bundleVars, note>>
        \/ \E r \in Runs :
             ClaimAsset(r) \/ IssueBundle(r) \/ StartProcessing(r) \/ QueueHandoff(r)
        \/ \E c \in BundleIds :
             \/ RevealSecret(c) \/ SendCredential(c) \/ BundleLapses(c) \/ RecoverExpiredBundle(c)
             \/ ParkUncertain(c) \/ Finalize(c) \/ ReconcileDelivered(c) \/ OpenLink(c)
        \/ \E u \in Assets : RecoverStaleReservation(u)
    BY DEF Next, vars, RunStep, QueueFile, LoadOrder, RunDies
  <2> QED
    BY <1>3, <2>1, BundleUntouched, BundleReissued, BundleQueued, BundleMessaged, BundleParked,
       BundleDelivered
<1> QED
  BY <1>1, <1>2, <1>3

\* However runs, lanes, links and sweeps interleave, and whatever becomes of the order's
\* other bundles, each bundle keeps the contract that DeliveryHandoff implements from the
\* inside: its message is attempted once, with a secret revealed in time, and its order,
\* unit and bundle end together.
THEOREM FulfilmentKeepsContract == Spec => BundlesKeepContract
<1>1. ASSUME Init, NEW b \in BundleIds PROVE Bundle(b)!ContractInit
  BY <1>1 DEF Init, BundleIds, OrderOf, UnitOf, Progress, None, Bundle!ContractInit,
     Bundle!Absent, Bundle!None
<1>2. Init => \A b \in BundleIds : Bundle(b)!ContractInit
  BY <1>1
<1>3. IInv /\ [Next]_vars /\ IInv' =>
        [\A b \in BundleIds : Sees(b) => Bundle(b)!ContractNext]_vars
  BY ContractStep DEF Sees
<1> QED
  BY <1>2, <1>3, FulfilmentInv, PTL DEF Spec, BundlesKeepContract

=============================================================================
