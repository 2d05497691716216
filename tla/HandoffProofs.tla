--------------------------- MODULE HandoffProofs ---------------------------
(***************************************************************************)
(* The delivery message of an order leaves the shop once and cannot be called *)
(* back; for any number of lanes, handler runs, taps, crashes and failing     *)
(* statements.  The attempt is marked, in a transaction of its own, before    *)
(* the send; only the holder of the latest claim marks, and on a row that was *)
(* never attempted; so whoever marks is the first to do so, and whoever       *)
(* sends has marked.  It follows that all this is the inside of the delivery  *)
(* contract: HandoffKeepsContract, the last theorem.                          *)
(***************************************************************************)
EXTENDS DeliveryHandoff, TLAPS

-----------------------------------------------------------------------------
(* The delivery notification.  The fence passes only the sender that made the *)
(* latest claim, and that sender read no attempt after its claim.            *)


\* A sender that read no attempt and still holds the row: there is none.
Unmarked == {"checking", "renewing", "revealing", "marking"}
MarksFirst == \A s \in Senders : run[s] \in Unmarked /\ Fenced(s) => ~attempted

\* A message is on its way only for the one sender that marked the attempt,
\* and the provider's proof is about a message that arrived.
SendsAreMarked ==
  /\ sends <= 1
  /\ ~attempted => sends = 0
  /\ proof => attempted /\ sends = 1
  /\ \A s \in Senders :
       /\ run[s] = "sending" => attempted /\ sends = 0
       /\ run[s] = "persisting" => attempted /\ sends = 1
       /\ \A r \in Senders : run[s] = "sending" /\ run[r] = "sending" => s = r

\* A row in use has a capability, and a capability is of a session begun.
QueuedHasCapability ==
  /\ handoff \in {"STORED", "READY", "RETRY", "PROCESSING", "SENT"} => cap # 0
  /\ handoff # None => session # 0
  /\ \A c \in Creators : creator[c] \in {"writing", "written"} => held[c] # 0

\* The link closes the bundle it shows.
ShownIsConsumed == \A t \in Taps : tap[t] = "shown" => bundle = "CONSUMED"

Closed == ShownIsConsumed /\ ShownAtMostOnce /\ CompletionIsEarned

\* No attempt, lane or tap precedes the row.
QueuedFirst ==
  handoff = None =>
    /\ ~attempted /\ session = 0
    /\ \A s \in Senders : run[s] = "idle"
    /\ \A t \in Taps : tap[t] = None

\* Only an attempt is parked, and its order does not go back to PROCESSING.
ParkedForReview ==
  /\ \A s \in Senders : run[s] = "parking" => attempted
  /\ parked => attempted /\ order # "PROCESSING"

\* A sender that will mark, and a tap that will consume, have revealed the bundle.
RevealedFirst ==
  bundle = "AVAILABLE" =>
    /\ \A s \in Senders : run[s] # "marking"
    /\ \A t \in Taps : tap[t] # "revealed"

OpenIsUnsold == Open => unit = "READY"

\* What the contract adds to the promises above.
Owed == QueuedFirst /\ ParkedForReview /\ RevealedFirst /\ OpenIsUnsold

IInv ==
  /\ TypeOK /\ QueuedHasCapability /\ MarksFirst /\ SendsAreMarked
  /\ AttemptIsAccounted /\ Closed /\ Owed

-----------------------------------------------------------------------------
(* Type correctness.  The owner column follows the status because only a     *)
(* row with a capability is ever in use.                                     *)

LEMMA InitType == Init => TypeOK
<1> SUFFICES ASSUME Init PROVE TypeOK
  OBVIOUS
<1>1. {disputed, ttlOver, leased, attempted, proof, parked} \subseteq BOOLEAN
  BY Zenon DEF Init
<1> QED
  BY <1>1, HandoffConstants DEF Init, TypeOK, None

LEMMA NextType == TypeOK /\ QueuedHasCapability /\ [Next]_vars => TypeOK'
<1> SUFFICES ASSUME TypeOK, QueuedHasCapability, [Next]_vars PROVE TypeOK'
  OBVIOUS
<1> USE HandoffConstants DEF TypeOK, QueuedHasCapability, Busy, rowVars, shopVars, limits
<1>0. ASSUME UNCHANGED vars PROVE TypeOK'
  BY <1>0 DEF vars
<1>1. ASSUME NEW c \in Creators, FulfillPaidOrder(c) PROVE TypeOK'
  BY <1>1 DEF FulfillPaidOrder, Live, Open
<1>2. ASSUME NEW c \in Creators, PrepareHandoff(c) PROVE TypeOK'
  BY <1>2 DEF PrepareHandoff, Live, Open, IsReusable, RevokedTaps
<1>3. ASSUME NEW c \in Creators, AdoptCapability(c) PROVE TypeOK'
  BY <1>3 DEF AdoptCapability
<1>4. ASSUME NEW c \in Creators, MakeReady(c) PROVE TypeOK'
  BY <1>4 DEF MakeReady
<1>5. ASSUME NEW c \in Creators, CreatorCrash(c) PROVE TypeOK'
  BY <1>5 DEF CreatorCrash
<1>6. ASSUME NEW s \in Senders, ClaimDeliveryNotification(s) PROVE TypeOK'
  BY <1>6 DEF ClaimDeliveryNotification, IsClaimable, Goto
<1>7. ASSUME NEW s \in Senders, ReadEvidence(s) PROVE TypeOK'
  BY <1>7 DEF ReadEvidence, NextAfterEvidence, Goto
<1>8. ASSUME NEW s \in Senders, CheckBundle(s) PROVE TypeOK'
  <2>1. leased' \in BOOLEAN
    BY <1>8, Zenon DEF CheckBundle, Release, TypeOK
  <2> QED
    BY <1>8, <2>1 DEF CheckBundle, Release, FencedInTime, Fenced, Goto
<1>9. ASSUME NEW s \in Senders, RenewLease(s) PROVE TypeOK'
  BY <1>9 DEF RenewLease, FencedInTime, Fenced, Goto
<1>10. ASSUME NEW s \in Senders, RevealSecret(s) PROVE TypeOK'
  BY <1>10 DEF RevealSecret, Live, Open, Goto
<1>11. ASSUME NEW s \in Senders, MarkSendAttempt(s) PROVE TypeOK'
  BY <1>11 DEF MarkSendAttempt, FencedInTime, Fenced, Goto
<1>12. ASSUME NEW s \in Senders, SendCredential(s) PROVE TypeOK'
  BY <1>12 DEF SendCredential, Goto
<1>13. ASSUME NEW s \in Senders, PersistProviderEvidence(s) PROVE TypeOK'
  BY <1>13 DEF PersistProviderEvidence, FencedInTime, Fenced, Goto
<1>14. ASSUME NEW s \in Senders, FinalizeDelivery(s) PROVE TypeOK'
  <2>1. leased' \in BOOLEAN
    BY <1>14, Zenon DEF FinalizeDelivery, Release, TypeOK
  <2> QED
    BY <1>14, <2>1 DEF FinalizeDelivery, Complete, Release, FencedInTime, Fenced, Goto
<1>15. ASSUME NEW s \in Senders, HandleFailure(s) PROVE TypeOK'
  <2>1. leased' \in BOOLEAN
    BY <1>15, Zenon DEF HandleFailure, Release, TypeOK
  <2> QED
    BY <1>15, <2>1 DEF HandleFailure, MayHaveSent, Terminal, Release, FencedInTime, Fenced, Goto
<1>16. ASSUME NEW s \in Senders, ParkDeliveryUncertain(s) PROVE TypeOK'
  <2>1. leased' \in BOOLEAN
    BY <1>16, Zenon DEF ParkDeliveryUncertain, Release, TypeOK
  <2>2. CASE ~parked /\ Fenced(s) /\ order # "COMPLETED"
    <3>1. handoff' \in {"SENT", "DEAD"} /\ owner' = None
      BY <1>16, <2>2 DEF ParkDeliveryUncertain, Release
    <3> QED
      BY <1>16, <2>1, <2>2, <3>1 DEF ParkDeliveryUncertain, Goto
  <2>3. CASE ~(~parked /\ Fenced(s) /\ order # "COMPLETED")
    BY <1>16, <2>1, <2>3 DEF ParkDeliveryUncertain, Goto
  <2> QED
    BY <2>2, <2>3
<1>17. ASSUME NEW s \in Senders, SenderCrash(s) PROVE TypeOK'
  BY <1>17 DEF SenderCrash, Goto
<1>18. ASSUME NEW s \in Senders, StatementFails(s) PROVE TypeOK'
  BY <1>18 DEF StatementFails, Goto
<1>19. ASSUME NEW t \in Taps, OpenLink(t) PROVE TypeOK'
  BY <1>19 DEF OpenLink, Live, Open
<1>20. ASSUME NEW t \in Taps, ConsumeDeliveryBundle(t) PROVE TypeOK'
  BY <1>20 DEF ConsumeDeliveryBundle, IsConsumable
<1>21. ASSUME RecoverStoredHandoff PROVE TypeOK'
  BY <1>21 DEF RecoverStoredHandoff, Live, Open
<1>22. ASSUME RecoverExpiredBundle PROVE TypeOK'
  BY <1>22 DEF RecoverExpiredBundle, Open
<1>23. ASSUME ReconcileDelivered PROVE TypeOK'
  BY <1>23 DEF ReconcileDelivered, Complete
<1>24. ASSUME LeaseLapses PROVE TypeOK'
  <2>1. leased' \in BOOLEAN
    BY <1>24, Zenon DEF LeaseLapses, TypeOK
  <2> QED
    BY <1>24, <2>1 DEF LeaseLapses
<1>25. ASSUME BundleLapses PROVE TypeOK'
  BY <1>25 DEF BundleLapses, Live, Open
<1>26. ASSUME Dispute PROVE TypeOK'
  BY <1>26 DEF Dispute
<1> QED
  BY <1>0, <1>1, <1>2, <1>3, <1>4, <1>5, <1>6, <1>7, <1>8, <1>9, <1>10, <1>11, <1>12, <1>13,
     <1>14, <1>15, <1>16, <1>17, <1>18, <1>19, <1>20, <1>21, <1>22, <1>23, <1>24, <1>25,
     <1>26
     DEF Next, CreatorStep, SenderStep
-----------------------------------------------------------------------------
(* The row and its capability *)

\* A row leaves PREPARED only with the capability of the session it prepared.
LEMMA CapabilityStep == TypeOK /\ QueuedHasCapability /\ [Next]_vars => QueuedHasCapability'
<1> SUFFICES ASSUME TypeOK /\ QueuedHasCapability, [Next]_vars PROVE QueuedHasCapability'
  OBVIOUS
<1> USE DEF TypeOK, rowVars, shopVars, limits, QueuedHasCapability, Fenced, Goto
<1>1. ASSUME UNCHANGED vars PROVE QueuedHasCapability'
  BY <1>1 DEF vars
<1>2. ASSUME NEW c \in Creators, CreatorStep(c) \/ CreatorCrash(c) PROVE QueuedHasCapability'
  <2>1. CASE FulfillPaidOrder(c)
    BY <2>1 DEF FulfillPaidOrder
  <2>2. CASE PrepareHandoff(c)
    <3>1. CASE ~Live \/ IsReusable
      BY <2>2, <3>1 DEF PrepareHandoff, None
    <3>2. CASE ~(~Live \/ IsReusable)
      <4>1. session' \in {session, session + 1} /\ session' # 0
        BY <2>2, <3>2 DEF PrepareHandoff, None
      <4>2. handoff' = "PREPARED" /\ creator' = [creator EXCEPT ![c] = "writing"]
            /\ held' = [held EXCEPT ![c] = session']
        BY <2>2, <3>2 DEF PrepareHandoff
      <4> QED
        BY <4>1, <4>2
    <3> QED
      BY <3>1, <3>2
  <2>3. CASE AdoptCapability(c)
    BY <2>3 DEF AdoptCapability, None
  <2>4. CASE MakeReady(c)
    BY <2>4 DEF MakeReady, None
  <2>5. CASE CreatorCrash(c)
    BY <2>5 DEF CreatorCrash
  <2> QED
    BY <1>2, <2>1, <2>2, <2>3, <2>4, <2>5 DEF CreatorStep
<1>3. ASSUME NEW s \in Senders, ClaimDeliveryNotification(s) PROVE QueuedHasCapability'
  BY <1>3 DEF ClaimDeliveryNotification, IsClaimable
<1>4. ASSUME NEW s \in Senders, ReadEvidence(s) PROVE QueuedHasCapability'
  BY <1>4 DEF ReadEvidence, NextAfterEvidence
<1>5. ASSUME NEW s \in Senders, CheckBundle(s) PROVE QueuedHasCapability'
  BY <1>5 DEF CheckBundle, Release, FencedInTime
<1>6. ASSUME NEW s \in Senders, RenewLease(s) PROVE QueuedHasCapability'
  BY <1>6 DEF RenewLease, FencedInTime
<1>7. ASSUME NEW s \in Senders, RevealSecret(s) PROVE QueuedHasCapability'
  BY <1>7 DEF RevealSecret, Live, Open
<1>8. ASSUME NEW s \in Senders, MarkSendAttempt(s) PROVE QueuedHasCapability'
  BY <1>8 DEF MarkSendAttempt, FencedInTime
<1>9. ASSUME NEW s \in Senders, SendCredential(s) PROVE QueuedHasCapability'
  BY <1>9 DEF SendCredential
<1>10. ASSUME NEW s \in Senders, PersistProviderEvidence(s) PROVE QueuedHasCapability'
  BY <1>10 DEF PersistProviderEvidence, FencedInTime
<1>11. ASSUME NEW s \in Senders, FinalizeDelivery(s) PROVE QueuedHasCapability'
  BY <1>11 DEF FinalizeDelivery, Complete, Release, FencedInTime
<1>12. ASSUME NEW s \in Senders, HandleFailure(s) PROVE QueuedHasCapability'
  BY <1>12 DEF HandleFailure, MayHaveSent, Terminal, Release, FencedInTime
<1>13. ASSUME NEW s \in Senders, ParkDeliveryUncertain(s) PROVE QueuedHasCapability'
  BY <1>13 DEF ParkDeliveryUncertain, Release
<1>14. ASSUME NEW s \in Senders, SenderCrash(s) PROVE QueuedHasCapability'
  BY <1>14 DEF SenderCrash
<1>15. ASSUME NEW s \in Senders, StatementFails(s) PROVE QueuedHasCapability'
  BY <1>15 DEF StatementFails
<1>16. ASSUME NEW t \in Taps, OpenLink(t) \/ ConsumeDeliveryBundle(t) PROVE QueuedHasCapability'
  BY <1>16 DEF OpenLink, ConsumeDeliveryBundle, IsConsumable, Live, Open
<1>17. ASSUME \/ RecoverStoredHandoff \/ RecoverExpiredBundle \/ ReconcileDelivered
              \/ LeaseLapses \/ BundleLapses \/ Dispute
       PROVE QueuedHasCapability'
  BY <1>17 DEF RecoverStoredHandoff, RecoverExpiredBundle, ReconcileDelivered, LeaseLapses, BundleLapses,
              Dispute, Live, Open, Complete
<1> QED
  BY <1>1, <1>2, <1>3, <1>4, <1>5, <1>6, <1>7, <1>8, <1>9, <1>10, <1>11, <1>12, <1>13, <1>14,
     <1>15, <1>16, <1>17
     DEF Next, SenderStep
-----------------------------------------------------------------------------
(* One send *)

\* The sender that holds the row is the only one who can mark the attempt.
LEMMA MarksStep == TypeOK /\ QueuedHasCapability /\ MarksFirst /\ [Next]_vars => MarksFirst'
<1> SUFFICES ASSUME TypeOK /\ QueuedHasCapability /\ MarksFirst, [Next]_vars PROVE MarksFirst'
  OBVIOUS
<1> USE DEF TypeOK, rowVars, shopVars, limits, QueuedHasCapability, MarksFirst, Unmarked, Fenced, Goto
<1>1. ASSUME UNCHANGED vars PROVE MarksFirst'
  BY <1>1 DEF vars
<1>2. ASSUME NEW c \in Creators, CreatorStep(c) \/ CreatorCrash(c) PROVE MarksFirst'
  BY <1>2 DEF FulfillPaidOrder, PrepareHandoff, AdoptCapability, MakeReady, CreatorCrash, CreatorStep,
              Live, Open, IsReusable, RevokedTaps
<1>3. ASSUME NEW s \in Senders, ClaimDeliveryNotification(s) PROVE MarksFirst'
  BY <1>3 DEF ClaimDeliveryNotification, IsClaimable
<1>4. ASSUME NEW s \in Senders, ReadEvidence(s) PROVE MarksFirst'
  BY <1>4 DEF ReadEvidence, NextAfterEvidence
<1>5. ASSUME NEW s \in Senders, CheckBundle(s) PROVE MarksFirst'
  BY <1>5 DEF CheckBundle, Release, FencedInTime
<1>6. ASSUME NEW s \in Senders, RenewLease(s) PROVE MarksFirst'
  BY <1>6 DEF RenewLease, FencedInTime
<1>7. ASSUME NEW s \in Senders, RevealSecret(s) PROVE MarksFirst'
  BY <1>7 DEF RevealSecret, Live, Open
<1>8. ASSUME NEW s \in Senders, MarkSendAttempt(s) PROVE MarksFirst'
  BY <1>8 DEF MarkSendAttempt, FencedInTime
<1>9. ASSUME NEW s \in Senders, SendCredential(s) PROVE MarksFirst'
  BY <1>9 DEF SendCredential
<1>10. ASSUME NEW s \in Senders, PersistProviderEvidence(s) PROVE MarksFirst'
  BY <1>10 DEF PersistProviderEvidence, FencedInTime
<1>11. ASSUME NEW s \in Senders, FinalizeDelivery(s) PROVE MarksFirst'
  BY <1>11 DEF FinalizeDelivery, Complete, Release, FencedInTime
<1>12. ASSUME NEW s \in Senders, HandleFailure(s) PROVE MarksFirst'
  BY <1>12 DEF HandleFailure, MayHaveSent, Terminal, Release, FencedInTime
<1>13. ASSUME NEW s \in Senders, ParkDeliveryUncertain(s) PROVE MarksFirst'
  BY <1>13 DEF ParkDeliveryUncertain, Release
<1>14. ASSUME NEW s \in Senders, SenderCrash(s) PROVE MarksFirst'
  BY <1>14 DEF SenderCrash
<1>15. ASSUME NEW s \in Senders, StatementFails(s) PROVE MarksFirst'
  BY <1>15 DEF StatementFails
<1>16. ASSUME NEW t \in Taps, OpenLink(t) \/ ConsumeDeliveryBundle(t) PROVE MarksFirst'
  BY <1>16 DEF OpenLink, ConsumeDeliveryBundle, IsConsumable, Live, Open
<1>17. ASSUME \/ RecoverStoredHandoff \/ RecoverExpiredBundle \/ ReconcileDelivered
              \/ LeaseLapses \/ BundleLapses \/ Dispute
       PROVE MarksFirst'
  BY <1>17 DEF RecoverStoredHandoff, RecoverExpiredBundle, ReconcileDelivered, LeaseLapses, BundleLapses,
              Dispute, Live, Open, Complete
<1> QED
  BY <1>1, <1>2, <1>3, <1>4, <1>5, <1>6, <1>7, <1>8, <1>9, <1>10, <1>11, <1>12, <1>13, <1>14,
     <1>15, <1>16, <1>17
     DEF Next, SenderStep

\* Only the first marking leads to a send.
LEMMA SendsStep == TypeOK /\ MarksFirst /\ SendsAreMarked /\ [Next]_vars => SendsAreMarked'
<1> SUFFICES ASSUME TypeOK /\ MarksFirst /\ SendsAreMarked, [Next]_vars PROVE SendsAreMarked'
  OBVIOUS
<1> USE DEF TypeOK, rowVars, shopVars, limits, MarksFirst, Unmarked, SendsAreMarked, Fenced, Goto
<1>1. ASSUME UNCHANGED vars PROVE SendsAreMarked'
  BY <1>1 DEF vars
<1>2. ASSUME NEW c \in Creators, CreatorStep(c) \/ CreatorCrash(c) PROVE SendsAreMarked'
  BY <1>2 DEF FulfillPaidOrder, PrepareHandoff, AdoptCapability, MakeReady, CreatorCrash, CreatorStep,
              Live, Open, IsReusable, RevokedTaps
<1>3. ASSUME NEW s \in Senders, ClaimDeliveryNotification(s) PROVE SendsAreMarked'
  BY <1>3 DEF ClaimDeliveryNotification, IsClaimable
<1>4. ASSUME NEW s \in Senders, ReadEvidence(s) PROVE SendsAreMarked'
  BY <1>4 DEF ReadEvidence, NextAfterEvidence
<1>5. ASSUME NEW s \in Senders, CheckBundle(s) PROVE SendsAreMarked'
  BY <1>5 DEF CheckBundle, Release, FencedInTime
<1>6. ASSUME NEW s \in Senders, RenewLease(s) PROVE SendsAreMarked'
  BY <1>6 DEF RenewLease, FencedInTime
<1>7. ASSUME NEW s \in Senders, RevealSecret(s) PROVE SendsAreMarked'
  BY <1>7 DEF RevealSecret, Live, Open
<1>8. ASSUME NEW s \in Senders, MarkSendAttempt(s) PROVE SendsAreMarked'
  BY <1>8 DEF MarkSendAttempt, FencedInTime
<1>9. ASSUME NEW s \in Senders, SendCredential(s) PROVE SendsAreMarked'
  BY <1>9 DEF SendCredential
<1>10. ASSUME NEW s \in Senders, PersistProviderEvidence(s) PROVE SendsAreMarked'
  BY <1>10 DEF PersistProviderEvidence, FencedInTime
<1>11. ASSUME NEW s \in Senders, FinalizeDelivery(s) PROVE SendsAreMarked'
  BY <1>11 DEF FinalizeDelivery, Complete, Release, FencedInTime
<1>12. ASSUME NEW s \in Senders, HandleFailure(s) PROVE SendsAreMarked'
  BY <1>12 DEF HandleFailure, MayHaveSent, Terminal, Release, FencedInTime
<1>13. ASSUME NEW s \in Senders, ParkDeliveryUncertain(s) PROVE SendsAreMarked'
  BY <1>13 DEF ParkDeliveryUncertain, Release
<1>14. ASSUME NEW s \in Senders, SenderCrash(s) PROVE SendsAreMarked'
  BY <1>14 DEF SenderCrash
<1>15. ASSUME NEW s \in Senders, StatementFails(s) PROVE SendsAreMarked'
  BY <1>15 DEF StatementFails
<1>16. ASSUME NEW t \in Taps, OpenLink(t) \/ ConsumeDeliveryBundle(t) PROVE SendsAreMarked'
  BY <1>16 DEF OpenLink, ConsumeDeliveryBundle, IsConsumable, Live, Open
<1>17. ASSUME \/ RecoverStoredHandoff \/ RecoverExpiredBundle \/ ReconcileDelivered
              \/ LeaseLapses \/ BundleLapses \/ Dispute
       PROVE SendsAreMarked'
  BY <1>17 DEF RecoverStoredHandoff, RecoverExpiredBundle, ReconcileDelivered, LeaseLapses, BundleLapses,
              Dispute, Live, Open, Complete
<1> QED
  BY <1>1, <1>2, <1>3, <1>4, <1>5, <1>6, <1>7, <1>8, <1>9, <1>10, <1>11, <1>12, <1>13, <1>14,
     <1>15, <1>16, <1>17
     DEF Next, SenderStep
-----------------------------------------------------------------------------
(* What the buyer and the owner see *)

\* A row is given back untouched, with its order completed, or under review.
LEMMA AttemptStep ==
  TypeOK /\ QueuedHasCapability /\ MarksFirst /\ AttemptIsAccounted /\ [Next]_vars
    => AttemptIsAccounted'
<1> SUFFICES ASSUME TypeOK /\ QueuedHasCapability /\ MarksFirst /\ AttemptIsAccounted,
                    [Next]_vars
             PROVE  AttemptIsAccounted'
  OBVIOUS
<1> USE DEF TypeOK, rowVars, shopVars, limits, QueuedHasCapability, MarksFirst, Unmarked,
        AttemptIsAccounted, Fenced, Goto
<1>1. ASSUME UNCHANGED vars PROVE AttemptIsAccounted'
  BY <1>1 DEF vars
<1>2. ASSUME NEW c \in Creators, CreatorStep(c) \/ CreatorCrash(c) PROVE AttemptIsAccounted'
  BY <1>2 DEF FulfillPaidOrder, PrepareHandoff, AdoptCapability, MakeReady, CreatorCrash, CreatorStep,
              Live, Open, IsReusable, RevokedTaps
<1>3. ASSUME NEW s \in Senders, ClaimDeliveryNotification(s) PROVE AttemptIsAccounted'
  BY <1>3 DEF ClaimDeliveryNotification, IsClaimable
<1>4. ASSUME NEW s \in Senders, ReadEvidence(s) PROVE AttemptIsAccounted'
  BY <1>4 DEF ReadEvidence, NextAfterEvidence
<1>5. ASSUME NEW s \in Senders, CheckBundle(s) PROVE AttemptIsAccounted'
  BY <1>5 DEF CheckBundle, Release, FencedInTime
<1>6. ASSUME NEW s \in Senders, RenewLease(s) PROVE AttemptIsAccounted'
  BY <1>6 DEF RenewLease, FencedInTime
<1>7. ASSUME NEW s \in Senders, RevealSecret(s) PROVE AttemptIsAccounted'
  BY <1>7 DEF RevealSecret, Live, Open
<1>8. ASSUME NEW s \in Senders, MarkSendAttempt(s) PROVE AttemptIsAccounted'
  BY <1>8 DEF MarkSendAttempt, FencedInTime
<1>9. ASSUME NEW s \in Senders, SendCredential(s) PROVE AttemptIsAccounted'
  BY <1>9 DEF SendCredential
<1>10. ASSUME NEW s \in Senders, PersistProviderEvidence(s) PROVE AttemptIsAccounted'
  BY <1>10 DEF PersistProviderEvidence, FencedInTime
<1>11. ASSUME NEW s \in Senders, FinalizeDelivery(s) PROVE AttemptIsAccounted'
  BY <1>11 DEF FinalizeDelivery, Complete, Release, FencedInTime
<1>12. ASSUME NEW s \in Senders, HandleFailure(s) PROVE AttemptIsAccounted'
  BY <1>12 DEF HandleFailure, MayHaveSent, Terminal, Release, FencedInTime
<1>13. ASSUME NEW s \in Senders, ParkDeliveryUncertain(s) PROVE AttemptIsAccounted'
  BY <1>13 DEF ParkDeliveryUncertain, Release
<1>14. ASSUME NEW s \in Senders, SenderCrash(s) PROVE AttemptIsAccounted'
  BY <1>14 DEF SenderCrash
<1>15. ASSUME NEW s \in Senders, StatementFails(s) PROVE AttemptIsAccounted'
  BY <1>15 DEF StatementFails
<1>16. ASSUME NEW t \in Taps, OpenLink(t) \/ ConsumeDeliveryBundle(t) PROVE AttemptIsAccounted'
  BY <1>16 DEF OpenLink, ConsumeDeliveryBundle, IsConsumable, Live, Open
<1>17. ASSUME \/ RecoverStoredHandoff \/ RecoverExpiredBundle \/ ReconcileDelivered
              \/ LeaseLapses \/ BundleLapses \/ Dispute
       PROVE AttemptIsAccounted'
  BY <1>17 DEF RecoverStoredHandoff, RecoverExpiredBundle, ReconcileDelivered, LeaseLapses, BundleLapses,
              Dispute, Live, Open, Complete
<1> QED
  BY <1>1, <1>2, <1>3, <1>4, <1>5, <1>6, <1>7, <1>8, <1>9, <1>10, <1>11, <1>12, <1>13, <1>14,
     <1>15, <1>16, <1>17
     DEF Next, SenderStep

\* A consumed bundle stays consumed, and only its consumer shows it or closes it.
LEMMA ClosedStep == TypeOK /\ SendsAreMarked /\ Closed /\ [Next]_vars => Closed'
<1> SUFFICES ASSUME TypeOK /\ SendsAreMarked /\ Closed, [Next]_vars PROVE Closed'
  OBVIOUS
<1> USE DEF TypeOK, rowVars, shopVars, limits, SendsAreMarked, Closed, ShownIsConsumed,
        ShownAtMostOnce, CompletionIsEarned, Goto
<1>1. ASSUME UNCHANGED vars PROVE Closed'
  BY <1>1 DEF vars
<1>2. ASSUME NEW c \in Creators, CreatorStep(c) \/ CreatorCrash(c) PROVE Closed'
  BY <1>2 DEF FulfillPaidOrder, PrepareHandoff, AdoptCapability, MakeReady, CreatorCrash, CreatorStep,
              Live, Open, IsReusable, RevokedTaps
<1>3. ASSUME NEW s \in Senders, ClaimDeliveryNotification(s) PROVE Closed'
  BY <1>3 DEF ClaimDeliveryNotification, IsClaimable
<1>4. ASSUME NEW s \in Senders, ReadEvidence(s) PROVE Closed'
  BY <1>4 DEF ReadEvidence, NextAfterEvidence
<1>5. ASSUME NEW s \in Senders, CheckBundle(s) PROVE Closed'
  BY <1>5 DEF CheckBundle, Release, FencedInTime
<1>6. ASSUME NEW s \in Senders, RenewLease(s) PROVE Closed'
  BY <1>6 DEF RenewLease, FencedInTime
<1>7. ASSUME NEW s \in Senders, RevealSecret(s) PROVE Closed'
  BY <1>7 DEF RevealSecret, Live, Open
<1>8. ASSUME NEW s \in Senders, MarkSendAttempt(s) PROVE Closed'
  BY <1>8 DEF MarkSendAttempt, FencedInTime
<1>9. ASSUME NEW s \in Senders, SendCredential(s) PROVE Closed'
  BY <1>9 DEF SendCredential
<1>10. ASSUME NEW s \in Senders, PersistProviderEvidence(s) PROVE Closed'
  BY <1>10 DEF PersistProviderEvidence, FencedInTime
<1>11. ASSUME NEW s \in Senders, FinalizeDelivery(s) PROVE Closed'
  BY <1>11 DEF FinalizeDelivery, Complete, Release, FencedInTime
<1>12. ASSUME NEW s \in Senders, HandleFailure(s) PROVE Closed'
  BY <1>12 DEF HandleFailure, MayHaveSent, Terminal, Release, FencedInTime
<1>13. ASSUME NEW s \in Senders, ParkDeliveryUncertain(s) PROVE Closed'
  BY <1>13 DEF ParkDeliveryUncertain, Release
<1>14. ASSUME NEW s \in Senders, SenderCrash(s) PROVE Closed'
  BY <1>14 DEF SenderCrash
<1>15. ASSUME NEW s \in Senders, StatementFails(s) PROVE Closed'
  BY <1>15 DEF StatementFails
<1>16. ASSUME NEW t \in Taps, OpenLink(t) \/ ConsumeDeliveryBundle(t) PROVE Closed'
  BY <1>16 DEF OpenLink, ConsumeDeliveryBundle, IsConsumable, Live, Open
<1>17. ASSUME \/ RecoverStoredHandoff \/ RecoverExpiredBundle \/ ReconcileDelivered
              \/ LeaseLapses \/ BundleLapses \/ Dispute
       PROVE Closed'
  BY <1>17 DEF RecoverStoredHandoff, RecoverExpiredBundle, ReconcileDelivered, LeaseLapses, BundleLapses,
              Dispute, Live, Open, Complete
<1> QED
  BY <1>1, <1>2, <1>3, <1>4, <1>5, <1>6, <1>7, <1>8, <1>9, <1>10, <1>11, <1>12, <1>13, <1>14,
     <1>15, <1>16, <1>17
     DEF Next, SenderStep
\* The row comes first, then the secret, the attempt and its review; the unit is
\* sold only with its bundle.
LEMMA OwedStep == TypeOK /\ QueuedHasCapability /\ Owed /\ [Next]_vars => Owed'
<1> SUFFICES ASSUME TypeOK /\ QueuedHasCapability /\ Owed, [Next]_vars PROVE Owed'
  OBVIOUS
<1> USE DEF TypeOK, rowVars, shopVars, limits, QueuedHasCapability, Owed, QueuedFirst,
        ParkedForReview, RevealedFirst, OpenIsUnsold, Open, None, Fenced, Goto
<1>1. ASSUME UNCHANGED vars PROVE Owed'
  BY <1>1 DEF vars
<1>2. ASSUME NEW c \in Creators, CreatorStep(c) \/ CreatorCrash(c) PROVE Owed'
  BY <1>2 DEF FulfillPaidOrder, PrepareHandoff, AdoptCapability, MakeReady, CreatorCrash, CreatorStep,
              Live, Open, IsReusable, RevokedTaps
<1>3. ASSUME NEW s \in Senders, ClaimDeliveryNotification(s) PROVE Owed'
  BY <1>3 DEF ClaimDeliveryNotification, IsClaimable
<1>4. ASSUME NEW s \in Senders, ReadEvidence(s) PROVE Owed'
  BY <1>4 DEF ReadEvidence, NextAfterEvidence
<1>5. ASSUME NEW s \in Senders, CheckBundle(s) PROVE Owed'
  BY <1>5 DEF CheckBundle, Release, FencedInTime
<1>6. ASSUME NEW s \in Senders, RenewLease(s) PROVE Owed'
  BY <1>6 DEF RenewLease, FencedInTime
<1>7. ASSUME NEW s \in Senders, RevealSecret(s) PROVE Owed'
  BY <1>7 DEF RevealSecret, Live, Open
<1>8. ASSUME NEW s \in Senders, MarkSendAttempt(s) PROVE Owed'
  BY <1>8 DEF MarkSendAttempt, FencedInTime
<1>9. ASSUME NEW s \in Senders, SendCredential(s) PROVE Owed'
  BY <1>9 DEF SendCredential
<1>10. ASSUME NEW s \in Senders, PersistProviderEvidence(s) PROVE Owed'
  BY <1>10 DEF PersistProviderEvidence, FencedInTime
<1>11. ASSUME NEW s \in Senders, FinalizeDelivery(s) PROVE Owed'
  BY <1>11 DEF FinalizeDelivery, Complete, Release, FencedInTime
<1>12. ASSUME NEW s \in Senders, HandleFailure(s) PROVE Owed'
  BY <1>12 DEF HandleFailure, MayHaveSent, Terminal, Release, FencedInTime
<1>13. ASSUME NEW s \in Senders, ParkDeliveryUncertain(s) PROVE Owed'
  BY <1>13 DEF ParkDeliveryUncertain, Release
<1>14. ASSUME NEW s \in Senders, SenderCrash(s) PROVE Owed'
  BY <1>14 DEF SenderCrash
<1>15. ASSUME NEW s \in Senders, StatementFails(s) PROVE Owed'
  BY <1>15 DEF StatementFails, Busy
<1>16. ASSUME NEW t \in Taps, OpenLink(t) \/ ConsumeDeliveryBundle(t) PROVE Owed'
  BY <1>16 DEF OpenLink, ConsumeDeliveryBundle, IsConsumable, Live, Open
<1>17. ASSUME \/ RecoverStoredHandoff \/ RecoverExpiredBundle \/ ReconcileDelivered
              \/ LeaseLapses \/ BundleLapses \/ Dispute
       PROVE Owed'
  BY <1>17 DEF RecoverStoredHandoff, RecoverExpiredBundle, ReconcileDelivered, LeaseLapses, BundleLapses,
              Dispute, Live, Open, Complete
<1> QED
  BY <1>1, <1>2, <1>3, <1>4, <1>5, <1>6, <1>7, <1>8, <1>9, <1>10, <1>11, <1>12, <1>13, <1>14,
     <1>15, <1>16, <1>17
     DEF Next, SenderStep
-----------------------------------------------------------------------------
(* Results *)

LEMMA InitInv == Init => IInv
<1> SUFFICES ASSUME Init PROVE IInv
  OBVIOUS
<1>1. TypeOK
  BY InitType
<1>2. QueuedHasCapability /\ MarksFirst
  BY DEF Init, QueuedHasCapability, MarksFirst, Unmarked, None
<1>3. SendsAreMarked
  BY DEF Init, SendsAreMarked
<1>4. AttemptIsAccounted /\ Closed
  BY DEF Init, AttemptIsAccounted, Closed, ShownIsConsumed, ShownAtMostOnce, CompletionIsEarned, None
<1>5. Owed
  BY DEF Init, Owed, QueuedFirst, ParkedForReview, RevealedFirst, OpenIsUnsold, None
<1> QED
  BY <1>1, <1>2, <1>3, <1>4, <1>5 DEF IInv

\* The invariant is inductive.
THEOREM Inductive == Spec => []IInv
<1>1. IInv /\ [Next]_vars => IInv'
  BY NextType, CapabilityStep, MarksStep, SendsStep, AttemptStep, ClosedStep, OwedStep DEF IInv
<1> QED
  BY InitInv, <1>1, PTL DEF Spec

\* Every column and every local of a lane, handler or tap keeps its type; a row
\* has an owner exactly while it is being processed.
THEOREM TypeCorrect == Spec => []TypeOK
<1>1. IInv => TypeOK
  BY DEF IInv
<1> QED
  BY Inductive, <1>1, PTL

\* The credential is sent to Telegram once at most: a lapsed lease, a crash, a
\* lost answer or a row prepared again never leads to a second message.
THEOREM OneSend == Spec => []SendsAtMostOnce
<1>1. IInv => SendsAtMostOnce
  BY DEF IInv, SendsAreMarked, SendsAtMostOnce
<1> QED
  BY Inductive, <1>1, PTL

\* The one-time link shows the credential to one tap at most.
THEOREM OneShowing == Spec => []ShownAtMostOnce
<1>1. IInv => ShownAtMostOnce
  BY DEF IInv, Closed
<1> QED
  BY Inductive, <1>1, PTL

\* A credential is handed over once on each way: one message, one showing.
THEOREM OneHandOver == Spec => []HandedOverOnce
  BY OneSend, OneShowing, PTL DEF HandedOverOnce

\* A completed order has the provider's proof or the buyer's own opening behind
\* it, and its unit and bundle are closed.
THEOREM EarnedCompletion == Spec => []CompletionIsEarned
<1>1. IInv => CompletionIsEarned
  BY DEF IInv, Closed
<1> QED
  BY Inductive, <1>1, PTL

\* An attempt that may have delivered is never forgotten.
THEOREM AccountedAttempt == Spec => []AttemptIsAccounted
<1>1. IInv => AttemptIsAccounted
  BY DEF IInv
<1> QED
  BY Inductive, <1>1, PTL

KeepsSent == handoff = "SENT" => handoff' = "SENT"

\* No step takes a handed-over row out of SENT: only a row in PROCESSING, or one
\* without a stored capability, is written over.
THEOREM FinalSent == Spec => SentIsFinal
<1>1. IInv /\ [Next]_vars => [KeepsSent]_vars
  <2> SUFFICES ASSUME IInv, [Next]_vars, handoff = "SENT" PROVE handoff' = "SENT"
    BY DEF KeepsSent
  <2>1. cap # 0
    BY DEF IInv, QueuedHasCapability
  <2>2. ASSUME NEW c \in Creators, CreatorStep(c) \/ CreatorCrash(c) PROVE handoff' = "SENT"
    BY <2>1, <2>2 DEF CreatorStep, FulfillPaidOrder, PrepareHandoff, IsReusable, AdoptCapability,
                      MakeReady, CreatorCrash, rowVars
  <2>3. ASSUME NEW s \in Senders,
               ClaimDeliveryNotification(s) \/ SenderStep(s) \/ SenderCrash(s) \/ StatementFails(s)
        PROVE handoff' = "SENT"
    BY <2>3 DEF ClaimDeliveryNotification, IsClaimable, SenderStep, ReadEvidence, CheckBundle,
                RenewLease, RevealSecret, MarkSendAttempt, SendCredential, PersistProviderEvidence,
                FinalizeDelivery, HandleFailure, ParkDeliveryUncertain, SenderCrash, StatementFails,
                Fenced, FencedInTime, rowVars
  <2>4. ASSUME NEW t \in Taps, OpenLink(t) \/ ConsumeDeliveryBundle(t) PROVE handoff' = "SENT"
    BY <2>4 DEF OpenLink, ConsumeDeliveryBundle, rowVars
  <2>5. CASE UNCHANGED vars
    BY <2>5 DEF vars, rowVars
  <2>6. ASSUME \/ RecoverStoredHandoff \/ RecoverExpiredBundle \/ ReconcileDelivered
               \/ LeaseLapses \/ BundleLapses \/ Dispute
        PROVE handoff' = "SENT"
    BY <2>6 DEF RecoverStoredHandoff, RecoverExpiredBundle, ReconcileDelivered, LeaseLapses,
                BundleLapses, Dispute, rowVars
  <2> QED
    BY <2>2, <2>3, <2>4, <2>5, <2>6 DEF Next
<1>2. [][KeepsSent]_vars => SentIsFinal
  BY DEF SentIsFinal, KeepsSent
<1> QED
  BY Inductive, <1>1, <1>2, PTL DEF Spec

-----------------------------------------------------------------------------
(* The contract.  Of the row, the contract sees whether it is there, over, or *)
(* between, and there whether the attempt is marked and parked.               *)

LEMMA ProgressStays ==
  ASSUME parked' = parked, attempted' = attempted,
         \/ handoff' = handoff
         \/ handoff \notin {None, "SENT"} /\ handoff' \notin {None, "SENT"}
  PROVE  Progress' = Progress
BY Zenon DEF Progress

\* A step that the contract does not see.
LEMMA Unseen ==
  ASSUME UNCHANGED <<order, unit, bundle, ttlOver, parked, attempted>>,
         \/ handoff' = handoff
         \/ handoff \notin {None, "SENT"} /\ handoff' \notin {None, "SENT"}
  PROVE  UNCHANGED Bundle!contractVars
BY ProgressStays DEF Bundle!contractVars

\* Preparing a row queues its message if there was none, and keeps what is known of an
\* older one.
LEMMA CreatorContract ==
  ASSUME IInv, NEW c \in Creators, CreatorStep(c) \/ CreatorCrash(c)
  PROVE  [Bundle!ContractNext]_(Bundle!contractVars)
<1> USE DEF shopVars, rowVars
<1>1. CASE FulfillPaidOrder(c) \/ CreatorCrash(c)
  BY <1>1, Unseen DEF FulfillPaidOrder, CreatorCrash
<1>2. CASE AdoptCapability(c) \/ MakeReady(c)
  BY <1>2, Unseen DEF AdoptCapability, MakeReady, None
<1>3. CASE PrepareHandoff(c)
  <2>1. UNCHANGED <<order, unit, bundle, ttlOver, parked, attempted>>
    BY <1>3 DEF PrepareHandoff
  <2>2. CASE ~Live \/ IsReusable
    BY <1>3, <2>1, <2>2, Unseen DEF PrepareHandoff, None
  <2>3. CASE Live /\ ~IsReusable /\ handoff # None
    <3>1. handoff # "SENT" /\ handoff' = "PREPARED"
      BY <1>3, <2>3 DEF PrepareHandoff, IsReusable, IInv, QueuedHasCapability
    <3> QED
      BY <2>1, <2>3, <3>1, Unseen DEF None
  <2>4. CASE Live /\ ~IsReusable /\ handoff = None
    <3>1. ~attempted /\ ~parked /\ handoff' = "PREPARED"
      BY <1>3, <2>4 DEF PrepareHandoff, IInv, Owed, QueuedFirst, ParkedForReview
    <3>2. Progress = None
      BY <2>4 DEF Progress, None
    <3>3. ~attempted' /\ ~parked'
      BY <2>1, <3>1, Zenon
    <3>4. Progress' = "QUEUED"
      BY <3>1, <3>3 DEF Progress, None
    <3> QED
      BY <2>1, <2>4, <3>2, <3>4
         DEF Live, Open, None, Bundle!None, Bundle!ContractNext, Bundle!Queue, Bundle!Live
  <2> QED
    BY <2>2, <2>3, <2>4
<1> QED
  BY <1>1, <1>2, <1>3 DEF CreatorStep

\* The lane: most of its steps are its own; five are the contract's.
LEMMA SenderContract ==
  ASSUME IInv, NEW s \in Senders,
         ClaimDeliveryNotification(s) \/ SenderStep(s) \/ SenderCrash(s) \/ StatementFails(s)
  PROVE  [Bundle!ContractNext]_(Bundle!contractVars)
<1> USE DEF shopVars, rowVars
<1>1. CASE \/ ClaimDeliveryNotification(s) \/ ReadEvidence(s) \/ RenewLease(s)
           \/ SendCredential(s) \/ PersistProviderEvidence(s) \/ SenderCrash(s)
           \/ StatementFails(s)
  BY <1>1, Unseen DEF ClaimDeliveryNotification, IsClaimable, ReadEvidence, RenewLease,
     SendCredential, PersistProviderEvidence, SenderCrash, StatementFails, None
<1>2. CASE CheckBundle(s)
  <2>1. UNCHANGED <<order, unit, bundle, ttlOver, parked, attempted>>
    BY <1>2 DEF CheckBundle
  <2>2. CASE bundle = "CONSUMED" /\ FencedInTime(s)
    <3>1. handoff = "PROCESSING" /\ handoff' = "SENT" /\ ~attempted /\ ~parked
      BY <1>2, <2>2 DEF CheckBundle, Release, FencedInTime, Fenced, IInv, MarksFirst, Unmarked,
         Owed, ParkedForReview
    <3>2. Progress = "QUEUED" /\ Progress' = "OVER"
      BY <3>1 DEF Progress, None
    <3> QED
      BY <2>1, <2>2, <3>2 DEF Bundle!ContractNext, Bundle!Forget
  <2>3. CASE ~(bundle = "CONSUMED" /\ FencedInTime(s))
    BY <1>2, <2>1, <2>3, Unseen DEF CheckBundle
  <2> QED
    BY <2>2, <2>3
<1>3. CASE RevealSecret(s)
  <2>1. UNCHANGED <<order, unit, ttlOver, handoff, parked, attempted>>
    BY <1>3 DEF RevealSecret
  <2>2. CASE ~Live
    BY <1>3, <2>1, <2>2, Unseen DEF RevealSecret
  <2>3. CASE Live
    <3>1. bundle' = "VIEWED" /\ handoff # None
      BY <1>3, <2>3 DEF RevealSecret, IInv, Owed, QueuedFirst
    <3>2. Progress' = Progress
      BY <2>1, ProgressStays
    <3>3. Progress # None
      BY <3>1 DEF Progress, IInv, TypeOK, None
    <3> QED
      BY <2>1, <2>3, <3>1, <3>2, <3>3
         DEF Live, Open, None, Bundle!None, Bundle!ContractNext, Bundle!Reveal, Bundle!Live
  <2> QED
    BY <2>2, <2>3
<1>4. CASE MarkSendAttempt(s)
  <2>1. UNCHANGED <<order, unit, bundle, ttlOver, handoff, parked>>
    BY <1>4 DEF MarkSendAttempt
  <2>2. CASE FencedInTime(s)
    <3>1. handoff = "PROCESSING" /\ ~attempted /\ ~parked /\ bundle # "AVAILABLE"
      BY <1>4, <2>2 DEF MarkSendAttempt, FencedInTime, Fenced, IInv, MarksFirst, Unmarked, Owed,
         ParkedForReview, RevealedFirst
    <3>2. attempted' /\ ~parked'
      <4>1. attempted' = (attempted \/ FencedInTime(s))
        BY <1>4 DEF MarkSendAttempt
      <4>2. attempted'
        BY <2>2, <4>1, Zenon
      <4> QED
        BY <2>1, <3>1, <4>2, Zenon
    <3>3. Progress = "QUEUED" /\ Progress' = "ATTEMPTED"
      BY <2>1, <3>1, <3>2 DEF Progress, None
    <3> QED
      BY <2>1, <3>1, <3>3 DEF Bundle!ContractNext, Bundle!Attempt
  <2>3. CASE ~FencedInTime(s)
    <3>1. attempted' = attempted
      BY <1>4, <2>3, Zenon DEF MarkSendAttempt, IInv, TypeOK
    <3> QED
      BY <2>1, <3>1, Unseen
  <2> QED
    BY <2>2, <2>3
<1>5. CASE FinalizeDelivery(s)
  <2>1. CASE /\ order = "PROCESSING" /\ IsPaymentProven /\ unit = "READY"
             /\ bundle # "CONSUMED" /\ proof /\ FencedInTime(s)
    <3>1. /\ handoff = "PROCESSING" /\ handoff' = "SENT" /\ Complete
          /\ UNCHANGED <<ttlOver, parked, attempted>>
      BY <1>5, <2>1 DEF FinalizeDelivery, Release, FencedInTime, Fenced
    <3>2. attempted /\ ~parked
      BY <2>1 DEF IInv, SendsAreMarked, Owed, ParkedForReview
    <3>3. Progress = "ATTEMPTED" /\ Progress' = "OVER"
      BY <3>1, <3>2 DEF Progress, None
    <3> QED
      BY <2>1, <3>1, <3>3 DEF Complete, Bundle!ContractNext, Bundle!Finalize, Bundle!Close
  <2>2. CASE ~(/\ order = "PROCESSING" /\ IsPaymentProven /\ unit = "READY"
               /\ bundle # "CONSUMED" /\ proof /\ FencedInTime(s))
    BY <1>5, <2>2, Unseen DEF FinalizeDelivery
  <2> QED
    BY <2>1, <2>2
<1>6. CASE HandleFailure(s)
  BY <1>6, Unseen DEF HandleFailure, MayHaveSent, Release, FencedInTime, Fenced, Terminal, None
<1>7. CASE ParkDeliveryUncertain(s)
  <2>1. UNCHANGED <<unit, bundle, ttlOver, attempted>>
    BY <1>7 DEF ParkDeliveryUncertain
  <2>2. CASE ~parked /\ Fenced(s) /\ order # "COMPLETED"
    <3>1. /\ handoff = "PROCESSING" /\ handoff' \in {"SENT", "DEAD"} /\ parked' = TRUE
          /\ order' = "FULFILLMENT_NEEDS_REVIEW" /\ attempted
      BY <1>7, <2>2 DEF ParkDeliveryUncertain, Release, Fenced, IInv, Owed, ParkedForReview
    <3>2. order \in {"PROCESSING", "FULFILLMENT_NEEDS_REVIEW"}
      BY <2>2 DEF IInv, TypeOK
    <3>3. Progress = "ATTEMPTED" /\ Progress' \in {"PARKED", "OVER"}
      BY <2>2, <3>1 DEF Progress, None
    <3> QED
      BY <2>1, <3>1, <3>2, <3>3 DEF Bundle!ContractNext, Bundle!Park
  <2>3. CASE ~(~parked /\ Fenced(s) /\ order # "COMPLETED")
    BY <1>7, <2>1, <2>3, Unseen DEF ParkDeliveryUncertain
  <2> QED
    BY <2>2, <2>3
<1> QED
  BY <1>1, <1>2, <1>3, <1>4, <1>5, <1>6, <1>7 DEF SenderStep

\* The link, the sweep, the owner and the clock.
LEMMA OtherContract ==
  ASSUME IInv,
         \/ \E t \in Taps : OpenLink(t) \/ ConsumeDeliveryBundle(t)
         \/ RecoverStoredHandoff \/ RecoverExpiredBundle \/ ReconcileDelivered
         \/ LeaseLapses \/ BundleLapses \/ Dispute
  PROVE  [Bundle!ContractNext]_(Bundle!contractVars)
<1> USE DEF shopVars, rowVars
<1>1. CASE RecoverStoredHandoff \/ LeaseLapses \/ Dispute
  BY <1>1, Unseen DEF RecoverStoredHandoff, LeaseLapses, Dispute, None
<1>2. ASSUME UNCHANGED <<handoff, parked, attempted>> PROVE Progress' = Progress
  BY <1>2, ProgressStays
<1>3. handoff # None => Progress # None
  BY DEF Progress, None
<1>4. ASSUME NEW t \in Taps, OpenLink(t) PROVE [Bundle!ContractNext]_(Bundle!contractVars)
  <2>1. UNCHANGED <<order, unit, ttlOver, handoff, parked, attempted>> /\ bundle' = "VIEWED" /\ Live
    BY <1>4 DEF OpenLink
  <2>2. handoff # None
    BY <1>4 DEF OpenLink, IInv, Owed, QueuedFirst
  <2> QED
    BY <1>2, <1>3, <2>1, <2>2
       DEF Live, Open, None, Bundle!None, Bundle!ContractNext, Bundle!Reveal, Bundle!Live
<1>5. ASSUME NEW t \in Taps, ConsumeDeliveryBundle(t)
      PROVE  [Bundle!ContractNext]_(Bundle!contractVars)
  <2>1. UNCHANGED <<ttlOver, handoff, parked, attempted>> /\ tap[t] = "revealed"
    BY <1>5 DEF ConsumeDeliveryBundle
  <2>2. CASE IsConsumable
    <3>1. /\ bundle' = "CONSUMED" /\ unit' = "DELIVERED"
          /\ order' = IF order = "PROCESSING" THEN "COMPLETED" ELSE order
      BY <1>5, <2>2 DEF ConsumeDeliveryBundle
    <3>2. bundle = "VIEWED" /\ unit = "READY" /\ handoff # None
      BY <2>1, <2>2 DEF IsConsumable, IInv, Owed, QueuedFirst, RevealedFirst, OpenIsUnsold, Open, None
    <3> QED
      BY <1>2, <1>3, <2>1, <3>1, <3>2
         DEF None, Bundle!None, Bundle!ContractNext, Bundle!Open, Bundle!Close
  <2>3. CASE ~IsConsumable
    BY <1>5, <2>1, <2>3, Unseen DEF ConsumeDeliveryBundle
  <2> QED
    BY <2>2, <2>3
<1>6. CASE RecoverExpiredBundle
  <2>1. UNCHANGED <<order, unit, ttlOver, handoff, parked, attempted>> /\ bundle' = "EXPIRED"
    BY <1>6 DEF RecoverExpiredBundle
  <2> QED
    BY <1>2, <1>6, <2>1 DEF RecoverExpiredBundle, Open, Bundle!ContractNext, Bundle!Expire
<1>7. CASE ReconcileDelivered
  <2>1. UNCHANGED <<ttlOver, handoff, parked, attempted>> /\ handoff = "SENT"
    BY <1>7 DEF ReconcileDelivered
  <2>2. Progress = "OVER"
    BY <2>1 DEF Progress, None
  <2> QED
    BY <1>2, <1>7, <2>1, <2>2
       DEF ReconcileDelivered, Complete, Bundle!ContractNext, Bundle!Reconcile, Bundle!Close
<1>8. CASE BundleLapses
  <2>1. UNCHANGED <<order, unit, bundle, handoff, parked, attempted>> /\ ttlOver' = TRUE
    BY <1>8 DEF BundleLapses
  <2> QED
    BY <1>2, <1>8, <2>1 DEF BundleLapses, Live, Open, Bundle!ContractNext, Bundle!Lapse, Bundle!Live
<1> QED
  BY <1>1, <1>4, <1>5, <1>6, <1>7, <1>8

\* The delivery of one bundle, with its leases, marks, deaths, retries and taps,
\* implements the delivery contract: a message once attempted, parked or over is never
\* queued again, and order, unit and bundle move only as the contract lets them.
THEOREM HandoffKeepsContract == Spec => KeepsDeliveryContract
<1>1. Init => Bundle!ContractInit
  BY DEF Init, Progress, None, Bundle!None, Bundle!ContractInit, Bundle!Issued, Bundle!Fulfilled
<1>2. IInv /\ [Next]_vars => [Bundle!ContractNext]_(Bundle!contractVars)
  <2>1. ASSUME UNCHANGED vars PROVE UNCHANGED Bundle!contractVars
    BY <2>1, Unseen DEF vars, shopVars, rowVars
  <2> QED
    BY <2>1, CreatorContract, SenderContract, OtherContract DEF Next
<1> QED
  BY Inductive, <1>1, <1>2, PTL DEF Spec, KeepsDeliveryContract, Bundle!ContractSpec
=============================================================================
