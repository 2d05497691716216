-------------------------- MODULE DeliveryHandoff --------------------------
(***************************************************************************)
(* Getting one sold credential to its buyer exactly once.  Outbox handlers *)
(* (creators) prepare the handoff row of a bundle: the capability is       *)
(* written to the Vault between two transactions.  Notification lanes      *)
(* (senders) claim the row under a lease, mark the attempt, send the       *)
(* credential by Telegram, record the provider's answer and complete the   *)
(* order, or park it for review when they cannot know.  The buyer may open *)
(* an old link (taps) and the owner may close a parked order.              *)
(*                                                                         *)
(* The rows of different bundles are independent, so there is one.  A lane *)
(* is single-flight and its claims are sequential: the claim generation is *)
(* held by the owner's current run, so `owner' stands for both columns.    *)
(* The Vault and the rotation of an expired session are abstracted: a      *)
(* creator's session generation is the capability it wrote.                *)
(***************************************************************************)
EXTENDS Naturals

CONSTANTS
  Senders,       \* processes running the notification lane
  Creators,      \* OrderPaid and DeliveryBundleCreated handler runs
  Taps,          \* openings of the legacy link by the buyer
  PaidBy,        \* "BANK": an intent and its settled allocation; "WALLET": neither
  Disputable,    \* a surplus transfer may open a discrepancy on the order
  PromptSenders, \* a running sender finishes within its 30 s lease
  MaxAttempts,   \* OUTBOX_MAX_ATTEMPTS
  MaxCrashes,    \* bound: handler runs and lanes that die
  MaxFailures    \* bound: statements of a lane's try block that fail

None == "none"

ASSUME HandoffConstants ==
  /\ None \notin Senders
  /\ PaidBy \in {"BANK", "WALLET"}
  /\ Disputable \in BOOLEAN /\ PromptSenders \in BOOLEAN
  /\ MaxAttempts \in Nat \ {0}
  /\ MaxCrashes \in Nat /\ MaxFailures \in Nat

VARIABLES
  order,     \* "order".status
  disputed,  \* an OPEN discrepancy names the order
  unit,      \* digital_asset.status of the unit the bundle delivers
  bundle,    \* delivery_bundle.status
  ttlOver,   \* delivery_bundle.expires_at has passed
  handoff,   \* delivery_notification_handoff.status, None before its insert
  session,   \* its session_generation
  cap,       \* its capability_ref: the generation stored, 0 for null
  owner,     \* claimed_by, which stands for claim_generation too
  leased,    \* claim_expires_at > now
  attempts,  \* attempt_count, saturating at MaxAttempts
  attempted, \* payload_redacted.sendAttemptedAt is set
  proof,     \* payload_redacted holds the provider's message identity
  parked,    \* audit_event 'fulfillment.delivery_uncertain' of this handoff
  run,       \* run[s]: the statement a sender reaches next
  creator,   \* creator[c]: the same of a handler run
  held,      \* held[c]: the session generation it prepared
  tap,       \* tap[t]: "none", "revealed", then "shown" or "refused"
  sends,     \* credential messages that reached Telegram, saturating at 2
  crashes, failures

limits == <<crashes, failures>>

rowVars == <<handoff, session, cap, owner, leased, attempts, attempted, proof>>
shopVars == <<order, disputed, unit, bundle, ttlOver>>
vars == <<shopVars, rowVars, parked, run, creator, held, tap, sends, limits>>

Busy == {"claimed", "checking", "renewing", "revealing", "marking", "sending",
         "persisting", "finalizing", "parking", "failed"}

TypeOK ==
  /\ order \in {"PROCESSING", "COMPLETED", "FULFILLMENT_NEEDS_REVIEW"}
  /\ disputed \in BOOLEAN
  /\ unit \in {"READY", "DELIVERED"}
  /\ bundle \in {"AVAILABLE", "VIEWED", "CONSUMED", "EXPIRED"}
  /\ ttlOver \in BOOLEAN
  /\ handoff \in {None, "PREPARED", "STORED", "READY", "PROCESSING", "RETRY",
                  "SENT", "DEAD"}
  /\ session \in Nat /\ cap \in 0 .. session
  /\ owner \in Senders \cup {None}
  /\ (owner # None) = (handoff = "PROCESSING")
  /\ leased \in BOOLEAN
  /\ attempts \in 0 .. MaxAttempts
  /\ attempted \in BOOLEAN /\ proof \in BOOLEAN /\ parked \in BOOLEAN
  /\ run \in [Senders -> Busy \cup {"idle"}]
  /\ creator \in [Creators -> {"idle", "entered", "writing", "written", "done"}]
  /\ held \in [Creators -> 0 .. session]
  /\ tap \in [Taps -> {None, "revealed", "shown", "refused"}]
  /\ sends \in 0 .. 2
  /\ crashes \in 0 .. MaxCrashes /\ failures \in 0 .. MaxFailures

Init ==
  /\ order = "PROCESSING" /\ disputed = FALSE
  /\ unit = "READY" /\ bundle = "AVAILABLE" /\ ttlOver = FALSE
  /\ handoff = None /\ session = 0 /\ cap = 0
  /\ owner = None /\ leased = FALSE /\ attempts = 0
  /\ attempted = FALSE /\ proof = FALSE /\ parked = FALSE
  /\ run = [s \in Senders |-> "idle"]
  /\ creator = [c \in Creators |-> "idle"] /\ held = [c \in Creators |-> 0]
  /\ tap = [t \in Taps |-> None]
  /\ sends = 0 /\ crashes = 0 /\ failures = 0

Open == bundle \in {"AVAILABLE", "VIEWED"}
Live == Open /\ ~ttlOver

-----------------------------------------------------------------------------
(* The creators: createDeliveryNotificationHandoff, whose Vault write runs  *)
(* between the transaction that prepares the row and the one that adopts.   *)

\* fulfillPaidOrder returned the order's bundle.  A VIEWED one is reused even
\* past its TTL.
FulfillPaidOrder(c) ==
  /\ creator[c] = "idle" /\ order = "PROCESSING"
  /\ Live \/ bundle = "VIEWED"
  /\ creator' = [creator EXCEPT ![c] = "entered"]
  /\ UNCHANGED <<shopVars, rowVars, parked, run, held, tap, sends, limits>>

\* Mutant: a handed-over row is prepared again.
ReusableUntilSent == cap # 0 /\ handoff \in {"STORED", "READY", "RETRY", "PROCESSING"}

\* The row is kept when its capability is stored and it is still wanted.
IsReusable == cap # 0 /\ handoff \in {"STORED", "READY", "RETRY", "PROCESSING", "SENT"}

\* A new session revokes the one a tap is using.
RevokedTaps == [t \in Taps |-> IF tap[t] = "revealed" THEN "refused" ELSE tap[t]]

PrepareHandoff(c) ==
  /\ creator[c] = "entered"
  /\ UNCHANGED <<shopVars, owner, leased, attempts, attempted, proof, parked,
                 run, sends, limits>>
  /\ IF ~Live \/ IsReusable
     THEN /\ creator' = [creator EXCEPT ![c] = "done"]
          /\ handoff' = IF Live /\ handoff = "STORED" THEN "READY" ELSE handoff
          /\ UNCHANGED <<session, cap, held, tap>>
     ELSE /\ session' \in IF handoff = "PREPARED" THEN {session, session + 1}
                                                  ELSE {session + 1}
          /\ handoff' = "PREPARED" /\ cap' = 0
          /\ held' = [held EXCEPT ![c] = session']
          /\ creator' = [creator EXCEPT ![c] = "writing"]
          /\ tap' = IF session' = session THEN tap ELSE RevokedTaps

\* fenceCapabilityAdoption and the swap.  The update names only the row, so a
\* run whose session was replaced gets as far as the activation, which throws.
AdoptCapability(c) ==
  /\ creator[c] = "writing"
  /\ IF handoff = "PREPARED" /\ cap = 0 /\ held[c] = session
     THEN /\ handoff' = "STORED" /\ cap' = held[c]
          /\ creator' = [creator EXCEPT ![c] = "written"]
     ELSE /\ creator' = [creator EXCEPT ![c] = "done"]
          /\ UNCHANGED <<handoff, cap>>
  /\ UNCHANGED <<shopVars, session, owner, leased, attempts, attempted, proof,
                 parked, run, held, tap, sends, limits>>

MakeReady(c) ==
  /\ creator[c] = "written"
  /\ creator' = [creator EXCEPT ![c] = "done"]
  /\ handoff' = IF handoff = "STORED" /\ cap = held[c] THEN "READY" ELSE handoff
  /\ UNCHANGED <<shopVars, session, cap, owner, leased, attempts, attempted,
                 proof, parked, run, held, tap, sends, limits>>

\* The handler's process dies; its event is claimed and handled again.
CreatorCrash(c) ==
  /\ creator[c] \in {"entered", "writing", "written"} /\ crashes < MaxCrashes
  /\ creator' = [creator EXCEPT ![c] = "idle"]
  /\ crashes' = crashes + 1
  /\ UNCHANGED <<shopVars, rowVars, parked, run, held, tap, sends, failures>>

RecoverStoredHandoff ==
  /\ handoff = "STORED" /\ cap # 0 /\ Live
  /\ handoff' = "READY"
  /\ UNCHANGED <<shopVars, session, cap, owner, leased, attempts, attempted,
                 proof, parked, run, creator, held, tap, sends, limits>>

CreatorStep(c) ==
  \/ FulfillPaidOrder(c) \/ PrepareHandoff(c) \/ AdoptCapability(c) \/ MakeReady(c)

-----------------------------------------------------------------------------
(* The senders: processDeliveryNotificationBatch.                           *)

Goto(s, step) == run' = [run EXCEPT ![s] = step]

\* The fence of every write but the parking: owner, generation and the lease.
Fenced(s) == handoff = "PROCESSING" /\ owner = s
FencedInTime(s) == Fenced(s) /\ leased

\* Mutant: a claim outlives its sender.
ClaimableIfReleased == handoff \in {"READY", "RETRY"}

IsClaimable == handoff \in {"READY", "RETRY"} \/ (handoff = "PROCESSING" /\ ~leased)

ClaimDeliveryNotification(s) ==
  /\ run[s] = "idle" /\ IsClaimable
  /\ handoff' = "PROCESSING" /\ owner' = s /\ leased' = TRUE
  /\ attempts' = IF attempts < MaxAttempts THEN attempts + 1 ELSE attempts
  /\ Goto(s, "claimed")
  /\ UNCHANGED <<shopVars, session, cap, attempted, proof, parked, creator, held,
                 tap, sends, limits>>

\* Mutant: evidence of success is treated as an uncertain attempt.
ParkAnyAttempt == IF attempted THEN "parking" ELSE "checking"

\* handoffEvidenceForClaim, read without the fence.
NextAfterEvidence ==
  IF proof THEN "finalizing" ELSE IF attempted THEN "parking" ELSE "checking"

ReadEvidence(s) ==
  /\ run[s] = "claimed"
  /\ Goto(s, NextAfterEvidence)
  /\ UNCHANGED <<shopVars, rowVars, parked, creator, held, tap, sends, limits>>

\* Mutant: claimed_by is left behind.
ReleaseLeaseOnly(status) == handoff' = status /\ owner' = owner /\ leased' = FALSE

\* The columns a run writes when it gives the row back.
Release(status) == handoff' = status /\ owner' = None /\ leased' = FALSE

\* A bundle the buyer has opened needs no message: markDeliveryNotificationSent.
CheckBundle(s) ==
  /\ run[s] = "checking"
  /\ IF bundle = "CONSUMED" /\ FencedInTime(s)
     THEN Release("SENT") /\ Goto(s, "idle")
     ELSE /\ Goto(s, IF bundle = "CONSUMED" THEN "failed" ELSE "renewing")
          /\ UNCHANGED <<handoff, owner, leased>>
  /\ UNCHANGED <<shopVars, session, cap, attempts, attempted, proof, parked,
                 creator, held, tap, sends, limits>>

RenewLease(s) ==
  /\ run[s] = "renewing"
  /\ Goto(s, IF FencedInTime(s) THEN "revealing" ELSE "failed")
  /\ UNCHANGED <<shopVars, rowVars, parked, creator, held, tap, sends, limits>>

\* revealDeliveryBundle with consume = false.
RevealSecret(s) ==
  /\ run[s] = "revealing"
  /\ bundle' = IF Live THEN "VIEWED" ELSE bundle
  /\ Goto(s, IF Live THEN "marking" ELSE "failed")
  /\ UNCHANGED <<order, disputed, unit, ttlOver, rowVars, parked, creator, held,
                 tap, sends, limits>>

\* Mutant: the attempt is marked only together with the provider's answer.
LeaveAttemptUnmarked(s) ==
  /\ run[s] = "marking"
  /\ Goto(s, IF FencedInTime(s) THEN "sending" ELSE "failed")
  /\ UNCHANGED <<shopVars, rowVars, parked, creator, held, tap, sends, limits>>

MarkSendAttempt(s) ==
  /\ run[s] = "marking"
  /\ Goto(s, IF ~FencedInTime(s) THEN "failed"
             ELSE IF attempted /\ ~proof THEN "parking" ELSE "sending")
  /\ attempted' = (attempted \/ FencedInTime(s))
  /\ UNCHANGED <<shopVars, handoff, session, cap, owner, leased, attempts, proof,
                 parked, creator, held, tap, sends, limits>>

\* The message arrives and is confirmed, arrives though the call fails (the
\* 25 s timeout, a lost answer), or does not arrive.
SendCredential(s) ==
  /\ run[s] = "sending"
  /\ \E arrives, answered \in BOOLEAN :
       /\ answered => arrives
       /\ sends' = IF arrives /\ sends < 2 THEN sends + 1 ELSE sends
       /\ Goto(s, IF answered THEN "persisting" ELSE "failed")
  /\ UNCHANGED <<shopVars, rowVars, parked, creator, held, tap, limits>>

PersistProviderEvidence(s) ==
  /\ run[s] = "persisting"
  /\ proof' = (proof \/ FencedInTime(s))
  /\ Goto(s, IF FencedInTime(s) THEN "finalizing" ELSE "failed")
  /\ UNCHANGED <<shopVars, handoff, session, cap, owner, leased, attempts,
                 attempted, parked, creator, held, tap, sends, limits>>

\* The payment evidence a reconciliation asks for: the order's latest intent
\* SUCCEEDED with a SETTLED allocation, and nothing in dispute.
IsPaymentProven == PaidBy = "BANK" /\ ~disputed

\* Mutant: the unit stays READY when its order completes.
CompleteWithoutUnit ==
  /\ bundle' = "CONSUMED" /\ order' = "COMPLETED" /\ unit' = unit

Complete ==
  /\ bundle' = "CONSUMED" /\ unit' = "DELIVERED" /\ order' = "COMPLETED"

\* reconcilePaidDeliveryDeliveredInTransaction by the worker.
FinalizeDelivery(s) ==
  /\ run[s] = "finalizing"
  /\ IF /\ order = "PROCESSING" /\ IsPaymentProven /\ unit = "READY"
        /\ bundle # "CONSUMED" /\ proof /\ FencedInTime(s)
     THEN /\ Complete /\ Release("SENT") /\ Goto(s, "idle")
          /\ UNCHANGED <<disputed, ttlOver>>
     ELSE /\ Goto(s, "failed") /\ UNCHANGED <<shopVars, handoff, owner, leased>>
  /\ UNCHANGED <<session, cap, attempts, attempted, proof, parked, creator, held,
                 tap, sends, limits>>

\* The catch block: park when a send may have happened, else give the claim
\* back for a retry, or for good when the attempts are spent.
Terminal == attempts = MaxAttempts

\* Mutant: only a proven send keeps the row from being retried.
MayHaveSentIfProven == proof

MayHaveSent == attempted

HandleFailure(s) ==
  /\ run[s] = "failed"
  /\ IF MayHaveSent
     THEN Goto(s, "parking") /\ UNCHANGED <<handoff, owner, leased>>
     ELSE /\ Goto(s, "idle")
          /\ IF FencedInTime(s) THEN Release(IF Terminal THEN "DEAD" ELSE "RETRY")
             ELSE UNCHANGED <<handoff, owner, leased>>
  /\ UNCHANGED <<shopVars, session, cap, attempts, attempted, proof, parked,
                 creator, held, tap, sends, limits>>

\* parkPaidDeliveryUncertainInTransaction.  Its fence does not ask for the
\* lease.  The try block's refused park is tried again by the catch block and
\* refused again: one step.
ParkDeliveryUncertain(s) ==
  /\ run[s] = "parking"
  /\ Goto(s, "idle")
  /\ IF ~parked /\ Fenced(s) /\ order # "COMPLETED"
     THEN /\ order' = "FULFILLMENT_NEEDS_REVIEW"
          /\ Release(IF proof THEN "SENT" ELSE "DEAD")
          /\ parked' = TRUE
     ELSE UNCHANGED <<order, handoff, owner, leased, parked>>
  /\ UNCHANGED <<disputed, unit, bundle, ttlOver, session, cap, attempts,
                 attempted, proof, creator, held, tap, sends, limits>>

SenderStep(s) ==
  \/ ReadEvidence(s) \/ CheckBundle(s) \/ RenewLease(s) \/ RevealSecret(s)
  \/ MarkSendAttempt(s) \/ SendCredential(s) \/ PersistProviderEvidence(s)
  \/ FinalizeDelivery(s) \/ HandleFailure(s) \/ ParkDeliveryUncertain(s)

\* A sender's process dies, or a statement of its try block fails.
SenderCrash(s) ==
  /\ run[s] # "idle" /\ crashes < MaxCrashes
  /\ crashes' = crashes + 1 /\ Goto(s, "idle")
  /\ UNCHANGED <<shopVars, rowVars, parked, creator, held, tap, sends, failures>>

StatementFails(s) ==
  /\ run[s] \in Busy \ {"failed", "parking"} /\ failures < MaxFailures
  /\ failures' = failures + 1 /\ Goto(s, "failed")
  /\ UNCHANGED <<shopVars, rowVars, parked, creator, held, tap, sends, crashes>>

LeaseLapses ==
  /\ leased
  /\ PromptSenders => run[owner] = "idle"
  /\ leased' = FALSE
  /\ UNCHANGED <<shopVars, handoff, session, cap, owner, attempts, attempted,
                 proof, parked, run, creator, held, tap, sends, limits>>

-----------------------------------------------------------------------------
(* The buyer's legacy link, the recovery lane, the owner and the clock.     *)

\* Mutant: a consumed bundle is consumed again.
ConsumableThoughConsumed == bundle \in {"AVAILABLE", "VIEWED", "CONSUMED"}

IsConsumable == bundle \in {"AVAILABLE", "VIEWED"}

\* openTelegramDeliveryHandoff: revealDeliveryBundle, and after the Vault read
\* consumeDeliveryBundle, which does not look at the expiry again.
OpenLink(t) ==
  /\ tap[t] = None /\ cap # 0 /\ cap = session /\ Live
  /\ bundle' = "VIEWED"
  /\ tap' = [tap EXCEPT ![t] = "revealed"]
  /\ UNCHANGED <<order, disputed, unit, ttlOver, rowVars, parked, run, creator,
                 held, sends, limits>>

ConsumeDeliveryBundle(t) ==
  /\ tap[t] = "revealed"
  /\ IF IsConsumable
     THEN /\ bundle' = "CONSUMED" /\ unit' = "DELIVERED"
          /\ order' = IF order = "PROCESSING" THEN "COMPLETED" ELSE order
          /\ tap' = [tap EXCEPT ![t] = "shown"]
     ELSE tap' = [tap EXCEPT ![t] = "refused"] /\ UNCHANGED <<bundle, unit, order>>
  /\ UNCHANGED <<disputed, ttlOver, rowVars, parked, run, creator, held, sends, limits>>

BundleLapses ==
  /\ Live
  /\ ttlOver' = TRUE
  /\ UNCHANGED <<order, disputed, unit, bundle, rowVars, parked, run, creator,
                 held, tap, sends, limits>>

RecoverExpiredBundle ==
  /\ Open /\ ttlOver
  /\ bundle' = "EXPIRED"
  /\ UNCHANGED <<order, disputed, unit, ttlOver, rowVars, parked, run, creator,
                 held, tap, sends, limits>>

\* A surplus transfer names the paid order; the owner resolves it later.
Dispute ==
  /\ Disputable
  /\ disputed' = ~disputed
  /\ UNCHANGED <<order, unit, bundle, ttlOver, rowVars, parked, run, creator,
                 held, tap, sends, limits>>

\* fulfillment.reconcile_delivered, confirmed by the owner.
ReconcileDelivered ==
  /\ order = "FULFILLMENT_NEEDS_REVIEW" /\ IsPaymentProven
  /\ bundle = "EXPIRED" /\ unit = "READY" /\ handoff = "SENT" /\ proof
  /\ Complete
  /\ UNCHANGED <<disputed, ttlOver, rowVars, parked, run, creator, held, tap,
                 sends, limits>>

Next ==
  \/ \E c \in Creators : CreatorStep(c) \/ CreatorCrash(c)
  \/ \E s \in Senders :
       ClaimDeliveryNotification(s) \/ SenderStep(s) \/ SenderCrash(s) \/ StatementFails(s)
  \/ \E t \in Taps : OpenLink(t) \/ ConsumeDeliveryBundle(t)
  \/ RecoverStoredHandoff \/ RecoverExpiredBundle \/ ReconcileDelivered
  \/ LeaseLapses \/ BundleLapses \/ Dispute

Spec == Init /\ [][Next]_vars

\* The notification lane polls every process's rows and a lane that runs goes
\* on running; the clock ends leases.
Fairness ==
  /\ \A s \in Senders : WF_vars(ClaimDeliveryNotification(s)) /\ WF_vars(SenderStep(s))
  /\ WF_vars(LeaseLapses)

FairSpec == Spec /\ Fairness

-----------------------------------------------------------------------------
\* "A credential-bearing Telegram send occurs at most once per handoff",
\* whatever leases lapse, senders die, or handlers prepare the row again.
SendsAtMostOnce == sends <= 1

\* The one-time link shows the credential to one tap at most.
ShownAtMostOnce == \A t, u \in Taps : tap[t] = "shown" /\ tap[u] = "shown" => t = u

\* A credential leaves the shop once on each way: one message at most is sent and
\* one tap at most is shown it.
HandedOverOnce == SendsAtMostOnce /\ ShownAtMostOnce

\* An order completes only on the provider's proof or the buyer's own opening,
\* and then its unit and bundle are closed with it: none can be sold or opened
\* again.
CompletionIsEarned ==
  order = "COMPLETED" =>
    /\ unit = "DELIVERED" /\ bundle = "CONSUMED"
    /\ (proof /\ sends = 1) \/ \E t \in Taps : tap[t] = "shown"

\* A send that may have happened is never forgotten: once no sender holds the
\* row, the order is completed or waits for the owner's review.
AttemptIsAccounted ==
  attempted /\ handoff # "PROCESSING" => order # "PROCESSING"

\* A row handed over is never put back in the queue, however late a handler
\* prepares it or a sender's run ends.
SentIsFinal == [][handoff = "SENT" => handoff' = "SENT"]_vars

\* What the order sees of the row: a message queued, attempted, parked, or over.
Progress ==
  CASE handoff = None -> None
    [] handoff = "SENT" -> "OVER"
    [] OTHER -> IF parked THEN "PARKED" ELSE IF attempted THEN "ATTEMPTED" ELSE "QUEUED"

\* Leases, marks, taps and deaths are the inside of the delivery contract: the order,
\* its unit and its bundle move only as the contract says, and a message once
\* attempted, parked or over is never queued again.
Bundle == INSTANCE DeliveryContract WITH note <- Progress, Alone <- TRUE
KeepsDeliveryContract == Bundle!ContractSpec

\* A handoff made ready before any doubt arose is sent or given up, whoever
\* dies and whatever Telegram answers.  (One that was parked and prepared again
\* is claimed for ever: every later park finds the audit row and stops.)
FreshHandoffSettles ==
  handoff = "READY" /\ ~parked ~> handoff \in {"SENT", "DEAD"}

\* "Provider-success evidence is self-healed by finalization": a proven
\* delivery completes its order.
ProvenDeliveryCompletes == proof ~> order = "COMPLETED"
=============================================================================
