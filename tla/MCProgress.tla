----------------------------- MODULE MCProgress -----------------------------
(*************************************************************************)
(* Liveness of the four core modules, in one run.  A behaviour runs one of *)
(* them, chosen at the start (focus); the variables of the others keep     *)
(* their initial values.  Each property assumes the fairness of its module. *)
(*************************************************************************)
EXTENDS Integers, TLC

CONSTANTS d1, d2, w1, w2, o1, o2, c1, c2

CONSTANTS OutboxRows, UnknownTypes, Workers, Drains, OwnerOf, Requests, Codes,
          MaxAttempts, BatchSize, MaxSetbacks,
          Orders, Customers, CustomerOf, Kind, WithPromo, Assets, Units, Transfers,
          MaxTotalUses, MaxUsesPerCustomer, WalletBalance,
          Senders, Creators, Taps, PaidBy, Disputable, PromptSenders, MaxCrashes,
          MaxFailures, Runs, Unlimited

VARIABLES focus,
          \* Outbox
          occurred, published, dead, attempts, gen, owner, lease, deferred,
          disposition, request, phase, cutoff, budget, held, heldGen, verdict,
          alive, clock, ran, setbacks, unwritten,
          \* Checkout
          status, overdue, holder, available, ledger, redemption, intent, payee,
          amount, late, evidence, balance, debited,
          \* DeliveryHandoff
          order, disputed, unit, bundle, ttlOver, handoff, session, cap, hOwner,
          leased, hAttempts, hHeld, attempted, proof, parked, run, creator, tap,
          sends, crashes, failures,
          \* Fulfilment
          fStatus, fUnit, reservedFor, deliveredTo, issued, bundleOf,
          assetOf, fBundle, fTtlOver, note, pending, step, event, seen, claimed,
          reached, disclosed, fCrashes

OneDrainEach == (d1 :> w1) @@ (d2 :> w2)
TwoCustomers == (o1 :> c1) @@ (o2 :> c2)
OneDeferred == (o1 :> "DISCRETE") @@ (o2 :> "DEFERRED")
OneDebitEach == (c1 :> 1) @@ (c2 :> 1)

O == INSTANCE Outbox WITH Events <- OutboxRows
C == INSTANCE Checkout
H == INSTANCE DeliveryHandoff WITH
       MaxAttempts <- 2, owner <- hOwner, attempts <- hAttempts, held <- hHeld
F == INSTANCE Fulfilment WITH
       Orders <- {o1}, MaxBundles <- 2, status <- fStatus, unit <- fUnit,
       bundle <- fBundle, ttlOver <- fTtlOver, crashes <- fCrashes

outboxVars ==
  <<occurred, published, dead, attempts, gen, owner, lease, deferred, disposition, request,
    phase, cutoff, budget, held, heldGen, verdict, alive, clock, ran, setbacks, unwritten>>
checkoutVars ==
  <<status, overdue, holder, available, ledger, redemption, intent, payee, amount, late,
    evidence, balance, debited>>
handoffVars ==
  <<order, disputed, unit, bundle, ttlOver, handoff, session, cap, hOwner, leased,
    hAttempts, attempted, proof, parked, run, creator, hHeld, tap, sends, crashes,
    failures>>
fulfilmentVars ==
  <<fStatus, fUnit, reservedFor, deliveredTo, issued, bundleOf, assetOf, fBundle,
    fTtlOver, note, pending, step, event, seen, claimed, reached, disclosed, fCrashes>>

ProgressInit ==
  /\ focus \in {"outbox", "checkout", "handoff", "fulfilment"}
  /\ O!Init /\ C!Init /\ H!Init /\ F!Init

ProgressNext ==
  \/ /\ focus = "outbox"
     /\ O!Next
     /\ UNCHANGED <<focus, checkoutVars, handoffVars, fulfilmentVars>>
  \/ /\ focus = "checkout"
     /\ C!Next
     /\ UNCHANGED <<focus, outboxVars, handoffVars, fulfilmentVars>>
  \/ /\ focus = "handoff"
     /\ H!Next
     /\ UNCHANGED <<focus, outboxVars, checkoutVars, fulfilmentVars>>
  \/ /\ focus = "fulfilment"
     /\ F!Next
     /\ UNCHANGED <<focus, outboxVars, checkoutVars, handoffVars>>

ProgressSpec ==
  ProgressInit
    /\ [][ProgressNext]_<<focus, outboxVars, checkoutVars, handoffVars, fulfilmentVars>>

-----------------------------------------------------------------------------
(* While the drains poll and leases lapse, every event of the outbox is       *)
(* published or dead-lettered, though a handler run dies.                    *)
EventsSettle == focus = "outbox" /\ O!Fairness => O!EveryEventSettles

(* While the recovery lane runs and the bank's evidence arrives, no order     *)
(* stays unpaid for ever, no unit stays held by an order that never takes it  *)
(* up, and every transfer is settled or left to the owner.                   *)
CheckoutsEnd ==
  focus = "checkout" /\ C!Fairness =>
    C!EveryOrderIsDecided /\ C!EveryHoldEnds /\ C!EveryTransferIsAccounted

(* While the notification lane runs, a handoff is sent or given up, and a      *)
(* proven delivery completes its order, though a sender dies.                *)
HandoffsEnd ==
  focus = "handoff" /\ H!Fairness => H!FreshHandoffSettles /\ H!ProvenDeliveryCompletes

(* While pending events are handled again, a paid order in stock is taken up. *)
PaidOrdersStart == focus = "fulfilment" /\ F!Fairness => F!PaidOrderStarts
=============================================================================
