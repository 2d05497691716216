-------------------------- MODULE SupplierPurchase --------------------------
(*************************************************************************)
(* Buying an asset from a supplier for a paid order: provisionFromSupplier *)
(* and recoverUnknownSupplierOrder (modules/supplier/service.ts) over       *)
(* executeSupplierPurchase and recoverSupplierPurchase (purchase-core.ts),  *)
(* and the recovery lane of the worker (recovery.ts).                      *)
(*                                                                       *)
(* A purchase is one (order, supplier SKU): its record, its one idempotency *)
(* key, what the supplier did with it and the asset it brought.  A run is  *)
(* one attempt at OrderPaid or one pick of the recovery lane; no lock is    *)
(* held across a call to the supplier, so every answer a run applies may    *)
(* be stale.  The supplier answers truthfully or not at all.               *)
(*************************************************************************)
EXTENDS Integers, FiniteSets

CONSTANTS Purchases,     \* (order, supplier SKU)
          PurchaseRuns,  \* OrderPaid attempts and recovery picks
          MaxPosts,      \* bound on the POSTs of one purchase
          NoPurchase

ASSUME SupplierAssumption ==
  /\ NoPurchase \notin Purchases
  /\ MaxPosts \in Nat \ {0}

VARIABLES supplierOrder,  \* purchase -> its supplier_order row
          posts,          \* purchase -> POSTs sent upstream
          wire,           \* purchase -> POSTs the supplier has not received yet
          upstream,       \* purchase -> what the supplier did
          supplierAsset,  \* purchase -> its digital_asset
          prun            \* run -> where it stands

supplierVars == <<supplierOrder, posts, wire, upstream, supplierAsset, prun>>

LiveRecord == {"SUBMITTED", "PENDING", "UNKNOWN"}
NoRecord == [status |-> "none", attempts |-> 0, fresh |-> FALSE, review |-> FALSE]
NoPurchaseRun == [at |-> "idle", purchase |-> NoPurchase, answer |-> "none"]
PurchaseAnswers == {"FULFILLED", "PENDING", "REJECTED", "UNKNOWN", "UNREADABLE", "ERROR"}

SupplierTypeOK ==
  /\ supplierOrder \in [Purchases ->
       [status : LiveRecord \cup {"none", "FULFILLED", "REJECTED"},
        attempts : 0..MaxPosts, fresh : BOOLEAN, review : BOOLEAN]]
  /\ posts \in [Purchases -> 0..MaxPosts]
  /\ wire \in [Purchases -> 0..MaxPosts]
  /\ upstream \in [Purchases -> {"none", "processing", "fulfilled", "rejected"}]
  /\ supplierAsset \in [Purchases -> {"none", "READY", "SUPPLIER_NEEDS_REVIEW"}]
  /\ prun \in [PurchaseRuns ->
       [at : {"idle", "insert", "gate", "post", "await", "recover", "query", "apply"},
        purchase : Purchases \cup {NoPurchase}, answer : PurchaseAnswers \cup {"none"}]]

SupplierInit ==
  /\ supplierOrder = [o \in Purchases |-> NoRecord]
  /\ posts = [o \in Purchases |-> 0]
  /\ wire = [o \in Purchases |-> 0]
  /\ upstream = [o \in Purchases |-> "none"]
  /\ supplierAsset = [o \in Purchases |-> "none"]
  /\ prun = [p \in PurchaseRuns |-> NoPurchaseRun]

-----------------------------------------------------------------------------
StepRun(p, at) == prun' = [prun EXCEPT ![p].at = at]
EndPurchaseRun(p) == prun' = [prun EXCEPT ![p] = NoPurchaseRun]
RecordOf(p) == supplierOrder[prun[p].purchase]

\* Never sent; or possibly sent, so that only a query may follow.
Unattempted(rec) == rec.status = "SUBMITTED" /\ rec.attempts = 0
Ambiguous(rec) == rec.status \in LiveRecord /\ ~Unattempted(rec)

(* provisionFromSupplier reads the record; a terminal one, or one under      *)
(* review, is answered from.                                                *)
BeginPurchase(p, o) ==
  /\ prun[p].at = "idle"
  /\ ~supplierOrder[o].review
  /\ \E at \in {"insert", "gate", "recover"} :
       /\ \/ at = "insert" /\ supplierOrder[o].status = "none"
          \/ at = "gate" /\ Unattempted(supplierOrder[o])
          \/ at = "recover" /\ Ambiguous(supplierOrder[o])
       /\ prun' = [prun EXCEPT ![p] = [NoPurchaseRun EXCEPT !.at = at, !.purchase = o]]
  /\ UNCHANGED <<supplierOrder, posts, wire, upstream, supplierAsset>>

(* insertIntent: the loser of the idempotency key goes by the winner's row.  *)
InsertIntent(p) ==
  LET o == prun[p].purchase IN
  /\ prun[p].at = "insert"
  /\ \/ /\ supplierOrder[o].status = "none"
        /\ supplierOrder' = [supplierOrder EXCEPT ![o].status = "SUBMITTED"]
        /\ StepRun(p, "gate")
     \/ /\ Unattempted(supplierOrder[o])
        /\ ~supplierOrder[o].review
        /\ StepRun(p, "gate")
        /\ UNCHANGED supplierOrder
     \/ /\ Ambiguous(supplierOrder[o])
        /\ ~supplierOrder[o].review
        /\ StepRun(p, "recover")
        /\ UNCHANGED supplierOrder
     \/ /\ supplierOrder[o].status \in {"FULFILLED", "REJECTED"} \/ supplierOrder[o].review
        /\ EndPurchaseRun(p)
        /\ UNCHANGED supplierOrder
  /\ UNCHANGED <<posts, wire, upstream, supplierAsset>>

(* beforeCreate finds the mapping no longer ready: markBlocked rejects a      *)
(* record that was never attempted, and no other.                           *)
GateRefuses(p) ==
  LET o == prun[p].purchase IN
  /\ prun[p].at = "gate"
  /\ supplierOrder' = IF Unattempted(supplierOrder[o])
                      THEN [supplierOrder EXCEPT ![o].status = "REJECTED"]
                      ELSE supplierOrder
  /\ EndPurchaseRun(p)
  /\ UNCHANGED <<posts, wire, upstream, supplierAsset>>

\* Mutant of MayAttempt: an attempt is no obstacle to another.
MayAttemptAgain(rec) == rec.status = "SUBMITTED" /\ ~rec.review

\* The condition of markAttempt.
MayAttempt(rec) == Unattempted(rec) /\ ~rec.review

(* markAttempt: one caller claims the only attempt.                         *)
MarkAttempt(p) ==
  LET o == prun[p].purchase IN
  /\ prun[p].at = "gate"
  /\ supplierOrder[o].attempts < MaxPosts
  /\ IF MayAttempt(supplierOrder[o])
     THEN /\ supplierOrder' = [supplierOrder EXCEPT
               ![o].status = "SUBMITTED", ![o].attempts = @ + 1, ![o].fresh = TRUE]
          /\ StepRun(p, "post")
     ELSE EndPurchaseRun(p) /\ UNCHANGED supplierOrder
  /\ UNCHANGED <<posts, wire, upstream, supplierAsset>>

(* port.createOrder leaves the process.                                     *)
SendPost(p) ==
  LET o == prun[p].purchase IN
  /\ prun[p].at = "post"
  /\ posts[o] < MaxPosts
  /\ posts' = [posts EXCEPT ![o] = @ + 1]
  /\ wire' = [wire EXCEPT ![o] = @ + 1]
  /\ StepRun(p, "await")
  /\ UNCHANGED <<supplierOrder, upstream, supplierAsset>>

\* The supplier's side: a POST arrives, however late, or is lost; what was
\* taken is fulfilled or rejected for good.
PostArrives(o) ==
  /\ wire[o] > 0
  /\ wire' = [wire EXCEPT ![o] = @ - 1]
  /\ upstream' = IF upstream[o] = "none" THEN [upstream EXCEPT ![o] = "processing"] ELSE upstream
  /\ UNCHANGED <<supplierOrder, posts, supplierAsset, prun>>

PostIsLost(o) ==
  /\ wire[o] > 0
  /\ wire' = [wire EXCEPT ![o] = @ - 1]
  /\ UNCHANGED <<supplierOrder, posts, upstream, supplierAsset, prun>>

SupplierResolves(o) ==
  /\ upstream[o] = "processing"
  /\ \E end \in {"fulfilled", "rejected"} : upstream' = [upstream EXCEPT ![o] = end]
  /\ UNCHANGED <<supplierOrder, posts, wire, supplierAsset, prun>>

Observed(o) ==
  CASE upstream[o] = "processing" -> {"PENDING"}
    [] upstream[o] = "fulfilled" -> {"FULFILLED"}
    [] upstream[o] = "rejected" -> {"REJECTED"}
    [] OTHER -> {}

Answered(p, answer) ==
  prun' = [prun EXCEPT ![p].at = "apply", ![p].answer = answer]

(* createOrder returns what the supplier made of the order, times out or     *)
(* meets a transport error (UNKNOWN), or throws (ERROR).                    *)
CreateAnswers(p) ==
  /\ prun[p].at = "await"
  /\ \E answer \in Observed(prun[p].purchase) \cup {"UNKNOWN", "ERROR"} : Answered(p, answer)
  /\ UNCHANGED <<supplierOrder, posts, wire, upstream, supplierAsset>>

(* recoverSupplierOrdersBatch picks a record.                               *)
PickForRecovery(p, o) ==
  /\ prun[p].at = "idle"
  /\ ~supplierOrder[o].review
  /\ \/ supplierOrder[o].status \in {"UNKNOWN", "PENDING"}
     \/ Ambiguous(supplierOrder[o]) /\ ~supplierOrder[o].fresh
  /\ prun' = [prun EXCEPT ![p] = [NoPurchaseRun EXCEPT !.at = "recover", !.purchase = o]]
  /\ UNCHANGED <<supplierOrder, posts, wire, upstream, supplierAsset>>

(* The lane's port cannot read orders: the row is put under review, whatever *)
(* became of it since it was picked.                                        *)
LaneCannotRead(p) ==
  /\ prun[p].at = "recover"
  /\ supplierOrder' = [supplierOrder EXCEPT ![prun[p].purchase].review = TRUE]
  /\ EndPurchaseRun(p)
  /\ UNCHANGED <<posts, wire, upstream, supplierAsset>>

\* A submission younger than SUPPLIER_SUBMITTED_GRACE_SECONDS is not queried.
Deferred(rec) == Unattempted(rec) \/ (rec.status \in {"SUBMITTED", "UNKNOWN"} /\ rec.fresh)

(* recoverSupplierPurchase re-reads the record and queries, or gives up.     *)
RecoverReads(p) ==
  /\ prun[p].at = "recover"
  /\ IF /\ RecordOf(p).status \in LiveRecord
        /\ ~RecordOf(p).review
        /\ ~Deferred(RecordOf(p))
     THEN StepRun(p, "query")
     ELSE EndPurchaseRun(p)
  /\ UNCHANGED <<supplierOrder, posts, wire, upstream, supplierAsset>>

(* queryOrder: an order the supplier does not know is an error; one with an  *)
(* unsupported delivery or another identity is unreadable.                  *)
QueryAnswers(p) ==
  /\ prun[p].at = "query"
  /\ \E answer \in Observed(prun[p].purchase) \cup {"UNREADABLE", "ERROR"} : Answered(p, answer)
  /\ UNCHANGED <<supplierOrder, posts, wire, upstream, supplierAsset>>

\* markUnknown, markPending, markRejected and markNeedsReview change a live
\* record only.
Marked(rec, answer) ==
  IF rec.status \notin LiveRecord THEN rec
  ELSE CASE answer = "UNREADABLE" -> [rec EXCEPT !.review = TRUE]
         [] answer = "ERROR" -> rec
         [] OTHER -> [rec EXCEPT !.status = answer]

(* What the run does with an answer that brings no asset.                   *)
ApplyAnswer(p) ==
  LET o == prun[p].purchase IN
  /\ prun[p].at = "apply"
  /\ prun[p].answer # "FULFILLED"
  /\ supplierOrder' = [supplierOrder EXCEPT ![o] = Marked(@, prun[p].answer)]
  /\ EndPurchaseRun(p)
  /\ UNCHANGED <<posts, wire, upstream, supplierAsset>>

\* The locked record still takes an asset.
MayIngest(rec) == rec.status \in LiveRecord /\ ~rec.review

(* ingestFulfilledAsset and markFulfilled: an envelope that is not what the   *)
(* order asked for is quarantined, and the record put under review.         *)
Ingest(p) ==
  LET o == prun[p].purchase IN
  /\ prun[p].at = "apply"
  /\ prun[p].answer = "FULFILLED"
  /\ \/ /\ MayIngest(supplierOrder[o])
        /\ \E valid \in BOOLEAN :
             /\ supplierAsset' = [supplierAsset EXCEPT ![o] =
                  IF @ # "none" THEN @ ELSE IF valid THEN "READY" ELSE "SUPPLIER_NEEDS_REVIEW"]
             /\ supplierOrder' = [supplierOrder EXCEPT
                  ![o].status = "FULFILLED",
                  ![o].review = @ \/ (supplierAsset[o] = "none" /\ ~valid)]
     \/ /\ ~MayIngest(supplierOrder[o])
        /\ UNCHANGED <<supplierOrder, supplierAsset>>
  /\ EndPurchaseRun(p)
  /\ UNCHANGED <<posts, wire, upstream>>

(* Sixty seconds have passed since markAttempt.                             *)
GraceEnds(o) ==
  /\ supplierOrder[o].fresh
  /\ supplierOrder' = [supplierOrder EXCEPT ![o].fresh = FALSE]
  /\ UNCHANGED <<posts, wire, upstream, supplierAsset, prun>>

(* The worker stops between two steps.                                      *)
PurchaseRunCrashes(p) ==
  /\ prun[p].at # "idle"
  /\ EndPurchaseRun(p)
  /\ UNCHANGED <<supplierOrder, posts, wire, upstream, supplierAsset>>

SupplierNext ==
  \/ \E p \in PurchaseRuns, o \in Purchases : BeginPurchase(p, o) \/ PickForRecovery(p, o)
  \/ \E p \in PurchaseRuns :
       \/ InsertIntent(p) \/ GateRefuses(p) \/ MarkAttempt(p) \/ SendPost(p)
       \/ CreateAnswers(p) \/ LaneCannotRead(p) \/ RecoverReads(p) \/ QueryAnswers(p)
       \/ ApplyAnswer(p) \/ Ingest(p) \/ PurchaseRunCrashes(p)
  \/ \E o \in Purchases : PostArrives(o) \/ PostIsLost(o) \/ SupplierResolves(o) \/ GraceEnds(o)

SupplierSpec == SupplierInit /\ [][SupplierNext]_supplierVars

-----------------------------------------------------------------------------
(* "A replay never issues a second upstream purchase": whatever times out,   *)
(* crashes or runs at once, one POST at most leaves for a purchase, so the   *)
(* shop does not depend on the supplier's own idempotency.                  *)
SupplierBuysOnce == \A o \in Purchases : posts[o] <= 1

(* The record never says the opposite of what the supplier did: a rejected    *)
(* purchase was never sent or the supplier rejected it, and it is fulfilled   *)
(* exactly when the supplier delivered and one asset was taken in, however   *)
(* late or stale the answers of the runs.                                   *)
RecordAgreesWithSupplier ==
  \A o \in Purchases :
    /\ supplierOrder[o].status = "REJECTED" =>
         posts[o] = 0 \/ upstream[o] = "rejected"
    /\ supplierOrder[o].status = "FULFILLED" => upstream[o] = "fulfilled"
    /\ (supplierAsset[o] # "none") <=> (supplierOrder[o].status = "FULFILLED")

(* The shop pays a supplier once for an order and knows what it got for it.   *)
BoughtOnceAndRecorded == SupplierBuysOnce /\ RecordAgreesWithSupplier
=============================================================================
