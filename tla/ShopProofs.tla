----------------------------- MODULE ShopProofs -----------------------------
(***************************************************************************)
(* What the shop does beside the checkout, for any number of runs, taps,     *)
(* crashes and failing statements.                                          *)
(*                                                                         *)
(* Purchases, trials, notices and broadcasts leave once and cannot be called *)
(* back: the attempt is marked, in a transaction of its own, before the      *)
(* send; only the holder of the latest claim marks, and on a record that was *)
(* never attempted; so whoever marks is the first to do so, and whoever      *)
(* sends has marked.  A warranty claim is settled by money or by a unit,     *)
(* never by both.  A credential becomes one unit, from the text that was     *)
(* confirmed.  And the shop put together: a behaviour of the composition is  *)
(* one of each of its modules, so what is proved of the modules, here and in *)
(* LedgerProofs, holds of the composition.                                  *)
(***************************************************************************)
EXTENDS MCShop, LedgerProofs

-----------------------------------------------------------------------------
(* Purchases for orders.  The attempt is marked before its POST leaves, on a  *)
(* record that was never attempted; so one run at most has a POST to send,    *)
(* and it is the first.  An answer that names an end is the supplier's, whose *)
(* ends are final, however late a run applies it.                           *)

RecordHolds(o) ==
  /\ supplierOrder[o].attempts <= 1
  /\ posts[o] <= supplierOrder[o].attempts
  /\ wire[o] <= posts[o]
  /\ supplierOrder[o].status = "none" => supplierOrder[o].attempts = 0
  /\ supplierOrder[o].status = "REJECTED" =>
       supplierOrder[o].attempts = 0 \/ upstream[o] = "rejected"
  /\ supplierOrder[o].status = "FULFILLED" => upstream[o] = "fulfilled"
  /\ supplierAsset[o] # "none" <=> supplierOrder[o].status = "FULFILLED"

PurchaseRunHolds(p) ==
  LET o == prun[p].purchase IN
  /\ prun[p].at # "idle" => o \in Purchases
  /\ prun[p].at = "post" => supplierOrder[o].attempts = 1 /\ posts[o] = 0
  /\ prun[p].at = "apply" =>
       /\ prun[p].answer # "none"
       /\ prun[p].answer = "FULFILLED" => upstream[o] = "fulfilled"
       /\ prun[p].answer = "REJECTED" => upstream[o] = "rejected"

OneAttempt ==
  \A p, q \in PurchaseRuns :
    prun[p].at = "post" /\ prun[q].at = "post" /\ prun[p].purchase = prun[q].purchase => p = q

PurchaseInv ==
  /\ SupplierTypeOK
  /\ \A o \in Purchases : RecordHolds(o)
  /\ \A p \in PurchaseRuns : PurchaseRunHolds(p)
  /\ OneAttempt

PurchaseStates ==
  [at : {"idle", "insert", "gate", "post", "await", "recover", "query", "apply"},
   purchase : Purchases \cup {NoPurchase}, answer : PurchaseAnswers \cup {"none"}]
RecordRow ==
  [status : LiveRecord \cup {"none", "FULFILLED", "REJECTED"},
   attempts : 0..MaxPosts, fresh : BOOLEAN, review : BOOLEAN]

LEMMA InitPurchase == SupplierInit => PurchaseInv
  BY SupplierAssumption
  DEF SupplierInit, PurchaseInv, SupplierTypeOK, NoRecord, NoPurchaseRun, RecordHolds,
      PurchaseRunHolds, OneAttempt

\* A step of run p that writes at most one record, and takes no attempt.
LEMMA RunStep ==
  ASSUME PurchaseInv, NEW p \in PurchaseRuns, NEW state \in PurchaseStates,
         prun' = [prun EXCEPT ![p] = state],
         NEW o \in Purchases, NEW row \in RecordRow,
         supplierOrder' = [supplierOrder EXCEPT ![o] = row],
         row.attempts = supplierOrder[o].attempts,
         supplierAsset' \in [Purchases -> {"none", "READY", "SUPPLIER_NEEDS_REVIEW"}],
         \A n \in Purchases \ {o} : supplierAsset'[n] = supplierAsset[n],
         RecordHolds(o)',
         state.at # "idle" => state.purchase \in Purchases,
         state.at # "post",
         state.at = "apply" =>
           /\ state.answer # "none"
           /\ state.answer = "FULFILLED" => upstream[state.purchase] = "fulfilled"
           /\ state.answer = "REJECTED" => upstream[state.purchase] = "rejected",
         UNCHANGED <<posts, wire, upstream>>
  PROVE  PurchaseInv'
<1>0. /\ supplierOrder \in [Purchases -> RecordRow] /\ prun \in [PurchaseRuns -> PurchaseStates]
      /\ supplierOrder' \in [Purchases -> RecordRow] /\ prun' \in [PurchaseRuns -> PurchaseStates]
  BY DEF PurchaseInv, SupplierTypeOK, RecordRow, PurchaseStates
<1>1. SupplierTypeOK'
  BY <1>0 DEF PurchaseInv, SupplierTypeOK, RecordRow, PurchaseStates
<1>2. ASSUME NEW n \in Purchases PROVE RecordHolds(n)'
  BY <1>0 DEF PurchaseInv, RecordHolds
<1>3. ASSUME NEW q \in PurchaseRuns PROVE PurchaseRunHolds(q)'
  <2>1. CASE q = p
    BY <1>0, <2>1 DEF PurchaseInv, PurchaseRunHolds
  <2>2. CASE q # p
    <3>1. prun'[q] = prun[q] /\ PurchaseRunHolds(q)
      BY <1>0, <2>2 DEF PurchaseInv
    <3>2. \A n \in Purchases : supplierOrder'[n].attempts = supplierOrder[n].attempts
      BY <1>0
    <3> QED
      BY <3>1, <3>2 DEF PurchaseRunHolds
  <2> QED
    BY <2>1, <2>2
<1>4. OneAttempt'
  BY <1>0 DEF PurchaseInv, OneAttempt
<1> QED
  BY <1>1, <1>2, <1>3, <1>4 DEF PurchaseInv

\* A run that only moves on writes its own row again.
LEMMA RunMoves ==
  ASSUME PurchaseInv, NEW p \in PurchaseRuns, NEW state \in PurchaseStates,
         prun' = [prun EXCEPT ![p] = state],
         state.at # "idle" => state.purchase \in Purchases,
         state.at # "post",
         state.at = "apply" =>
           /\ state.answer # "none"
           /\ state.answer = "FULFILLED" => upstream[state.purchase] = "fulfilled"
           /\ state.answer = "REJECTED" => upstream[state.purchase] = "rejected",
         UNCHANGED <<supplierOrder, posts, wire, upstream, supplierAsset>>
  PROVE  PurchaseInv'
<1>0. prun \in [PurchaseRuns -> PurchaseStates] /\ prun' \in [PurchaseRuns -> PurchaseStates]
  BY DEF PurchaseInv, SupplierTypeOK, PurchaseStates
<1>1. SupplierTypeOK'
  BY <1>0 DEF PurchaseInv, SupplierTypeOK, PurchaseStates
<1>2. ASSUME NEW n \in Purchases PROVE RecordHolds(n)'
  BY DEF PurchaseInv, RecordHolds
<1>3. ASSUME NEW q \in PurchaseRuns PROVE PurchaseRunHolds(q)'
  <2>1. CASE q = p
    BY <1>0, <2>1 DEF PurchaseRunHolds
  <2>2. CASE q # p
    BY <1>0, <2>2 DEF PurchaseInv, PurchaseRunHolds
  <2> QED
    BY <2>1, <2>2
<1>4. OneAttempt'
  BY <1>0 DEF PurchaseInv, OneAttempt
<1> QED
  BY <1>1, <1>2, <1>3, <1>4 DEF PurchaseInv

LEMMA MoveStep ==
  ASSUME PurchaseInv, NEW p \in PurchaseRuns, NEW o \in Purchases,
         \/ BeginPurchase(p, o) \/ PickForRecovery(p, o) \/ CreateAnswers(p) \/ RecoverReads(p)
         \/ QueryAnswers(p) \/ PurchaseRunCrashes(p)
  PROVE  PurchaseInv'
<1>0. prun \in [PurchaseRuns -> PurchaseStates] /\ PurchaseRunHolds(p)
  BY DEF PurchaseInv, SupplierTypeOK, PurchaseStates
<1>1. NoPurchaseRun \in PurchaseStates
  BY DEF NoPurchaseRun, PurchaseStates
<1>2. CASE BeginPurchase(p, o)
  <2>1. PICK at \in {"insert", "gate", "recover"} :
          prun' = [prun EXCEPT ![p] = [NoPurchaseRun EXCEPT !.at = at, !.purchase = o]]
    BY <1>2 DEF BeginPurchase
  <2>2. [NoPurchaseRun EXCEPT !.at = at, !.purchase = o] \in PurchaseStates
    BY DEF NoPurchaseRun, PurchaseStates
  <2> QED
    BY <2>1, <2>2, <1>2, RunMoves DEF BeginPurchase, NoPurchaseRun
<1>3. CASE PickForRecovery(p, o)
  <2>1. [NoPurchaseRun EXCEPT !.at = "recover", !.purchase = o] \in PurchaseStates
    BY DEF NoPurchaseRun, PurchaseStates
  <2> QED
    BY <2>1, <1>3, RunMoves DEF PickForRecovery, NoPurchaseRun
<1>4. CASE CreateAnswers(p) \/ QueryAnswers(p)
  <2>1. PICK answer \in Observed(prun[p].purchase) \cup {"UNKNOWN", "UNREADABLE", "ERROR"} :
          prun' = [prun EXCEPT ![p].at = "apply", ![p].answer = answer]
    BY <1>4 DEF CreateAnswers, QueryAnswers, Answered
  <2>2. /\ prun[p].purchase \in Purchases
        /\ UNCHANGED <<supplierOrder, posts, wire, upstream, supplierAsset>>
    BY <1>0, <1>4 DEF CreateAnswers, QueryAnswers, PurchaseRunHolds
  <2>3. /\ answer \in PurchaseAnswers
        /\ answer = "FULFILLED" => upstream[prun[p].purchase] = "fulfilled"
        /\ answer = "REJECTED" => upstream[prun[p].purchase] = "rejected"
    BY DEF Observed, PurchaseAnswers
  <2> DEFINE state == [prun[p] EXCEPT !.at = "apply", !.answer = answer]
  <2>4. state \in PurchaseStates /\ prun' = [prun EXCEPT ![p] = state]
    BY <1>0, <2>1, <2>3 DEF PurchaseStates
  <2>5. /\ state.at = "apply" /\ state.answer = answer /\ state.purchase = prun[p].purchase
        /\ answer # "none"
    BY <1>0, <2>3 DEF PurchaseStates, PurchaseAnswers
  <2> HIDE DEF state
  <2> QED
    BY <2>2, <2>3, <2>4, <2>5, RunMoves
<1>5. CASE RecoverReads(p)
  <2>1. CASE prun' = [prun EXCEPT ![p].at = "query"]
    <3>1. /\ [prun[p] EXCEPT !.at = "query"] \in PurchaseStates
          /\ prun' = [prun EXCEPT ![p] = [prun[p] EXCEPT !.at = "query"]]
          /\ [prun[p] EXCEPT !.at = "query"].at = "query"
          /\ [prun[p] EXCEPT !.at = "query"].purchase \in Purchases
      BY <1>0, <1>5, <2>1 DEF PurchaseStates, PurchaseRunHolds, RecoverReads
    <3> QED
      BY <3>1, <1>5, RunMoves DEF RecoverReads
  <2>2. CASE prun' = [prun EXCEPT ![p] = NoPurchaseRun]
    BY <1>1, <1>5, <2>2, RunMoves DEF RecoverReads, NoPurchaseRun
  <2> QED
    BY <1>5, <2>1, <2>2 DEF RecoverReads, StepRun, EndPurchaseRun
<1>6. CASE PurchaseRunCrashes(p)
  BY <1>1, <1>6, RunMoves DEF PurchaseRunCrashes, EndPurchaseRun, NoPurchaseRun
<1> QED
  BY <1>2, <1>3, <1>4, <1>5, <1>6

\* What a write may do to a record without losing what holds of it.
LEMMA RecordStep ==
  ASSUME PurchaseInv, NEW o \in Purchases, NEW row \in RecordRow,
         supplierOrder' = [supplierOrder EXCEPT ![o] = row],
         row.attempts = supplierOrder[o].attempts,
         UNCHANGED <<posts, wire, upstream, supplierAsset>>,
         \/ row.status = supplierOrder[o].status
         \/ /\ supplierOrder[o].status \in LiveRecord \cup {"none"}
            /\ row.status \in LiveRecord \cup {"REJECTED"}
            /\ row.status = "REJECTED" => row.attempts = 0 \/ upstream[o] = "rejected"
  PROVE  RecordHolds(o)'
<1>1. supplierOrder'[o] = row /\ RecordHolds(o)
  BY DEF PurchaseInv, SupplierTypeOK
<1> QED
  BY <1>1 DEF RecordHolds, LiveRecord

LEMMA WriteStep ==
  ASSUME PurchaseInv, NEW p \in PurchaseRuns,
         \/ InsertIntent(p) \/ GateRefuses(p) \/ LaneCannotRead(p) \/ ApplyAnswer(p) \/ Ingest(p)
  PROVE  PurchaseInv'
<1>0. /\ prun \in [PurchaseRuns -> PurchaseStates] /\ PurchaseRunHolds(p)
      /\ supplierOrder \in [Purchases -> RecordRow]
      /\ supplierAsset \in [Purchases -> {"none", "READY", "SUPPLIER_NEEDS_REVIEW"}]
  BY DEF PurchaseInv, SupplierTypeOK, PurchaseStates, RecordRow
<1>5. PICK o \in Purchases : o = prun[p].purchase
  BY <1>0 DEF PurchaseRunHolds, InsertIntent, GateRefuses, LaneCannotRead, ApplyAnswer, Ingest
<1> USE <1>5
<1>1. RecordHolds(o) /\ supplierOrder[o] \in RecordRow
  BY <1>0 DEF PurchaseInv
<1>2. NoPurchaseRun \in PurchaseStates /\ NoPurchaseRun.at = "idle"
  BY DEF NoPurchaseRun, PurchaseStates
<1>3. ASSUME NEW at \in {"gate", "recover"}
      PROVE  /\ [prun[p] EXCEPT !.at = at] \in PurchaseStates
             /\ [prun[p] EXCEPT !.at = at].at = at /\ [prun[p] EXCEPT !.at = at].purchase = o
  BY <1>0 DEF PurchaseStates
<1>4. supplierOrder = [supplierOrder EXCEPT ![o] = supplierOrder[o]]
  BY <1>0
\* The run ends with what it writes.
<1>a. ASSUME NEW row \in RecordRow, supplierOrder' = [supplierOrder EXCEPT ![o] = row],
             row.attempts = supplierOrder[o].attempts, RecordHolds(o)', EndPurchaseRun(p),
             UNCHANGED <<posts, wire, upstream, supplierAsset>>
      PROVE  PurchaseInv'
  <2>1. prun' = [prun EXCEPT ![p] = NoPurchaseRun]
    BY <1>a DEF EndPurchaseRun
  <2>2. /\ supplierAsset' \in [Purchases -> {"none", "READY", "SUPPLIER_NEEDS_REVIEW"}]
        /\ \A n \in Purchases \ {o} : supplierAsset'[n] = supplierAsset[n]
    BY <1>0, <1>a
  <2> QED
    BY <1>2, <1>a, <2>1, <2>2, RunStep
<1>6. CASE InsertIntent(p)
  <2>1. CASE supplierOrder' = [supplierOrder EXCEPT ![o].status = "SUBMITTED"]
             /\ StepRun(p, "gate") /\ supplierOrder[o].status = "none"
    <3> DEFINE row == [supplierOrder[o] EXCEPT !.status = "SUBMITTED"]
    <3>1. /\ row \in RecordRow /\ row.attempts = supplierOrder[o].attempts
          /\ row.status = "SUBMITTED"
      BY <1>1 DEF RecordRow, LiveRecord
    <3>2. supplierOrder' = [supplierOrder EXCEPT ![o] = row]
      BY <2>1
    <3> HIDE DEF row
    <3>3. RecordHolds(o)'
      BY <3>1, <3>2, <2>1, RecordStep, <1>6 DEF InsertIntent, LiveRecord
    <3>4. prun' = [prun EXCEPT ![p] = [prun[p] EXCEPT !.at = "gate"]]
      BY <2>1 DEF StepRun
    <3> QED
      BY <3>1, <3>2, <3>3, <3>4, <1>0, <1>1, <1>3, <1>6, RunStep DEF InsertIntent
  <2>2. CASE UNCHANGED supplierOrder /\ StepRun(p, "gate")
    <3>1. prun' = [prun EXCEPT ![p] = [prun[p] EXCEPT !.at = "gate"]]
      BY <2>2 DEF StepRun
    <3> QED
      BY <3>1, <2>2, <1>1, <1>3, <1>6, RunMoves DEF InsertIntent
  <2>3. CASE UNCHANGED supplierOrder /\ StepRun(p, "recover")
    <3>1. prun' = [prun EXCEPT ![p] = [prun[p] EXCEPT !.at = "recover"]]
      BY <2>3 DEF StepRun
    <3> QED
      BY <3>1, <2>3, <1>1, <1>3, <1>6, RunMoves DEF InsertIntent
  <2>4. CASE UNCHANGED supplierOrder /\ EndPurchaseRun(p)
    BY <2>4, <1>2, <1>6, RunMoves DEF InsertIntent, EndPurchaseRun
  <2> QED
    BY <1>6, <2>1, <2>2, <2>3, <2>4 DEF InsertIntent
<1>7. CASE GateRefuses(p)
  <2> DEFINE row == IF Unattempted(supplierOrder[o])
                    THEN [supplierOrder[o] EXCEPT !.status = "REJECTED"] ELSE supplierOrder[o]
  <2>1. supplierOrder' = [supplierOrder EXCEPT ![o] = row]
    BY <1>4, <1>7 DEF GateRefuses
  <2>2. /\ row \in RecordRow /\ row.attempts = supplierOrder[o].attempts
        /\ \/ row.status = supplierOrder[o].status
           \/ row.status = "REJECTED" /\ row.attempts = 0 /\ supplierOrder[o].status = "SUBMITTED"
    BY <1>1 DEF RecordRow, Unattempted, LiveRecord
  <2> HIDE DEF row
  <2>3. RecordHolds(o)'
    BY <2>1, <2>2, RecordStep, <1>7 DEF GateRefuses, LiveRecord
  <2> QED
    BY <1>7, <1>a, <2>1, <2>2, <2>3 DEF GateRefuses
<1>8. CASE LaneCannotRead(p)
  <2> DEFINE row == [supplierOrder[o] EXCEPT !.review = TRUE]
  <2>1. supplierOrder' = [supplierOrder EXCEPT ![o] = row]
    BY <1>8 DEF LaneCannotRead
  <2>2. /\ row \in RecordRow /\ row.attempts = supplierOrder[o].attempts
        /\ row.status = supplierOrder[o].status
    BY <1>1 DEF RecordRow
  <2> HIDE DEF row
  <2>3. RecordHolds(o)'
    BY <2>1, <2>2, RecordStep, <1>8 DEF LaneCannotRead
  <2> QED
    BY <1>8, <1>a, <2>1, <2>2, <2>3 DEF LaneCannotRead
<1>9. CASE ApplyAnswer(p)
  <2> DEFINE row == Marked(supplierOrder[o], prun[p].answer)
  <2>1. supplierOrder' = [supplierOrder EXCEPT ![o] = row]
    BY <1>9 DEF ApplyAnswer
  <2>2. /\ prun[p].answer \in {"PENDING", "REJECTED", "UNKNOWN", "UNREADABLE", "ERROR"}
        /\ prun[p].answer = "REJECTED" => upstream[o] = "rejected"
    BY <1>0, <1>9 DEF ApplyAnswer, PurchaseRunHolds, PurchaseStates, PurchaseAnswers
  <2>3. /\ row \in RecordRow /\ row.attempts = supplierOrder[o].attempts
        /\ \/ row.status = supplierOrder[o].status
           \/ /\ supplierOrder[o].status \in LiveRecord
              /\ row.status = prun[p].answer /\ row.status \in {"PENDING", "REJECTED", "UNKNOWN"}
    BY <1>1, <2>2 DEF RecordRow, Marked, LiveRecord
  <2> HIDE DEF row
  <2>4. RecordHolds(o)'
    BY <2>1, <2>2, <2>3, RecordStep, <1>9 DEF ApplyAnswer, LiveRecord
  <2> QED
    BY <1>9, <1>a, <2>1, <2>3, <2>4 DEF ApplyAnswer
<1>10. CASE Ingest(p)
  <2>1. CASE MayIngest(supplierOrder[o])
    <3>1. PICK valid \in BOOLEAN :
            /\ supplierAsset' = [supplierAsset EXCEPT ![o] =
                 IF @ # "none" THEN @ ELSE IF valid THEN "READY" ELSE "SUPPLIER_NEEDS_REVIEW"]
            /\ supplierOrder' = [supplierOrder EXCEPT
                 ![o].status = "FULFILLED",
                 ![o].review = @ \/ (supplierAsset[o] = "none" /\ ~valid)]
      BY <1>10, <2>1 DEF Ingest
    <3> DEFINE row == [supplierOrder[o] EXCEPT !.status = "FULFILLED",
                         !.review = @ \/ (supplierAsset[o] = "none" /\ ~valid)]
    <3>2. supplierOrder' = [supplierOrder EXCEPT ![o] = row]
      BY <3>1, <1>0, <1>1 DEF RecordRow
    <3>3. /\ row \in RecordRow /\ row.attempts = supplierOrder[o].attempts
          /\ row.status = "FULFILLED"
      BY <1>1 DEF RecordRow
    <3> HIDE DEF row
    <3>4. /\ supplierAsset' \in [Purchases -> {"none", "READY", "SUPPLIER_NEEDS_REVIEW"}]
          /\ \A n \in Purchases \ {o} : supplierAsset'[n] = supplierAsset[n]
          /\ supplierAsset'[o] # "none"
      BY <3>1, <1>0, <1>1
    <3>5. upstream[o] = "fulfilled"
      BY <1>0, <1>10 DEF Ingest, PurchaseRunHolds
    <3>6. supplierOrder'[o] = row
      BY <3>2, <1>0, <1>1
    <3>7. RecordHolds(o)'
      BY <3>3, <3>4, <3>5, <3>6, <1>1, <1>10 DEF RecordHolds, Ingest
    <3> QED
      BY <3>2, <3>3, <3>4, <3>7, <1>1, <1>2, <1>10, RunStep DEF Ingest, EndPurchaseRun
  <2>2. CASE ~MayIngest(supplierOrder[o])
    BY <2>2, <1>2, <1>10, RunMoves DEF Ingest, EndPurchaseRun
  <2> QED
    BY <2>1, <2>2
<1> QED
  BY <1>6, <1>7, <1>8, <1>9, <1>10

\* The attempt: marked by one run, whose POST is the first.
LEMMA PurchaseAttemptStep ==
  ASSUME PurchaseInv, NEW p \in PurchaseRuns, MarkAttempt(p) \/ SendPost(p)
  PROVE  PurchaseInv'
<1> DEFINE o == prun[p].purchase
<1>0. /\ prun \in [PurchaseRuns -> PurchaseStates] /\ PurchaseRunHolds(p)
      /\ supplierOrder \in [Purchases -> RecordRow]
      /\ posts \in [Purchases -> 0..MaxPosts] /\ wire \in [Purchases -> 0..MaxPosts]
  BY DEF PurchaseInv, SupplierTypeOK, PurchaseStates, RecordRow
<1>1. o \in Purchases /\ RecordHolds(o) /\ supplierOrder[o] \in RecordRow
  BY <1>0 DEF PurchaseInv, PurchaseRunHolds, MarkAttempt, SendPost
<1>2. ASSUME NEW q \in PurchaseRuns, q # p
      PROVE  PurchaseRunHolds(q) /\ (prun[p].at = "post" => ~(prun[q].at = "post" /\ prun[q].purchase = o))
  BY <1>2 DEF PurchaseInv, OneAttempt
<1>3. CASE MarkAttempt(p) /\ MayAttempt(supplierOrder[o])
  <2>1. /\ supplierOrder' = [supplierOrder EXCEPT
             ![o].status = "SUBMITTED", ![o].attempts = @ + 1, ![o].fresh = TRUE]
        /\ prun' = [prun EXCEPT ![p].at = "post"]
        /\ UNCHANGED <<posts, wire, upstream, supplierAsset>>
        /\ supplierOrder[o].attempts = 0 /\ supplierOrder[o].status = "SUBMITTED"
        /\ 0 < MaxPosts /\ posts[o] = 0
    BY <1>0, <1>1, <1>3, SupplierAssumption
    DEF MarkAttempt, MayAttempt, Unattempted, StepRun, RecordHolds
  <2>2. /\ supplierOrder' \in [Purchases -> RecordRow]
        /\ supplierOrder'[o].attempts = 1 /\ supplierOrder'[o].status = "SUBMITTED"
        /\ \A n \in Purchases \ {o} : supplierOrder'[n] = supplierOrder[n]
    BY <1>0, <1>1, <2>1, SupplierAssumption DEF RecordRow, LiveRecord
  <2>3. /\ prun' \in [PurchaseRuns -> PurchaseStates]
        /\ prun'[p].at = "post" /\ prun'[p].purchase = o
        /\ \A q \in PurchaseRuns \ {p} : prun'[q] = prun[q]
    BY <1>0, <2>1 DEF PurchaseStates
  <2>4. SupplierTypeOK'
    BY <2>1, <2>2, <2>3 DEF PurchaseInv, SupplierTypeOK, RecordRow, PurchaseStates
  <2>5. ASSUME NEW n \in Purchases PROVE RecordHolds(n)'
    <3>1. CASE n = o
      <4>1. supplierAsset[o] = "none" /\ posts[o] = 0 /\ wire[o] <= posts[o]
        BY <1>1, <2>1 DEF RecordHolds
      <4> HIDE DEF o
      <4>2. supplierAsset'[o] = "none" /\ posts'[o] = 0 /\ wire'[o] <= posts'[o]
        BY <2>1, <4>1
      <4> QED
        BY <3>1, <2>2, <4>2 DEF RecordHolds
    <3>2. CASE n # o
      BY <3>2, <2>1, <2>2 DEF PurchaseInv, RecordHolds
    <3> QED
      BY <3>1, <3>2
  <2>6. ASSUME NEW q \in PurchaseRuns PROVE PurchaseRunHolds(q)'
    <3>1. CASE q = p
      BY <3>1, <1>1, <2>1, <2>2, <2>3 DEF PurchaseRunHolds
    <3>2. CASE q # p
      <4>1. PurchaseRunHolds(q) /\ prun'[q] = prun[q]
        BY <3>2, <2>3 DEF PurchaseInv
      <4>2. prun[q].at = "post" => prun[q].purchase # o
        BY <4>1, <2>1 DEF PurchaseRunHolds
      <4> QED
        BY <4>1, <4>2, <2>1, <2>2 DEF PurchaseRunHolds
    <3> QED
      BY <3>1, <3>2
  <2>7. OneAttempt'
    <3>1. \A q \in PurchaseRuns : prun[q].at = "post" => prun[q].purchase # o
      BY <2>1 DEF PurchaseInv, PurchaseRunHolds
    <3> QED
      BY <3>1, <2>3 DEF PurchaseInv, OneAttempt
  <2> QED
    BY <2>4, <2>5, <2>6, <2>7 DEF PurchaseInv
<1>4. CASE MarkAttempt(p) /\ ~MayAttempt(supplierOrder[o])
  <2>1. NoPurchaseRun \in PurchaseStates /\ NoPurchaseRun.at = "idle"
    BY DEF NoPurchaseRun, PurchaseStates
  <2> QED
    BY <2>1, <1>4, RunMoves DEF MarkAttempt, EndPurchaseRun
<1>5. CASE SendPost(p)
  <2>1. /\ prun[p].at = "post" /\ posts[o] = 0 /\ wire[o] = 0 /\ supplierOrder[o].attempts = 1
        /\ posts' = [posts EXCEPT ![o] = @ + 1] /\ wire' = [wire EXCEPT ![o] = @ + 1]
        /\ prun' = [prun EXCEPT ![p].at = "await"]
        /\ UNCHANGED <<supplierOrder, upstream, supplierAsset>>
    BY <1>0, <1>1, <1>5, SupplierAssumption DEF SendPost, StepRun, PurchaseRunHolds, RecordHolds
  <2>2. /\ posts' \in [Purchases -> 0..MaxPosts] /\ wire' \in [Purchases -> 0..MaxPosts]
        /\ posts'[o] = 1 /\ wire'[o] = 1
        /\ \A n \in Purchases \ {o} : posts'[n] = posts[n] /\ wire'[n] = wire[n]
    BY <1>0, <1>1, <2>1, SupplierAssumption
  <2>3. /\ prun' \in [PurchaseRuns -> PurchaseStates] /\ prun'[p].at = "await"
        /\ prun'[p].purchase = o /\ \A q \in PurchaseRuns \ {p} : prun'[q] = prun[q]
    BY <1>0, <2>1 DEF PurchaseStates
  <2>4. SupplierTypeOK'
    BY <2>1, <2>2, <2>3 DEF PurchaseInv, SupplierTypeOK, PurchaseStates
  <2>5. ASSUME NEW n \in Purchases PROVE RecordHolds(n)'
    <3>1. CASE n = o
      BY <3>1, <1>1, <2>1, <2>2 DEF RecordHolds
    <3>2. CASE n # o
      BY <3>2, <2>1, <2>2 DEF PurchaseInv, RecordHolds
    <3> QED
      BY <3>1, <3>2
  <2>6. ASSUME NEW q \in PurchaseRuns PROVE PurchaseRunHolds(q)'
    <3>1. CASE q = p
      BY <3>1, <1>1, <2>3 DEF PurchaseRunHolds
    <3>2. CASE q # p
      BY <3>2, <1>2, <2>1, <2>2, <2>3 DEF PurchaseRunHolds
    <3> QED
      BY <3>1, <3>2
  <2>7. OneAttempt'
    BY <2>3 DEF PurchaseInv, OneAttempt
  <2> QED
    BY <2>4, <2>5, <2>6, <2>7 DEF PurchaseInv
<1> QED
  BY <1>3, <1>4, <1>5

\* What the supplier does and the clock.
LEMMA OutsideStep ==
  ASSUME PurchaseInv, NEW o \in Purchases,
         PostArrives(o) \/ PostIsLost(o) \/ SupplierResolves(o) \/ GraceEnds(o)
  PROVE  PurchaseInv'
<1> USE SupplierAssumption
<1>0. /\ supplierOrder \in [Purchases -> RecordRow]
      /\ posts \in [Purchases -> 0..MaxPosts] /\ wire \in [Purchases -> 0..MaxPosts]
      /\ upstream \in [Purchases -> {"none", "processing", "fulfilled", "rejected"}]
  BY DEF PurchaseInv, SupplierTypeOK, RecordRow
<1>1. UNCHANGED <<prun, posts, supplierAsset>>
  BY DEF PostArrives, PostIsLost, SupplierResolves, GraceEnds
<1>2. /\ wire' \in [Purchases -> 0..MaxPosts] /\ \A n \in Purchases : wire'[n] <= wire[n]
  BY <1>0 DEF PostArrives, PostIsLost, SupplierResolves, GraceEnds
<1>3. /\ upstream' \in [Purchases -> {"none", "processing", "fulfilled", "rejected"}]
      /\ \A n \in Purchases :
           upstream[n] \in {"fulfilled", "rejected"} => upstream'[n] = upstream[n]
  BY <1>0 DEF PostArrives, PostIsLost, SupplierResolves, GraceEnds
<1>4. /\ supplierOrder' \in [Purchases -> RecordRow]
      /\ \A n \in Purchases : /\ supplierOrder'[n].attempts = supplierOrder[n].attempts
                              /\ supplierOrder'[n].status = supplierOrder[n].status
  <2>1. CASE UNCHANGED supplierOrder
    BY <1>0, <2>1
  <2>2. CASE supplierOrder' = [supplierOrder EXCEPT ![o].fresh = FALSE]
    <3> DEFINE row == [supplierOrder[o] EXCEPT !.fresh = FALSE]
    <3>0. supplierOrder[o] \in RecordRow
      BY <1>0
    <3>1. row.attempts = supplierOrder[o].attempts /\ row.status = supplierOrder[o].status
      BY <3>0 DEF RecordRow
    <3>a. row \in RecordRow
      BY <3>0 DEF RecordRow
    <3>2. supplierOrder' = [supplierOrder EXCEPT ![o] = row]
      BY <2>2
    <3> HIDE DEF row
    <3> QED
      BY <1>0, <3>1, <3>a, <3>2
  <2> QED
    BY <2>1, <2>2 DEF PostArrives, PostIsLost, SupplierResolves, GraceEnds
<1>5. SupplierTypeOK'
  BY <1>1, <1>2, <1>3, <1>4 DEF PurchaseInv, SupplierTypeOK, RecordRow
<1>6. ASSUME NEW n \in Purchases PROVE RecordHolds(n)'
  <2>1. RecordHolds(n) /\ wire'[n] \in Nat /\ wire[n] \in Nat /\ posts[n] \in Nat
    BY <1>0, <1>2 DEF PurchaseInv
  <2>2. UNCHANGED <<posts[n], supplierAsset[n]>>
    BY <1>1
  <2> QED
    BY <2>1, <2>2, <1>2, <1>3, <1>4 DEF RecordHolds
<1>7. ASSUME NEW q \in PurchaseRuns PROVE PurchaseRunHolds(q)'
  BY <1>1, <1>3, <1>4 DEF PurchaseInv, PurchaseRunHolds
<1>8. OneAttempt'
  BY <1>1 DEF PurchaseInv, OneAttempt
<1> QED
  BY <1>5, <1>6, <1>7, <1>8 DEF PurchaseInv

LEMMA NextPurchase == PurchaseInv /\ [SupplierNext]_supplierVars => PurchaseInv'
<1> SUFFICES ASSUME PurchaseInv, [SupplierNext]_supplierVars PROVE PurchaseInv'
  OBVIOUS
<1>1. CASE UNCHANGED supplierVars
  BY <1>1 DEF supplierVars, PurchaseInv, SupplierTypeOK, RecordHolds, PurchaseRunHolds, OneAttempt
<1>2. CASE SupplierNext
  <2>1. ASSUME NEW p \in PurchaseRuns, NEW o \in Purchases,
               BeginPurchase(p, o) \/ PickForRecovery(p, o)
        PROVE  PurchaseInv'
    BY <2>1, MoveStep
  <2>2. ASSUME NEW p \in PurchaseRuns,
               CreateAnswers(p) \/ RecoverReads(p) \/ QueryAnswers(p) \/ PurchaseRunCrashes(p)
        PROVE  PurchaseInv'
    <3>1. prun[p].purchase \in Purchases
      BY <2>2 DEF CreateAnswers, RecoverReads, QueryAnswers, PurchaseRunCrashes, PurchaseInv,
         PurchaseRunHolds
    <3> QED
      BY <2>2, <3>1, MoveStep
  <2>3. ASSUME NEW p \in PurchaseRuns,
               \/ InsertIntent(p) \/ GateRefuses(p) \/ LaneCannotRead(p) \/ ApplyAnswer(p)
               \/ Ingest(p)
        PROVE  PurchaseInv'
    BY <2>3, WriteStep
  <2>4. ASSUME NEW p \in PurchaseRuns, MarkAttempt(p) \/ SendPost(p) PROVE PurchaseInv'
    BY <2>4, PurchaseAttemptStep
  <2>5. ASSUME NEW o \in Purchases,
               PostArrives(o) \/ PostIsLost(o) \/ SupplierResolves(o) \/ GraceEnds(o)
        PROVE  PurchaseInv'
    BY <2>5, OutsideStep
  <2> QED
    BY <1>2, <2>1, <2>2, <2>3, <2>4, <2>5 DEF SupplierNext
<1> QED
  BY <1>1, <1>2

(* Whatever the runs do: the attempt of a purchase is marked once, before its *)
(* only POST (markAttempt, createOrder).                                    *)
THEOREM PurchaseInvariant == SupplierSpec => []PurchaseInv
<1>1. SupplierInit => PurchaseInv
  BY InitPurchase
<1>2. PurchaseInv /\ [SupplierNext]_supplierVars => PurchaseInv'
  BY NextPurchase
<1> QED
  BY <1>1, <1>2, PTL DEF SupplierSpec

LEMMA PurchaseIsRecorded == PurchaseInv => BoughtOnceAndRecorded
<1> SUFFICES ASSUME PurchaseInv, NEW o \in Purchases
             PROVE  /\ posts[o] <= 1
                    /\ supplierOrder[o].status = "REJECTED" => posts[o] = 0 \/ upstream[o] = "rejected"
                    /\ supplierOrder[o].status = "FULFILLED" => upstream[o] = "fulfilled"
                    /\ (supplierAsset[o] # "none") <=> (supplierOrder[o].status = "FULFILLED")
  BY DEF BoughtOnceAndRecorded, SupplierBuysOnce, RecordAgreesWithSupplier
<1> QED
  BY SupplierAssumption DEF PurchaseInv, RecordHolds, SupplierTypeOK

-----------------------------------------------------------------------------
(* Trials.  The confirmation is consumed when the row is authorized, and a row *)
(* is authorized once; the attempt is marked on an authorized row alone, at   *)
(* the approved cost, and takes that status away.                           *)

Tried(q) ==
  /\ pressed[q] = "CONSUMED" /\ bought[q].quoted = canary[q].approved
  /\ \/ canary[q].status \in Sent \cup {"FULFILLED", "REJECTED"}
     \/ canary[q].status = "BLOCKED" /\ canary[q].review

CanaryHolds(q) ==
  /\ bought[q].posts <= 1 /\ travels[q] <= bought[q].posts
  /\ canary[q].status \in {"none", "PREVIEWED"} => pressed[q] # "CONSUMED"
  /\ canary[q].status \in Sent \cup {"AUTHORIZED", "FULFILLED", "REJECTED"} =>
       pressed[q] = "CONSUMED"
  /\ bought[q].posts = 1 => Tried(q)
  /\ canary[q].status = "FULFILLED" => abroad[q] = "fulfilled"
  /\ canary[q].status = "REJECTED" => abroad[q] = "rejected"

CanaryRunHolds(r) ==
  /\ crun[r].at # "idle" => Of(r) \in Canaries
  /\ crun[r].at = "post" => Tried(Of(r)) /\ bought[Of(r)].posts = 0
  /\ crun[r].at = "apply" =>
       /\ crun[r].answer # "none"
       /\ crun[r].answer = "FULFILLED" => abroad[Of(r)] = "fulfilled"
       /\ crun[r].answer = "REJECTED" => abroad[Of(r)] = "rejected"

OneTrial ==
  \A r, s \in CanaryRuns :
    crun[r].at = "post" /\ crun[s].at = "post" /\ Of(r) = Of(s) => r = s

CanaryInv ==
  /\ CanaryTypeOK
  /\ \A q \in Canaries : CanaryHolds(q)
  /\ \A r \in CanaryRuns : CanaryRunHolds(r)
  /\ OneTrial
CanaryStates ==
  [at : {"idle", "load", "gate", "attempt", "post", "await", "recover", "query", "apply",
         "schedule"},
   canary : Canaries \cup {NoCanary}, lane : BOOLEAN, current : BOOLEAN,
   answer : CanaryAnswers \cup {"none"}]
CanaryRow ==
  [status : Sent \cup {"none", "PREVIEWED", "AUTHORIZED", "FULFILLED", "REJECTED", "BLOCKED"},
   approved : Costs \cup {0}, linked : BOOLEAN, review : BOOLEAN, fresh : BOOLEAN]
Presses == {"none", "CREATED", "CONSUMED", "EXPIRED"}
Purse == [posts : 0 .. MaxOrders, quoted : Costs \cup {0}]
Ends == {"none", "processing", "fulfilled", "rejected"}

LEMMA CanaryTypes ==
  ASSUME CanaryInv
  PROVE  /\ canary \in [Canaries -> CanaryRow] /\ crun \in [CanaryRuns -> CanaryStates]
         /\ pressed \in [Canaries -> Presses] /\ bought \in [Canaries -> Purse]
         /\ travels \in [Canaries -> 0 .. MaxOrders] /\ abroad \in [Canaries -> Ends]
         /\ offer \in [cost : Costs, open : BOOLEAN]
  BY DEF CanaryInv, CanaryTypeOK, CanaryRow, CanaryStates, Presses, Purse, Ends

LEMMA InitCanary == CanaryInit => CanaryInv
<1> SUFFICES ASSUME CanaryInit PROVE CanaryInv
  OBVIOUS
<1> USE CanaryAssumption DEF CanaryInit, NoPreview, NoCanaryRun
<1>1. offer \in [cost : Costs, open : BOOLEAN]
  OBVIOUS
<1>2. CanaryTypeOK
  BY <1>1 DEF CanaryTypeOK
<1>3. \A q \in Canaries : CanaryHolds(q)
  BY DEF CanaryHolds, Sent
<1>4. (\A r \in CanaryRuns : CanaryRunHolds(r)) /\ OneTrial
  BY DEF CanaryRunHolds, OneTrial
<1> QED
  BY <1>2, <1>3, <1>4 DEF CanaryInv

\* A run goes on; a write of its row changes no other run but what it holds of the version.
LEMMA OthersStay ==
  ASSUME crun \in [CanaryRuns -> CanaryStates], NEW r \in CanaryRuns, NEW state \in CanaryStates,
         NEW q, Go(r, state) \/ GoAndBump(r, state, q)
  PROVE  /\ crun' \in [CanaryRuns -> CanaryStates] /\ crun'[r] = state
         /\ \A s \in CanaryRuns \ {r} : /\ crun'[s].at = crun[s].at
                                        /\ crun'[s].canary = crun[s].canary
                                        /\ crun'[s].answer = crun[s].answer
<1>1. CASE Go(r, state)
  BY <1>1 DEF Go
<1>2. CASE GoAndBump(r, state, q)
  <2>1. ASSUME NEW s \in CanaryRuns, s # r
        PROVE  /\ crun'[s] \in CanaryStates /\ crun'[s].at = crun[s].at
               /\ crun'[s].canary = crun[s].canary /\ crun'[s].answer = crun[s].answer
    <3>1. crun'[s] = crun[s] \/ crun'[s] = [crun[s] EXCEPT !.current = FALSE]
      BY <1>2, <2>1 DEF GoAndBump
    <3>2. crun[s] \in CanaryStates
      BY <2>1
    <3> QED
      BY <3>1, <3>2 DEF CanaryStates
  <2>2. crun'[r] = state /\ crun' = [s \in CanaryRuns |-> crun'[s]]
    BY <1>2 DEF GoAndBump
  <2> QED
    BY <2>1, <2>2
<1> QED
  BY <1>1, <1>2

\* What a row keeps through a step that sends nothing.
RowKeeps(n) == CanaryHolds(n)' /\ (Tried(n) => Tried(n)')

\* A step of run r that takes no attempt.
LEMMA CanaryMoves ==
  ASSUME CanaryInv, NEW r \in CanaryRuns, NEW state \in CanaryStates, NEW q,
         Go(r, state) \/ GoAndBump(r, state, q),
         state.at # "idle" => state.canary \in Canaries,
         state.at # "post",
         state.at = "apply" =>
           /\ state.answer # "none"
           /\ state.answer = "FULFILLED" => abroad[state.canary] = "fulfilled"
           /\ state.answer = "REJECTED" => abroad[state.canary] = "rejected",
         canary' \in [Canaries -> CanaryRow], pressed' \in [Canaries -> Presses],
         \A n \in Canaries : RowKeeps(n),
         UNCHANGED <<offer, bought, travels, abroad>>
  PROVE  CanaryInv'
<1>1. /\ crun' \in [CanaryRuns -> CanaryStates] /\ crun'[r] = state
      /\ \A s \in CanaryRuns \ {r} : /\ crun'[s].at = crun[s].at
                                     /\ crun'[s].canary = crun[s].canary
                                     /\ crun'[s].answer = crun[s].answer
  BY CanaryTypes, OthersStay
<1>2. CanaryTypeOK'
  BY <1>1 DEF CanaryInv, CanaryTypeOK, CanaryRow, CanaryStates, Presses
<1>3. ASSUME NEW s \in CanaryRuns PROVE CanaryRunHolds(s)'
  <2>1. CASE s = r
    BY <1>1, <2>1 DEF CanaryRunHolds, Of
  <2>2. CASE s # r
    <3>1. CanaryRunHolds(s) /\ Of(s)' = Of(s) /\ crun'[s].at = crun[s].at
          /\ crun'[s].answer = crun[s].answer
      BY <1>1, <2>2 DEF CanaryInv, Of
    <3>2. PICK n : n = Of(s)
      OBVIOUS
    <3>3. n \in Canaries /\ Tried(n) => Tried(n)'
      BY DEF RowKeeps
    <3>4. Tried(Of(s))' = Tried(n)'
      BY <3>1, <3>2 DEF Tried
    <3> QED
      BY <3>1, <3>2, <3>3, <3>4 DEF CanaryRunHolds
  <2> QED
    BY <2>1, <2>2
<1>4. OneTrial'
  BY <1>1 DEF CanaryInv, OneTrial, Of
<1> QED
  BY <1>2, <1>3, <1>4 DEF CanaryInv, RowKeeps

\* A step that leaves the runs alone.
LEMMA RowMoves ==
  ASSUME CanaryInv, UNCHANGED <<crun, bought>>,
         offer' \in [cost : Costs, open : BOOLEAN],
         canary' \in [Canaries -> CanaryRow], pressed' \in [Canaries -> Presses],
         travels' \in [Canaries -> 0 .. MaxOrders], abroad' \in [Canaries -> Ends],
         \A n \in Canaries :
           abroad[n] \in {"fulfilled", "rejected"} => abroad'[n] = abroad[n],
         \A n \in Canaries : RowKeeps(n)
  PROVE  CanaryInv'
<1>1. CanaryTypeOK'
  BY DEF CanaryInv, CanaryTypeOK, CanaryRow, Presses, Ends
<1>2. ASSUME NEW s \in CanaryRuns PROVE CanaryRunHolds(s)'
  <2>1. CanaryRunHolds(s) /\ Of(s)' = Of(s) /\ crun'[s] = crun[s]
    BY DEF CanaryInv, Of
  <2>2. PICK n : n = Of(s)
    OBVIOUS
  <2>3. n \in Canaries /\ Tried(n) => Tried(n)'
    BY DEF RowKeeps
  <2>4. Tried(Of(s))' = Tried(n)'
    BY <2>1, <2>2 DEF Tried
  <2> QED
    BY <2>1, <2>2, <2>3, <2>4 DEF CanaryRunHolds
<1>3. OneTrial'
  BY DEF CanaryInv, OneTrial, Of
<1> QED
  BY <1>1, <1>2, <1>3 DEF CanaryInv, RowKeeps

LEMMA RowsUnchanged ==
  ASSUME CanaryInv, UNCHANGED <<canary, pressed, bought, travels, abroad>>
  PROVE  \A n \in Canaries : RowKeeps(n)
  BY DEF CanaryInv, RowKeeps, CanaryHolds, Tried

\* A write of one row, by whom it may be.
LEMMA RowWrite ==
  ASSUME CanaryInv, NEW q \in Canaries, NEW row \in CanaryRow,
         canary' = [canary EXCEPT ![q] = row],
         pressed' \in [Canaries -> Presses],
         \A n \in Canaries \ {q} : pressed'[n] = pressed[n],
         row.status = "PREVIEWED" => pressed'[q] # "CONSUMED",
         row.status # "none",
         row.status \in Sent \cup {"AUTHORIZED", "FULFILLED", "REJECTED"} => pressed'[q] = "CONSUMED",
         Tried(q) => /\ pressed'[q] = "CONSUMED" /\ row.approved = canary[q].approved
                     /\ \/ row.status \in Sent \cup {"FULFILLED", "REJECTED"}
                        \/ row.status = "BLOCKED" /\ row.review,
         row.status = "FULFILLED" => abroad[q] = "fulfilled",
         row.status = "REJECTED" => abroad[q] = "rejected",
         UNCHANGED <<bought, travels, abroad>>
  PROVE  canary' \in [Canaries -> CanaryRow] /\ \A n \in Canaries : RowKeeps(n)
<1>1. canary \in [Canaries -> CanaryRow] /\ canary' \in [Canaries -> CanaryRow]
  BY CanaryTypes
<1>2. RowKeeps(q)
  <2>1. canary'[q] = row /\ CanaryHolds(q)
    BY <1>1 DEF CanaryInv
  <2>2. Tried(q) => Tried(q)'
    BY <2>1 DEF Tried
  <2> QED
    BY <2>1, <2>2 DEF RowKeeps, CanaryHolds
<1>3. ASSUME NEW n \in Canaries, n # q PROVE RowKeeps(n)
  <2>1. canary'[n] = canary[n] /\ pressed'[n] = pressed[n] /\ CanaryHolds(n)
    BY <1>1, <1>3 DEF CanaryInv
  <2> QED
    BY <2>1 DEF RowKeeps, CanaryHolds, Tried
<1> QED
  BY <1>1, <1>2, <1>3

LEMMA AfterIsQuiet ==
  ASSUME CanaryInv, NEW r \in CanaryRuns, crun[r].at # "idle"
  PROVE  /\ After(r) \in CanaryStates /\ After(r).at \in {"idle", "schedule"}
         /\ After(r).at # "idle" => After(r).canary \in Canaries
<1>1. crun[r] \in CanaryStates /\ crun[r].canary \in Canaries
  BY CanaryTypes DEF CanaryInv, CanaryRunHolds, Of
<1>2. CASE crun[r].lane
  <2>1. After(r) = [crun[r] EXCEPT !.at = "schedule"]
    BY <1>2 DEF After
  <2> QED
    BY <1>1, <2>1 DEF CanaryStates
<1>3. CASE ~crun[r].lane
  BY <1>3 DEF After, NoCanaryRun, CanaryStates
<1> QED
  BY <1>2, <1>3

\* A run that only reads the row goes on with at, or is done with it.
LEMMA ReadStep ==
  ASSUME CanaryInv, NEW r \in CanaryRuns, crun[r].at # "idle",
         \/ Go(r, After(r))
         \/ Go(r, NoCanaryRun)
         \/ GoAndBump(r, NoCanaryRun, Of(r))
         \/ \E at \in {"gate", "attempt", "recover", "query"}, current \in BOOLEAN :
              Go(r, [crun[r] EXCEPT !.at = at, !.current = current]),
         UNCHANGED <<offer, canary, pressed, bought, travels, abroad>>
  PROVE  CanaryInv'
<1>1. /\ canary' \in [Canaries -> CanaryRow] /\ pressed' \in [Canaries -> Presses]
      /\ \A n \in Canaries : RowKeeps(n)
  BY CanaryTypes, RowsUnchanged
<1>2. crun[r] \in CanaryStates /\ crun[r].canary \in Canaries
  BY CanaryTypes DEF CanaryInv, CanaryRunHolds, Of
<1>3. CASE Go(r, After(r))
  <2>1. /\ After(r) \in CanaryStates /\ After(r).at \in {"idle", "schedule"}
        /\ After(r).at # "idle" => After(r).canary \in Canaries
    BY AfterIsQuiet
  <2> QED
    BY <1>1, <1>3, <2>1, CanaryMoves
<1>4. CASE Go(r, NoCanaryRun) \/ GoAndBump(r, NoCanaryRun, Of(r))
  <2>1. NoCanaryRun \in CanaryStates /\ NoCanaryRun.at = "idle"
    BY DEF NoCanaryRun, CanaryStates
  <2> QED
    BY <1>1, <1>4, <2>1, CanaryMoves
<1>5. ASSUME NEW at \in {"gate", "attempt", "recover", "query"}, NEW current \in BOOLEAN,
             Go(r, [crun[r] EXCEPT !.at = at, !.current = current])
      PROVE  CanaryInv'
  <2> DEFINE state == [crun[r] EXCEPT !.at = at, !.current = current]
  <2>1. state \in CanaryStates /\ state.at = at /\ state.canary \in Canaries
    BY <1>2 DEF CanaryStates
  <2>2. Go(r, state)
    BY <1>5
  <2> HIDE DEF state
  <2> QED
    BY <1>1, <2>1, <2>2, CanaryMoves
<1> QED
  BY <1>3, <1>4, <1>5

LEMMA ReadingActions ==
  ASSUME CanaryInv, NEW r \in CanaryRuns,
         LoadCanary(r) \/ GatesAreOpen(r) \/ RecoverCanary(r) \/ ScheduleCanary(r) \/ CanaryRunDies(r)
  PROVE  CanaryInv'
<1>1. /\ crun[r].at # "idle" /\ crun[r] \in CanaryStates
      /\ UNCHANGED <<offer, canary, pressed, bought, travels, abroad>>
  BY CanaryTypes DEF LoadCanary, GatesAreOpen, RecoverCanary, ScheduleCanary, CanaryRunDies
<1>2. ASSUME NEW at PROVE [crun[r] EXCEPT !.at = at, !.current = crun[r].current]
                          = [crun[r] EXCEPT !.at = at]
  BY <1>1 DEF CanaryStates
<1>3. crun[r].current \in BOOLEAN
  BY <1>1 DEF CanaryStates
<1>4. CASE LoadCanary(r)
  <2>1. \/ Go(r, After(r))
        \/ Go(r, [crun[r] EXCEPT !.at = "gate", !.current = TRUE])
        \/ Go(r, [crun[r] EXCEPT !.at = "recover", !.current = TRUE])
    BY <1>4 DEF LoadCanary
  <2> QED
    BY <1>1, <2>1, ReadStep
<1>5. CASE GatesAreOpen(r)
  <2>1. \/ Go(r, After(r))
        \/ Go(r, [crun[r] EXCEPT !.at = "attempt", !.current = crun[r].current])
        \/ Go(r, [crun[r] EXCEPT !.at = "recover", !.current = crun[r].current])
    BY <1>2, <1>5 DEF GatesAreOpen
  <2> QED
    BY <1>1, <1>3, <2>1, ReadStep
<1>6. CASE RecoverCanary(r)
  <2>1. \/ Go(r, After(r))
        \/ Go(r, [crun[r] EXCEPT !.at = "query", !.current = crun[r].current])
    BY <1>2, <1>6 DEF RecoverCanary
  <2> QED
    BY <1>1, <1>3, <2>1, ReadStep
<1>7. CASE ScheduleCanary(r) \/ CanaryRunDies(r)
  BY <1>1, <1>7, ReadStep DEF ScheduleCanary, CanaryRunDies
<1> QED
  BY <1>4, <1>5, <1>6, <1>7

\* A press of the owner, or a pick of the lane, takes up a row.
LEMMA TakingUp ==
  ASSUME CanaryInv, NEW r \in CanaryRuns, NEW q \in Canaries, Confirm(r, q) \/ PickCanary(r, q)
  PROVE  CanaryInv'
<1>1. /\ canary[q] \in CanaryRow /\ pressed \in [Canaries -> Presses]
      /\ canary \in [Canaries -> CanaryRow]
  BY CanaryTypes
<1>2. PICK state \in CanaryStates :
        /\ state.at = "load" /\ state.canary = q
        /\ Go(r, state) \/ GoAndBump(r, state, q)
  <2>1. /\ [NoCanaryRun EXCEPT !.at = "load", !.canary = q] \in CanaryStates
        /\ [NoCanaryRun EXCEPT !.at = "load", !.canary = q, !.lane = TRUE] \in CanaryStates
    BY DEF NoCanaryRun, CanaryStates
  <2> QED
    BY <2>1 DEF Confirm, PickCanary, NoCanaryRun
<1>3. /\ canary' \in [Canaries -> CanaryRow] /\ pressed' \in [Canaries -> Presses]
      /\ \A n \in Canaries : RowKeeps(n)
      /\ UNCHANGED <<offer, bought, travels, abroad>>
  <2>1. CASE UNCHANGED <<canary, pressed>>
    BY <1>1, <2>1, RowsUnchanged DEF Confirm, PickCanary
  <2>2. CASE ~UNCHANGED <<canary, pressed>>
    <3>1. /\ pressed[q] = "CREATED" /\ canary[q].status = "PREVIEWED"
          /\ canary' = [canary EXCEPT ![q].status = "AUTHORIZED"]
          /\ pressed' = [pressed EXCEPT ![q] = "CONSUMED"]
          /\ UNCHANGED <<offer, bought, travels, abroad>>
      BY <2>2 DEF Confirm, PickCanary
    <3> DEFINE row == [canary[q] EXCEPT !.status = "AUTHORIZED"]
    <3>2. row \in CanaryRow /\ row.status = "AUTHORIZED" /\ canary' = [canary EXCEPT ![q] = row]
      BY <1>1, <3>1 DEF CanaryRow
    <3> HIDE DEF row
    <3>3. /\ pressed' \in [Canaries -> Presses] /\ pressed'[q] = "CONSUMED"
          /\ \A n \in Canaries \ {q} : pressed'[n] = pressed[n]
      BY <1>1, <3>1 DEF Presses
    <3>4. ~Tried(q)
      BY <3>1 DEF Tried
    <3> QED
      BY <3>1, <3>2, <3>3, <3>4, RowWrite
  <2> QED
    BY <2>1, <2>2
<1> QED
  BY <1>2, <1>3, CanaryMoves

LEMMA AnswerStep ==
  ASSUME CanaryInv, NEW r \in CanaryRuns, SupplierAnswers(r) \/ ProviderCannotRead(r)
  PROVE  CanaryInv'
<1>1. /\ canary' \in [Canaries -> CanaryRow] /\ pressed' \in [Canaries -> Presses]
      /\ \A n \in Canaries : RowKeeps(n)
      /\ UNCHANGED <<offer, canary, pressed, bought, travels, abroad>>
  BY CanaryTypes, RowsUnchanged DEF SupplierAnswers, ProviderCannotRead
<1>2. crun[r] \in CanaryStates /\ crun[r].canary \in Canaries
  BY CanaryTypes DEF CanaryInv, CanaryRunHolds, Of, SupplierAnswers, ProviderCannotRead
<1>3. PICK answer \in Truth(Of(r)) \cup {"ERROR", "UNKNOWN", "UNREADABLE"} :
        Go(r, [crun[r] EXCEPT !.at = "apply", !.answer = answer])
  BY DEF SupplierAnswers, ProviderCannotRead
<1>4. /\ answer \in CanaryAnswers /\ answer # "none"
      /\ answer = "FULFILLED" => abroad[Of(r)] = "fulfilled"
      /\ answer = "REJECTED" => abroad[Of(r)] = "rejected"
  BY DEF Truth, CanaryAnswers
<1> DEFINE state == [crun[r] EXCEPT !.at = "apply", !.answer = answer]
<1>5. /\ state \in CanaryStates /\ state.at = "apply" /\ state.canary = Of(r)
      /\ state.answer = answer /\ Go(r, state)
  BY <1>2, <1>3, <1>4 DEF CanaryStates, Of
<1> HIDE DEF state
<1> QED
  BY <1>1, <1>2, <1>4, <1>5, CanaryMoves DEF Of

LEMMA BlocksStep ==
  ASSUME CanaryInv, NEW r \in CanaryRuns, crun[r].at # "idle", Blocks(r),
         UNCHANGED <<offer, pressed, bought, travels, abroad>>
  PROVE  CanaryInv'
<1>1. PICK q \in Canaries : q = Of(r)
  BY DEF CanaryInv, CanaryRunHolds
<1>2. CASE canary[q].status = "AUTHORIZED" /\ GoAndBump(r, After(r), q)
           /\ canary' = [canary EXCEPT ![q].status = "BLOCKED"]
  <2>1. canary[q] \in CanaryRow /\ canary \in [Canaries -> CanaryRow] /\ pressed \in [Canaries -> Presses]
    BY CanaryTypes
  <2> DEFINE row == [canary[q] EXCEPT !.status = "BLOCKED"]
  <2>2. row \in CanaryRow /\ row.status = "BLOCKED" /\ canary' = [canary EXCEPT ![q] = row]
    BY <1>2, <2>1 DEF CanaryRow
  <2> HIDE DEF row
  <2>3. ~Tried(q)
    BY <1>2 DEF Tried, Sent
  <2>4. canary' \in [Canaries -> CanaryRow] /\ \A n \in Canaries : RowKeeps(n)
    BY <2>1, <2>2, <2>3, RowWrite DEF Sent
  <2> QED
    BY <1>2, <2>1, <2>4, AfterIsQuiet, CanaryMoves
<1>3. CASE Go(r, After(r)) /\ UNCHANGED canary
  BY <1>3, ReadStep
<1> QED
  BY <1>1, <1>2, <1>3 DEF Blocks

LEMMA ApplyStep ==
  ASSUME CanaryInv, NEW r \in CanaryRuns, ApplyCanaryAnswer(r)
  PROVE  CanaryInv'
<1>1. PICK q \in Canaries : q = Of(r)
  BY DEF CanaryInv, CanaryRunHolds, ApplyCanaryAnswer
<1>2. /\ crun[r].at = "apply" /\ crun[r].answer \in CanaryAnswers
      /\ crun[r].answer = "FULFILLED" => abroad[q] = "fulfilled"
      /\ crun[r].answer = "REJECTED" => abroad[q] = "rejected"
      /\ UNCHANGED <<offer, pressed, bought, travels, abroad>>
  BY <1>1, CanaryTypes DEF CanaryInv, CanaryRunHolds, ApplyCanaryAnswer, CanaryStates
<1>3. CASE RecordsAnswer(r)
  <2>1. canary[q] \in CanaryRow /\ canary \in [Canaries -> CanaryRow] /\ pressed \in [Canaries -> Presses]
    BY CanaryTypes
  <2>2. /\ crun[r].answer # "ERROR" /\ canary[q].status \in Sent \cup {"AUTHORIZED"}
        /\ GoAndBump(r, After(r), q)
        /\ canary' = [canary EXCEPT ![q] = Answering(@, crun[r].answer)]
    BY <1>1, <1>3 DEF ApplyCanaryAnswer, RecordsAnswer
  <2> DEFINE row == Answering(canary[q], crun[r].answer)
  <2>3. canary' = [canary EXCEPT ![q] = row]
    BY <2>2
  <2>4. /\ row \in CanaryRow /\ row.approved = canary[q].approved
        /\ \/ row.status = "BLOCKED" /\ row.review
           \/ /\ row.status = crun[r].answer
              /\ row.status \in {"PENDING", "FULFILLED", "REJECTED", "UNKNOWN"}
    BY <1>2, <2>1, <2>2 DEF Answering, CanaryRow, CanaryAnswers, Sent
  <2> HIDE DEF row
  <2>5. pressed[q] = "CONSUMED"
    BY <2>2 DEF CanaryInv, CanaryHolds
  <2>6. canary' \in [Canaries -> CanaryRow] /\ \A n \in Canaries : RowKeeps(n)
    BY <1>2, <2>1, <2>3, <2>4, <2>5, RowWrite DEF Sent
  <2> QED
    BY <1>2, <2>1, <2>2, <2>6, AfterIsQuiet, CanaryMoves
<1>4. CASE ~RecordsAnswer(r)
  BY <1>2, <1>4, ReadStep DEF ApplyCanaryAnswer
<1> QED
  BY <1>3, <1>4

\* The attempt, at the approved cost: it takes AUTHORIZED away, so there is one.
LEMMA MarkStep ==
  ASSUME CanaryInv, NEW r \in CanaryRuns, MarkCanaryAttempt(r)
  PROVE  CanaryInv'
<1>1. PICK q \in Canaries : q = Of(r)
  BY DEF CanaryInv, CanaryRunHolds, MarkCanaryAttempt
<1>2. CASE ~Attemptable(r)
  BY <1>2, BlocksStep DEF MarkCanaryAttempt
<1>3. CASE Attemptable(r)
  <2>1. /\ canary[q] \in CanaryRow /\ canary \in [Canaries -> CanaryRow] /\ CanaryHolds(q)
        /\ bought \in [Canaries -> Purse] /\ bought[q] \in Purse
        /\ crun[r] \in CanaryStates /\ crun \in [CanaryRuns -> CanaryStates]
        /\ offer.cost \in Costs
    BY CanaryTypes DEF CanaryInv
  <2>2. /\ canary[q].status = "AUTHORIZED" /\ offer.cost = canary[q].approved
        /\ canary' = [canary EXCEPT ![q].status = "SUBMITTED", ![q].fresh = TRUE]
        /\ bought' = [bought EXCEPT ![q].quoted = offer.cost]
        /\ GoAndBump(r, [crun[r] EXCEPT !.at = "post", !.current = TRUE], q)
        /\ UNCHANGED <<offer, pressed, travels, abroad>>
    BY <1>1, <1>3 DEF MarkCanaryAttempt, Attemptable
  <2>3. /\ canary' \in [Canaries -> CanaryRow] /\ canary'[q].status = "SUBMITTED"
        /\ canary'[q].approved = canary[q].approved
        /\ \A n \in Canaries \ {q} : canary'[n] = canary[n]
    BY <2>1, <2>2 DEF CanaryRow, Sent
  <2>4. /\ bought' \in [Canaries -> Purse] /\ bought'[q].quoted = offer.cost
        /\ bought'[q].posts = bought[q].posts
        /\ \A n \in Canaries \ {q} : bought'[n] = bought[n]
    BY <2>1, <2>2 DEF Purse
  <2> DEFINE state == [crun[r] EXCEPT !.at = "post", !.current = TRUE]
  <2>5. state \in CanaryStates /\ state.at = "post" /\ state.canary = q
    BY <1>1, <2>1 DEF CanaryStates, Of
  <2>6. GoAndBump(r, state, q)
    BY <2>2
  <2> HIDE DEF state
  <2>7. /\ crun' \in [CanaryRuns -> CanaryStates] /\ crun'[r] = state
        /\ \A s \in CanaryRuns \ {r} : /\ crun'[s].at = crun[s].at
                                       /\ crun'[s].canary = crun[s].canary
                                       /\ crun'[s].answer = crun[s].answer
    BY <2>1, <2>5, <2>6, OthersStay
  <2>8. ~Tried(q) /\ bought[q].posts = 0 /\ pressed[q] = "CONSUMED" /\ Tried(q)'
    <3>0. canary[q].status = "AUTHORIZED"
      BY <2>2
    <3>1. ~Tried(q) /\ pressed[q] = "CONSUMED"
      <4>1. ~Tried(q)
        BY <3>0 DEF Tried, Sent
      <4>2. pressed[q] = "CONSUMED"
        BY <3>0, <2>1 DEF CanaryHolds
      <4> QED
        BY <4>1, <4>2
    <3>2. bought[q].posts = 0
      <4>1. bought[q].posts <= 1 /\ bought[q].posts # 1
        BY <2>1, <3>1 DEF CanaryHolds
      <4>2. bought[q].posts \in Nat
        BY <2>1, CanaryAssumption DEF Purse
      <4> QED
        BY <4>1, <4>2
    <3> QED
      BY <2>2, <2>3, <2>4, <3>1, <3>2 DEF Tried, Sent
  <2>9. CanaryTypeOK'
    BY <2>2, <2>3, <2>4, <2>7 DEF CanaryInv, CanaryTypeOK, CanaryRow, CanaryStates, Purse
  <2>10. ASSUME NEW n \in Canaries PROVE CanaryHolds(n)' /\ (Tried(n) => Tried(n)')
    <3>1. CASE n = q
      BY <3>1, <2>1, <2>2, <2>3, <2>4, <2>8 DEF CanaryHolds, Sent
    <3>2. CASE n # q
      BY <3>2, <2>2, <2>3, <2>4 DEF CanaryInv, CanaryHolds, Tried
    <3> QED
      BY <3>1, <3>2
  <2>11. ASSUME NEW s \in CanaryRuns PROVE CanaryRunHolds(s)'
    <3>1. CASE s = r
      <4>1. Of(s)' = q /\ crun'[s].at = "post"
        BY <3>1, <2>5, <2>7 DEF Of
      <4>2. Tried(Of(s))' = Tried(q)'
        BY <4>1 DEF Tried
      <4> QED
        BY <4>1, <4>2, <2>4, <2>8 DEF CanaryRunHolds
    <3>2. CASE s # r
      <4>1. PICK n : n = Of(s)
        OBVIOUS
      <4>2. /\ CanaryRunHolds(s) /\ Of(s)' = n /\ crun'[s].at = crun[s].at
            /\ crun'[s].answer = crun[s].answer
        BY <3>2, <4>1, <2>7 DEF CanaryInv, Of
      <4>3. Tried(Of(s))' = Tried(n)'
        BY <4>2 DEF Tried
      <4>4. crun[s].at = "post" => n # q /\ n \in Canaries
        BY <4>1, <4>2, <2>8 DEF CanaryRunHolds
      <4>5. n # q /\ n \in Canaries => bought'[n] = bought[n] /\ (Tried(n) => Tried(n)')
        BY <2>4, <2>10
      <4> QED
        BY <4>1, <4>2, <4>3, <4>4, <4>5, <2>2 DEF CanaryRunHolds
    <3> QED
      BY <3>1, <3>2
  <2>12. OneTrial'
    <3>1. \A s \in CanaryRuns : crun[s].at = "post" => Of(s) # q
      BY <2>8 DEF CanaryInv, CanaryRunHolds
    <3> QED
      BY <3>1, <2>5, <2>7 DEF CanaryInv, OneTrial, Of
  <2> QED
    BY <2>9, <2>10, <2>11, <2>12 DEF CanaryInv
<1> QED
  BY <1>2, <1>3

LEMMA SendStep ==
  ASSUME CanaryInv, NEW r \in CanaryRuns, SendOrder(r)
  PROVE  CanaryInv'
<1>1. PICK q \in Canaries : q = Of(r)
  BY DEF CanaryInv, CanaryRunHolds, SendOrder
<1>2. /\ bought \in [Canaries -> Purse] /\ travels \in [Canaries -> 0 .. MaxOrders]
      /\ crun \in [CanaryRuns -> CanaryStates] /\ crun[r] \in CanaryStates
      /\ CanaryHolds(q) /\ CanaryRunHolds(r)
  BY CanaryTypes DEF CanaryInv
<1>3. /\ Tried(q) /\ bought[q].posts = 0 /\ travels[q] = 0 /\ crun[r].at = "post"
      /\ bought' = [bought EXCEPT ![q].posts = @ + 1] /\ travels' = [travels EXCEPT ![q] = @ + 1]
      /\ Go(r, [crun[r] EXCEPT !.at = "await"])
      /\ UNCHANGED <<offer, canary, pressed, abroad>>
  BY <1>1, <1>2, CanaryAssumption DEF SendOrder, CanaryRunHolds, CanaryHolds
<1>4. /\ bought' \in [Canaries -> Purse] /\ bought'[q].posts = 1
      /\ bought'[q].quoted = bought[q].quoted /\ \A n \in Canaries \ {q} : bought'[n] = bought[n]
  BY <1>2, <1>3, CanaryAssumption DEF Purse
<1>5. /\ travels' \in [Canaries -> 0 .. MaxOrders] /\ travels'[q] = 1
      /\ \A n \in Canaries \ {q} : travels'[n] = travels[n]
  BY <1>2, <1>3, CanaryAssumption
<1> DEFINE state == [crun[r] EXCEPT !.at = "await"]
<1>6. state \in CanaryStates /\ state.at = "await" /\ Go(r, state)
  BY <1>2, <1>3 DEF CanaryStates
<1> HIDE DEF state
<1>7. /\ crun' \in [CanaryRuns -> CanaryStates] /\ crun'[r] = state
      /\ \A s \in CanaryRuns \ {r} : /\ crun'[s].at = crun[s].at
                                     /\ crun'[s].canary = crun[s].canary
                                     /\ crun'[s].answer = crun[s].answer
  BY <1>2, <1>6, OthersStay
<1>8. CanaryTypeOK'
  BY <1>3, <1>4, <1>5, <1>7 DEF CanaryInv, CanaryTypeOK, CanaryStates, Purse
<1>9. ASSUME NEW n \in Canaries PROVE CanaryHolds(n)' /\ (Tried(n) => Tried(n)')
  <2>1. CASE n = q
    BY <2>1, <1>2, <1>3, <1>4, <1>5 DEF CanaryHolds, Tried
  <2>2. CASE n # q
    BY <2>2, <1>3, <1>4, <1>5 DEF CanaryInv, CanaryHolds, Tried
  <2> QED
    BY <2>1, <2>2
<1>10. ASSUME NEW s \in CanaryRuns PROVE CanaryRunHolds(s)'
  <2>1. CASE s = r
    <3>1. crun'[s].at = "await" /\ Of(s)' \in Canaries
      BY <2>1, <1>1, <1>2, <1>3, <1>6, <1>7 DEF Of, Go
    <3> QED
      BY <3>1 DEF CanaryRunHolds
  <2>2. CASE s # r
    <3>1. PICK n : n = Of(s)
      OBVIOUS
    <3>2. /\ CanaryRunHolds(s) /\ Of(s)' = n /\ crun'[s].at = crun[s].at
          /\ crun'[s].answer = crun[s].answer
      BY <2>2, <3>1, <1>7 DEF CanaryInv, Of
    <3>3. Tried(Of(s))' = Tried(n)'
      BY <3>2 DEF Tried
    <3>4. crun[s].at = "post" => n # q /\ n \in Canaries
      BY <2>2, <3>1, <3>2, <1>1, <1>3 DEF CanaryInv, CanaryRunHolds, OneTrial
    <3>5. n # q /\ n \in Canaries => bought'[n] = bought[n] /\ (Tried(n) => Tried(n)')
      BY <1>4, <1>9
    <3> QED
      BY <3>1, <3>2, <3>3, <3>4, <3>5, <1>3 DEF CanaryRunHolds
  <2> QED
    BY <2>1, <2>2
<1>11. OneTrial'
  BY <1>6, <1>7 DEF CanaryInv, OneTrial, Of
<1> QED
  BY <1>8, <1>9, <1>10, <1>11 DEF CanaryInv

\* The owner prepares a trial, and what happens to it outside the runs.
LEMMA PreparationStep ==
  ASSUME CanaryInv, NEW q \in Canaries,
         \/ PrepareCanary(q) \/ LinkConfirmation(q) \/ PreviewIsRefused(q) \/ CanaryGraceEnds(q)
         \/ IssueConfirmation(q) \/ ConfirmationExpires(q)
  PROVE  CanaryInv'
<1>0. /\ canary[q] \in CanaryRow /\ canary \in [Canaries -> CanaryRow]
      /\ pressed \in [Canaries -> Presses] /\ offer.cost \in Costs /\ CanaryHolds(q)
      /\ offer \in [cost : Costs, open : BOOLEAN]
      /\ travels \in [Canaries -> 0 .. MaxOrders] /\ abroad \in [Canaries -> Ends]
  BY CanaryTypes DEF CanaryInv
<1>1. UNCHANGED <<offer, bought, travels, abroad, crun>>
  BY DEF PrepareCanary, LinkConfirmation, PreviewIsRefused, CanaryGraceEnds, IssueConfirmation,
     ConfirmationExpires
<1>2. /\ pressed' \in [Canaries -> Presses] /\ \A n \in Canaries \ {q} : pressed'[n] = pressed[n]
      /\ pressed'[q] = "CONSUMED" <=> pressed[q] = "CONSUMED"
  BY <1>0 DEF PrepareCanary, LinkConfirmation, PreviewIsRefused, CanaryGraceEnds,
     IssueConfirmation, ConfirmationExpires, Presses
<1>3. /\ canary' \in [Canaries -> CanaryRow] /\ \A n \in Canaries : RowKeeps(n)
  <2>1. CASE PrepareCanary(q)
    <3> DEFINE row == [canary[q] EXCEPT !.status = "PREVIEWED", !.approved = offer.cost]
    <3>1. row \in CanaryRow /\ row.status = "PREVIEWED" /\ canary' = [canary EXCEPT ![q] = row]
      BY <1>0, <2>1 DEF PrepareCanary, CanaryRow
    <3> HIDE DEF row
    <3>2. ~Tried(q) /\ pressed[q] # "CONSUMED"
      BY <1>0, <2>1 DEF PrepareCanary, Tried, Sent, CanaryHolds
    <3> QED
      BY <1>1, <1>2, <3>1, <3>2, RowWrite DEF Sent
  <2>2. CASE LinkConfirmation(q) \/ CanaryGraceEnds(q)
    <3>1. PICK row \in CanaryRow :
            /\ canary' = [canary EXCEPT ![q] = row] /\ row.status = canary[q].status
            /\ row.approved = canary[q].approved /\ row.review = canary[q].review
      <4>1. CASE LinkConfirmation(q)
        <5> DEFINE row == [canary[q] EXCEPT !.linked = TRUE]
        <5>1. /\ row \in CanaryRow /\ canary' = [canary EXCEPT ![q] = row]
              /\ row.status = canary[q].status /\ row.approved = canary[q].approved
              /\ row.review = canary[q].review
          BY <1>0, <4>1 DEF LinkConfirmation, CanaryRow
        <5> QED
          BY <5>1
      <4>2. CASE CanaryGraceEnds(q)
        <5> DEFINE row == [canary[q] EXCEPT !.fresh = FALSE]
        <5>1. /\ row \in CanaryRow /\ canary' = [canary EXCEPT ![q] = row]
              /\ row.status = canary[q].status /\ row.approved = canary[q].approved
              /\ row.review = canary[q].review
          BY <1>0, <4>2 DEF CanaryGraceEnds, CanaryRow
        <5> QED
          BY <5>1
      <4> QED
        BY <2>2, <4>1, <4>2
    <3>2. canary'[q] = row /\ \A n \in Canaries \ {q} : canary'[n] = canary[n]
      BY <1>0, <3>1
    <3>3. ASSUME NEW n \in Canaries PROVE RowKeeps(n)
      <4>1. CASE n = q
        BY <4>1, <1>0, <1>1, <1>2, <3>1, <3>2 DEF RowKeeps, CanaryHolds, Tried
      <4>2. CASE n # q
        BY <4>2, <1>1, <1>2, <3>2 DEF CanaryInv, RowKeeps, CanaryHolds, Tried
      <4> QED
        BY <4>1, <4>2
    <3> QED
      BY <1>0, <3>1, <3>3
  <2>3. CASE PreviewIsRefused(q)
    <3> DEFINE row == [canary[q] EXCEPT !.status = "BLOCKED"]
    <3>1. row \in CanaryRow /\ row.status = "BLOCKED" /\ canary' = [canary EXCEPT ![q] = row]
      BY <1>0, <2>3 DEF PreviewIsRefused, CanaryRow
    <3> HIDE DEF row
    <3>2. ~Tried(q)
      BY <1>0, <2>3 DEF PreviewIsRefused, Tried, Sent, CanaryHolds
    <3> QED
      BY <1>1, <1>2, <3>1, <3>2, RowWrite DEF Sent
  <2>4. CASE IssueConfirmation(q) \/ ConfirmationExpires(q)
    <3>1. UNCHANGED canary
      BY <2>4 DEF IssueConfirmation, ConfirmationExpires
    <3>2. ASSUME NEW n \in Canaries PROVE RowKeeps(n)
      <4>1. pressed'[n] = "CONSUMED" <=> pressed[n] = "CONSUMED"
        BY <1>2
      <4> QED
        BY <4>1, <3>1, <1>1 DEF CanaryInv, RowKeeps, CanaryHolds, Tried
    <3> QED
      BY <1>0, <3>1, <3>2
  <2> QED
    BY <2>1, <2>2, <2>3, <2>4
<1> QED
  BY <1>0, <1>1, <1>2, <1>3, RowMoves

LEMMA TravelStep ==
  ASSUME CanaryInv, OfferChanges \/ \E q \in Canaries : OrderTravels(q) \/ OrderResolves(q)
  PROVE  CanaryInv'
<1>0. /\ canary \in [Canaries -> CanaryRow] /\ pressed \in [Canaries -> Presses]
      /\ bought \in [Canaries -> Purse]
      /\ offer \in [cost : Costs, open : BOOLEAN]
      /\ travels \in [Canaries -> 0 .. MaxOrders] /\ abroad \in [Canaries -> Ends]
  BY CanaryTypes
<1>1. /\ UNCHANGED <<canary, pressed, bought, crun>>
      /\ offer' \in [cost : Costs, open : BOOLEAN]
  BY <1>0 DEF OfferChanges, OrderTravels, OrderResolves
<1>2. /\ travels' \in [Canaries -> 0 .. MaxOrders]
      /\ \A n \in Canaries : travels'[n] <= travels[n]
  BY <1>0, CanaryAssumption DEF OfferChanges, OrderTravels, OrderResolves
<1>3. /\ abroad' \in [Canaries -> Ends]
      /\ \A n \in Canaries : abroad[n] \in {"fulfilled", "rejected"} => abroad'[n] = abroad[n]
  BY <1>0 DEF OfferChanges, OrderTravels, OrderResolves, Ends
<1>4. ASSUME NEW n \in Canaries PROVE RowKeeps(n)
  <2>1. /\ CanaryHolds(n) /\ travels'[n] \in Nat /\ travels[n] \in Nat /\ bought[n].posts \in Nat
        /\ UNCHANGED <<canary[n], pressed[n], bought[n]>>
    BY <1>0, <1>1, <1>2 DEF CanaryInv, Purse
  <2> QED
    BY <2>1, <1>2, <1>3 DEF RowKeeps, CanaryHolds, Tried
<1> QED
  BY <1>0, <1>1, <1>2, <1>3, <1>4, RowMoves

LEMMA NextCanary == CanaryInv /\ [CanaryNext]_canaryVars => CanaryInv'
<1> SUFFICES ASSUME CanaryInv, [CanaryNext]_canaryVars PROVE CanaryInv'
  OBVIOUS
<1>1. CASE UNCHANGED canaryVars
  BY <1>1 DEF canaryVars, CanaryInv, CanaryTypeOK, CanaryHolds, CanaryRunHolds, OneTrial, Tried, Of
<1>2. CASE CanaryNext
  <2>1. ASSUME NEW q \in Canaries,
               \/ PrepareCanary(q) \/ IssueConfirmation(q) \/ LinkConfirmation(q)
               \/ PreviewIsRefused(q) \/ ConfirmationExpires(q) \/ CanaryGraceEnds(q)
        PROVE  CanaryInv'
    BY <2>1, PreparationStep
  <2>2. ASSUME OfferChanges \/ \E q \in Canaries : OrderTravels(q) \/ OrderResolves(q)
        PROVE  CanaryInv'
    BY <2>2, TravelStep
  <2>3. ASSUME NEW r \in CanaryRuns, NEW q \in Canaries, Confirm(r, q) \/ PickCanary(r, q)
        PROVE  CanaryInv'
    BY <2>3, TakingUp
  <2>4. ASSUME NEW r \in CanaryRuns,
               \/ LoadCanary(r) \/ GatesAreOpen(r) \/ RecoverCanary(r) \/ ScheduleCanary(r)
               \/ CanaryRunDies(r)
        PROVE  CanaryInv'
    BY <2>4, ReadingActions
  <2>5. ASSUME NEW r \in CanaryRuns, GateIsClosed(r) PROVE CanaryInv'
    BY <2>5, BlocksStep DEF GateIsClosed
  <2>6. ASSUME NEW r \in CanaryRuns, MarkCanaryAttempt(r) \/ SendOrder(r) PROVE CanaryInv'
    BY <2>6, MarkStep, SendStep
  <2>7. ASSUME NEW r \in CanaryRuns, SupplierAnswers(r) \/ ProviderCannotRead(r) PROVE CanaryInv'
    BY <2>7, AnswerStep
  <2>8. ASSUME NEW r \in CanaryRuns, ApplyCanaryAnswer(r) PROVE CanaryInv'
    BY <2>8, ApplyStep
  <2> QED
    BY <1>2, <2>1, <2>2, <2>3, <2>4, <2>5, <2>6, <2>7, <2>8 DEF CanaryNext
<1> QED
  BY <1>1, <1>2

(* Whoever presses or resumes: a trial is attempted once, as it was approved,  *)
(* and every answer recorded is the supplier's (canary.ts).                  *)
THEOREM CanaryInvariant == CanarySpec => []CanaryInv
<1>1. CanaryInit => CanaryInv
  BY InitCanary
<1>2. CanaryInv /\ [CanaryNext]_canaryVars => CanaryInv'
  BY NextCanary
<1> QED
  BY <1>1, <1>2, PTL DEF CanarySpec

LEMMA CanaryIsTrue == CanaryInv => CanaryIsAsApproved
<1> SUFFICES ASSUME CanaryInv, NEW q \in Canaries
             PROVE  /\ bought[q].posts <= 1
                    /\ bought[q].posts = 1 => pressed[q] = "CONSUMED" /\ bought[q].quoted = canary[q].approved
                    /\ canary[q].status = "FULFILLED" => abroad[q] = "fulfilled"
                    /\ canary[q].status = "REJECTED" => abroad[q] = "rejected"
                    /\ canary[q].status \in {"PREVIEWED", "AUTHORIZED", "BLOCKED"} /\ ~canary[q].review
                         => bought[q].posts = 0
  BY DEF CanaryIsAsApproved
<1>1. CanaryHolds(q) /\ bought[q].posts \in Nat
  BY CanaryTypes DEF CanaryInv, Purse
<1> QED
  BY <1>1 DEF CanaryHolds, Tried, Sent

\* An end that was reached is kept.
LEMMA EndsAreKept ==
  ASSUME CanaryInv, [CanaryNext]_canaryVars, NEW q \in Canaries,
         canary[q].status \in {"FULFILLED", "REJECTED", "BLOCKED"}
  PROVE  canary'[q].status = canary[q].status
<1>0. canary \in [Canaries -> CanaryRow] /\ \A n \in Canaries : canary[n] \in CanaryRow
  BY CanaryTypes
<1>1. CASE UNCHANGED canary
  BY <1>1
<1>2. ASSUME NEW n \in Canaries,
             \/ PrepareCanary(n) \/ LinkConfirmation(n) \/ PreviewIsRefused(n) \/ CanaryGraceEnds(n)
             \/ \E r \in CanaryRuns : Confirm(r, n)
      PROVE  canary'[q].status = canary[q].status
  <2>1. \/ canary[n].status \in {"none", "PREVIEWED"} /\ \A m \in Canaries \ {n} : canary'[m] = canary[m]
        \/ canary' = [canary EXCEPT ![n].linked = TRUE]
        \/ canary' = [canary EXCEPT ![n].fresh = FALSE]
        \/ UNCHANGED canary
    BY <1>0, <1>2 DEF PrepareCanary, LinkConfirmation, PreviewIsRefused, CanaryGraceEnds, Confirm
  <2> QED
    BY <1>0, <2>1 DEF CanaryRow
<1>3. ASSUME NEW r \in CanaryRuns, GateIsClosed(r) \/ MarkCanaryAttempt(r) \/ ApplyCanaryAnswer(r)
      PROVE  canary'[q].status = canary[q].status
  <2>1. Of(r) \in Canaries
    BY <1>3 DEF CanaryInv, CanaryRunHolds, GateIsClosed, MarkCanaryAttempt, ApplyCanaryAnswer
  <2>2. \/ UNCHANGED canary
        \/ /\ canary[Of(r)].status \in Sent \cup {"AUTHORIZED"}
           /\ \A m \in Canaries \ {Of(r)} : canary'[m] = canary[m]
    BY <1>0, <1>3, <2>1 DEF GateIsClosed, MarkCanaryAttempt, ApplyCanaryAnswer, Blocks,
       Attemptable, RecordsAnswer
  <2> QED
    BY <2>1, <2>2 DEF Sent
<1> QED
  BY <1>1, <1>2, <1>3 DEF CanaryNext, canaryVars, OfferChanges, IssueConfirmation,
     ConfirmationExpires, OrderTravels, OrderResolves, PickCanary, LoadCanary, GatesAreOpen,
     SendOrder, SupplierAnswers, RecoverCanary, ProviderCannotRead, ScheduleCanary, CanaryRunDies

(* "A replay never issues a second upstream purchase", and the record of every *)
(* purchase and trial agrees with what the supplier did, whatever times out,  *)
(* crashes or answers late (supplier/service.ts, recovery.ts, canary.ts).    *)
THEOREM SuppliersBuyOnce == SupplierSpec /\ CanarySpec => BoughtAsApproved
<1>1. PurchaseInv' => BoughtOnceAndRecorded'
  BY PurchaseIsRecorded, PTL
<1>2. CanaryInv /\ CanaryInv' /\ [CanaryNext]_canaryVars => CanaryBuysAsApproved
  <2>1. CanaryInv' => CanaryIsAsApproved'
    BY CanaryIsTrue, PTL
  <2> QED
    BY <2>1, EndsAreKept DEF CanaryBuysAsApproved
<1> QED
  BY <1>1, <1>2, PurchaseInvariant, CanaryInvariant, PTL DEF SupplierSpec, CanarySpec, BoughtAsApproved


-----------------------------------------------------------------------------
(* Notices.  A claim has a generation of its own; the fence leaves the row to  *)
(* one run, whose claim is the latest, until that run reports.  A notice that *)
(* may be sent again has no message in the chat or one whose id is known.    *)

\* Runs between the fence and their report.
InFlight == {"submit", "sent", "nameless", "refused", "unreachable"}

\* A further message of this notice would be no second one.
MayBeSent(n) == copies[n] = 0 \/ notice[n].message

NoticeHolds(n) ==
  /\ copies[n] <= 1
  /\ notice[n].attempts <= notice[n].gen
  /\ notice[n].status # "SEND_UNCERTAIN" => MayBeSent(n)
  /\ notice[n].status = "SENT" /\ campaign[n].status = "QUEUED" => shown[n] = campaign[n].content

NoticeRunHolds(r) ==
  /\ nrun[r].at # "idle" => NoticeOf(r) \in Notices /\ nrun[r].gen <= notice[NoticeOf(r)].gen
  /\ nrun[r].at \in {"claimed", "checked"} /\ Current(r) =>
       nrun[r].edit = notice[NoticeOf(r)].message
  /\ nrun[r].at \in InFlight => Uncertain(r)
  /\ nrun[r].at \in {"submit", "refused", "unreachable"} => MayBeSent(NoticeOf(r))
  /\ nrun[r].at = "submit" => nrun[r].edit = notice[NoticeOf(r)].message
  /\ nrun[r].at \in {"sent", "nameless"} => shown[NoticeOf(r)] = nrun[r].content

ClaimsDiffer ==
  \A r, s \in NoticeRuns :
    /\ nrun[r].at # "idle" /\ nrun[s].at # "idle"
    /\ NoticeOf(r) = NoticeOf(s) /\ nrun[r].gen = nrun[s].gen
    => r = s

NoticeInv ==
  /\ NotificationTypeOK
  /\ \A n \in Notices : NoticeHolds(n)
  /\ \A r \in NoticeRuns : NoticeRunHolds(r)
  /\ ClaimsDiffer

NoticeStates ==
  [at : {"idle", "claimed", "checked", "submit", "sent", "nameless", "refused", "unreachable"},
   notice : Notices \cup {NoNotice}, gen : 0..MaxNoticeGen,
   content : Contents \cup {NoContent}, edit : BOOLEAN]
NoticeRow ==
  [status : Deliverable \cup {"SENT", "SUPPRESSED", "DEAD", "SEND_UNCERTAIN"},
   gen : 0..MaxNoticeGen, attempts : 0..MaxNoticeGen, leased : BOOLEAN,
   message : BOOLEAN, sentAt : BOOLEAN]
CampaignRow == [status : {"QUEUED", "CANCELLED"}, content : Contents]

LEMMA NoticeTypes ==
  ASSUME NoticeInv
  PROVE  /\ campaign \in [Notices -> CampaignRow] /\ notice \in [Notices -> NoticeRow]
         /\ nrun \in [NoticeRuns -> NoticeStates]
         /\ shown \in [Notices -> Contents \cup {NoContent}] /\ copies \in [Notices -> 0..2]
  BY DEF NoticeInv, NotificationTypeOK, CampaignRow, NoticeRow, NoticeStates

LEMMA InitNotice == NotificationInit => NoticeInv
<1> SUFFICES ASSUME NotificationInit PROVE NoticeInv
  OBVIOUS
<1> USE NotificationAssumption DEF NotificationInit, NewNotice, NoNoticeRun
<1>1. campaign \in [Notices -> [status : {"QUEUED", "CANCELLED"}, content : Contents]]
  OBVIOUS
<1>2. NotificationTypeOK
  BY <1>1 DEF NotificationTypeOK, Deliverable
<1>3. ASSUME NEW n \in Notices PROVE NoticeHolds(n)
  <2>1. /\ copies[n] = 0 /\ notice[n].status = "PENDING"
        /\ notice[n].attempts = 0 /\ notice[n].gen = 0
    OBVIOUS
  <2> HIDE DEF NotificationInit
  <2> QED
    BY <2>1 DEF NoticeHolds, MayBeSent
<1>4. (\A r \in NoticeRuns : NoticeRunHolds(r)) /\ ClaimsDiffer
  BY DEF NoticeRunHolds, ClaimsDiffer, InFlight
<1> QED
  BY <1>2, <1>3, <1>4 DEF NoticeInv

\* Beside the run of the latest claim, no run of the notice is current or in flight.
LEMMA OneIsCurrent ==
  ASSUME NoticeInv, NEW r \in NoticeRuns, nrun[r].at # "idle", Current(r),
         NEW s \in NoticeRuns \ {r}, nrun[s].at # "idle", NoticeOf(s) = NoticeOf(r)
  PROVE  ~Current(s) /\ nrun[s].at \notin InFlight
<1>1. nrun[s].gen # nrun[r].gen
  BY DEF NoticeInv, ClaimsDiffer
<1> QED
  BY <1>1 DEF NoticeInv, NoticeRunHolds, Uncertain, Current

\* A run whose claim is the latest writes its notice, or the chat.
LEMMA CurrentRunStep ==
  ASSUME NoticeInv, NEW r \in NoticeRuns, nrun[r].at # "idle", Current(r),
         NEW n \in Notices, n = NoticeOf(r),
         NEW state \in NoticeStates, nrun' = [nrun EXCEPT ![r] = state],
         state.at # "idle" => state.notice = n /\ state.gen = nrun[r].gen,
         NEW row \in NoticeRow, notice' = [notice EXCEPT ![n] = row], row.gen = notice[n].gen,
         shown' \in [Notices -> Contents \cup {NoContent}], copies' \in [Notices -> 0..2],
         \A m \in Notices \ {n} : shown'[m] = shown[m] /\ copies'[m] = copies[m],
         UNCHANGED campaign,
         NoticeHolds(n)', NoticeRunHolds(r)'
  PROVE  NoticeInv'
<1>1. /\ nrun' \in [NoticeRuns -> NoticeStates] /\ nrun'[r] = state
      /\ \A s \in NoticeRuns \ {r} : nrun'[s] = nrun[s]
      /\ notice' \in [Notices -> NoticeRow] /\ notice'[n] = row
      /\ \A m \in Notices \ {n} : notice'[m] = notice[m]
  BY NoticeTypes
<1>2. NotificationTypeOK'
  BY <1>1 DEF NoticeInv, NotificationTypeOK, NoticeRow, NoticeStates
<1>3. ASSUME NEW m \in Notices, m # n PROVE NoticeHolds(m)'
  BY <1>1, <1>3 DEF NoticeInv, NoticeHolds, MayBeSent
<1>4. ASSUME NEW s \in NoticeRuns, s # r PROVE NoticeRunHolds(s)'
  <2>1. nrun'[s] = nrun[s] /\ NoticeRunHolds(s) /\ NoticeOf(s)' = NoticeOf(s)
    BY <1>1, <1>4 DEF NoticeInv, NoticeOf
  <2>2. CASE nrun[s].at = "idle"
    BY <2>1, <2>2 DEF NoticeRunHolds, InFlight
  <2>3. CASE nrun[s].at # "idle" /\ NoticeOf(s) = n
    <3>1. ~Current(s) /\ nrun[s].at \notin InFlight
      BY <1>4, <2>3, OneIsCurrent
    <3>2. Current(s)' <=> Current(s)
      BY <1>1, <2>1, <2>3 DEF Current
    <3> QED
      BY <1>1, <2>1, <2>3, <3>1, <3>2 DEF NoticeRunHolds, InFlight
  <2>4. CASE nrun[s].at # "idle" /\ NoticeOf(s) # n
    <3>1. NoticeOf(s) \in Notices \ {n}
      BY <2>1, <2>4 DEF NoticeRunHolds
    <3> QED
      BY <1>1, <2>1, <3>1 DEF NoticeRunHolds, Current, Uncertain, MayBeSent
  <2> QED
    BY <2>2, <2>3, <2>4
<1>5. ClaimsDiffer'
  BY <1>1 DEF NoticeInv, ClaimsDiffer, NoticeOf
<1> QED
  BY <1>2, <1>3, <1>4, <1>5 DEF NoticeInv

LEMMA NoticeRunEnds ==
  ASSUME NoticeInv, NEW r \in NoticeRuns, EndNoticeRun(r),
         UNCHANGED <<campaign, notice, shown, copies>>
  PROVE  NoticeInv'
<1>1. NoNoticeRun \in NoticeStates /\ NoNoticeRun.at = "idle"
  BY NotificationAssumption DEF NoNoticeRun, NoticeStates
<1>2. /\ nrun' \in [NoticeRuns -> NoticeStates] /\ nrun'[r] = NoNoticeRun
      /\ \A s \in NoticeRuns \ {r} : nrun'[s] = nrun[s]
  BY <1>1, NoticeTypes DEF EndNoticeRun
<1>3. NotificationTypeOK'
  BY <1>2 DEF NoticeInv, NotificationTypeOK, NoticeStates
<1>4. \A n \in Notices : NoticeHolds(n)'
  BY DEF NoticeInv, NoticeHolds, MayBeSent
<1>5. ASSUME NEW s \in NoticeRuns PROVE NoticeRunHolds(s)'
  <2>1. CASE s = r
    BY <2>1, <1>1, <1>2 DEF NoticeRunHolds, InFlight
  <2>2. CASE s # r
    BY <2>2, <1>2 DEF NoticeInv, NoticeRunHolds, NoticeOf, Current, Uncertain, MayBeSent
  <2> QED
    BY <2>1, <2>2
<1>6. ClaimsDiffer'
  BY <1>1, <1>2 DEF NoticeInv, ClaimsDiffer, NoticeOf
<1> QED
  BY <1>3, <1>4, <1>5, <1>6 DEF NoticeInv

\* A change of the notice that no run makes; it leaves a notice in flight alone.
LEMMA NoticeChanges ==
  ASSUME NoticeInv, NEW n \in Notices, UNCHANGED <<nrun, shown, copies>>,
         NEW row \in NoticeRow, notice' = [notice EXCEPT ![n] = row],
         NEW told \in CampaignRow, campaign' = [campaign EXCEPT ![n] = told],
         row.message = notice[n].message, row.attempts = notice[n].attempts,
         notice[n].gen <= row.gen,
         notice[n].status = "SEND_UNCERTAIN" =>
           row.status = "SEND_UNCERTAIN" /\ row.gen = notice[n].gen,
         row.status = "SEND_UNCERTAIN" => notice[n].status = "SEND_UNCERTAIN",
         row.status = "SENT" => notice[n].status = "SENT" /\ told.content = campaign[n].content,
         told.status = "QUEUED" => campaign[n].status = "QUEUED"
  PROVE  NoticeInv'
<1>1. /\ notice' \in [Notices -> NoticeRow] /\ notice'[n] = row
      /\ campaign' \in [Notices -> CampaignRow] /\ campaign'[n] = told
      /\ notice[n] \in NoticeRow
      /\ \A m \in Notices \ {n} : notice'[m] = notice[m] /\ campaign'[m] = campaign[m]
  BY NoticeTypes
<1>2. NotificationTypeOK'
  BY <1>1 DEF NoticeInv, NotificationTypeOK, NoticeRow, CampaignRow
<1>3. ASSUME NEW m \in Notices PROVE NoticeHolds(m)'
  <2>1. CASE m = n
    <3>1. NoticeHolds(n) /\ notice[n].attempts \in Nat /\ notice[n].gen \in Nat /\ row.gen \in Nat
      BY <1>1 DEF NoticeInv, NoticeRow
    <3> QED
      BY <1>1, <2>1, <3>1 DEF NoticeHolds, MayBeSent
  <2>2. CASE m # n
    BY <1>1, <2>2 DEF NoticeInv, NoticeHolds, MayBeSent
  <2> QED
    BY <2>1, <2>2
<1>4. ASSUME NEW s \in NoticeRuns PROVE NoticeRunHolds(s)'
  <2>1. NoticeRunHolds(s) /\ NoticeOf(s)' = NoticeOf(s) /\ nrun'[s] = nrun[s] /\ nrun[s].gen \in Nat
    BY NoticeTypes DEF NoticeInv, NoticeOf, NoticeStates
  <2>2. CASE nrun[s].at = "idle"
    BY <2>1, <2>2 DEF NoticeRunHolds, InFlight
  <2>3. CASE nrun[s].at # "idle" /\ NoticeOf(s) = n
    <3>1. notice[n].gen \in Nat /\ row.gen \in Nat
      BY <1>1 DEF NoticeRow
    <3>2. Current(s)' => Current(s)
      BY <1>1, <2>1, <2>3, <3>1 DEF Current, NoticeRunHolds
    <3>3. Uncertain(s) => Uncertain(s)'
      BY <1>1, <2>1, <2>3 DEF Uncertain, Current
    <3>4. MayBeSent(n)' <=> MayBeSent(n)
      BY <1>1 DEF MayBeSent
    <3>5. nrun[s].gen <= row.gen
      BY <2>1, <2>3, <3>1 DEF NoticeRunHolds
    <3>6. MayBeSent(NoticeOf(s))' <=> MayBeSent(NoticeOf(s))
      BY <2>1, <2>3, <1>1 DEF MayBeSent
    <3> QED
      BY <1>1, <2>1, <2>3, <3>2, <3>3, <3>5, <3>6 DEF NoticeRunHolds
  <2>4. CASE nrun[s].at # "idle" /\ NoticeOf(s) # n
    <3>1. NoticeOf(s) \in Notices \ {n}
      BY <2>1, <2>4 DEF NoticeRunHolds
    <3> QED
      BY <1>1, <2>1, <3>1 DEF NoticeRunHolds, Current, Uncertain, MayBeSent
  <2> QED
    BY <2>2, <2>3, <2>4
<1>5. ClaimsDiffer'
  BY DEF NoticeInv, ClaimsDiffer, NoticeOf
<1> QED
  BY <1>2, <1>3, <1>4, <1>5 DEF NoticeInv

\* The claim takes a new generation: it is the only current one, and none is in flight.
LEMMA ClaimStep ==
  ASSUME NoticeInv, NEW r \in NoticeRuns, NEW n \in Notices, ClaimNotice(r, n)
  PROVE  NoticeInv'
<1>0. /\ notice \in [Notices -> NoticeRow] /\ notice[n] \in NoticeRow /\ notice[n].gen \in Nat
      /\ notice[n].attempts \in Nat /\ nrun \in [NoticeRuns -> NoticeStates]
      /\ campaign[n] \in CampaignRow /\ NoticeHolds(n)
  BY NoticeTypes DEF NoticeInv, NoticeRow
<1> DEFINE row == [notice[n] EXCEPT !.status = "RETRY", !.attempts = @ + 1, !.leased = TRUE,
                                    !.gen = @ + 1]
           state == [at |-> "claimed", notice |-> n, gen |-> notice[n].gen + 1,
                     content |-> campaign[n].content, edit |-> notice[n].message]
<1>1. /\ notice[n].status \in Deliverable /\ notice[n].gen < MaxNoticeGen
      /\ notice' = [notice EXCEPT ![n] = row] /\ nrun' = [nrun EXCEPT ![r] = state]
      /\ UNCHANGED <<campaign, shown, copies>> /\ nrun[r].at = "idle"
  BY DEF ClaimNotice
<1>2. /\ row \in NoticeRow /\ row.gen = notice[n].gen + 1 /\ row.attempts = notice[n].attempts + 1
      /\ row.status = "RETRY" /\ row.message = notice[n].message
  <2>1. notice[n].gen + 1 \in 0..MaxNoticeGen /\ notice[n].attempts + 1 \in 0..MaxNoticeGen
    BY <1>0, <1>1, NotificationAssumption DEF NoticeHolds
  <2> QED
    BY <2>1, <1>0 DEF NoticeRow, Deliverable
<1>3. /\ state \in NoticeStates /\ state.at = "claimed" /\ state.notice = n
      /\ state.gen = notice[n].gen + 1 /\ state.edit = notice[n].message
  BY <1>0, <1>1, NotificationAssumption DEF NoticeStates, NoticeRow, CampaignRow
<1> HIDE DEF row, state
<1>4. /\ notice' \in [Notices -> NoticeRow] /\ notice'[n] = row
      /\ \A m \in Notices \ {n} : notice'[m] = notice[m]
      /\ nrun' \in [NoticeRuns -> NoticeStates] /\ nrun'[r] = state
      /\ \A s \in NoticeRuns \ {r} : nrun'[s] = nrun[s]
  BY <1>0, <1>1, <1>2, <1>3
<1>5. NotificationTypeOK'
  BY <1>1, <1>4 DEF NoticeInv, NotificationTypeOK, NoticeRow, NoticeStates
<1>6. ASSUME NEW m \in Notices PROVE NoticeHolds(m)'
  <2>1. CASE m = n
    BY <2>1, <1>0, <1>1, <1>2, <1>4 DEF NoticeHolds, MayBeSent, Deliverable
  <2>2. CASE m # n
    BY <2>2, <1>1, <1>4 DEF NoticeInv, NoticeHolds, MayBeSent
  <2> QED
    BY <2>1, <2>2
<1>7. ASSUME NEW s \in NoticeRuns, s # r, nrun[s].at # "idle", NoticeOf(s) = n
      PROVE  nrun[s].at \notin InFlight /\ nrun[s].gen < notice[n].gen + 1
  <2>1. NoticeRunHolds(s) /\ nrun[s].gen \in Nat
    BY <1>0 DEF NoticeInv, NoticeStates
  <2> QED
    BY <2>1, <1>0, <1>1, <1>7 DEF NoticeRunHolds, Uncertain, Deliverable
<1>8. ASSUME NEW s \in NoticeRuns PROVE NoticeRunHolds(s)'
  <2>1. CASE s = r
    <3>1. NoticeOf(s)' = n /\ nrun'[s] = state
      BY <2>1, <1>3, <1>4 DEF NoticeOf
    <3> QED
      BY <3>1, <1>0, <1>2, <1>3, <1>4 DEF NoticeRunHolds, InFlight
  <2>2. CASE s # r
    <3>1. nrun'[s] = nrun[s] /\ NoticeRunHolds(s) /\ NoticeOf(s)' = NoticeOf(s)
      BY <1>4, <2>2 DEF NoticeInv, NoticeOf
    <3>2. CASE nrun[s].at = "idle"
      BY <3>1, <3>2 DEF NoticeRunHolds, InFlight
    <3>3. CASE nrun[s].at # "idle" /\ NoticeOf(s) = n
      <4>1. nrun[s].at \notin InFlight /\ nrun[s].gen < row.gen /\ nrun[s].gen \in Nat /\ row.gen \in Nat
        BY <1>0, <1>2, <1>7, <2>2, <3>3 DEF NoticeStates
      <4>2. ~Current(s)'
        BY <4>1, <3>1, <3>3, <1>4 DEF Current
      <4> QED
        BY <4>1, <4>2, <3>1, <3>3, <1>4 DEF NoticeRunHolds, InFlight
    <3>4. CASE nrun[s].at # "idle" /\ NoticeOf(s) # n
      <4>1. NoticeOf(s) \in Notices \ {n}
        BY <3>1, <3>4 DEF NoticeRunHolds
      <4> QED
        BY <1>1, <1>4, <3>1, <4>1 DEF NoticeRunHolds, Current, Uncertain, MayBeSent
    <3> QED
      BY <3>2, <3>3, <3>4
  <2> QED
    BY <2>1, <2>2
<1>9. ClaimsDiffer'
  <2>1. \A s \in NoticeRuns \ {r} :
          nrun'[s].at # "idle" /\ NoticeOf(s)' = n => nrun'[s].gen # notice[n].gen + 1
    <3> SUFFICES ASSUME NEW s \in NoticeRuns \ {r}, nrun'[s].at # "idle", NoticeOf(s)' = n
                 PROVE  nrun'[s].gen # notice[n].gen + 1
      OBVIOUS
    <3>1. nrun[s].gen < notice[n].gen + 1 /\ nrun[s].gen \in Nat
      BY <1>0, <1>4, <1>7 DEF NoticeOf, NoticeStates
    <3> QED
      BY <3>1, <1>0, <1>4
  <2> QED
    BY <2>1, <1>3, <1>4 DEF NoticeInv, ClaimsDiffer, NoticeOf
<1> QED
  BY <1>5, <1>6, <1>8, <1>9 DEF NoticeInv

\* A run that goes on and writes nothing: the claim it checks stands.
LEMMA CheckStep ==
  ASSUME NoticeInv, NEW r \in NoticeRuns, CheckClaim(r)
  PROVE  NoticeInv'
<1>1. CASE EndNoticeRun(r)
  BY <1>1, NoticeRunEnds DEF CheckClaim
<1>2. CASE Active(r) /\ RunAt(r, "checked")
  <2>1. PICK n \in Notices : n = NoticeOf(r)
    BY DEF NoticeInv, NoticeRunHolds, CheckClaim
  <2>2. /\ nrun[r] \in NoticeStates /\ nrun \in [NoticeRuns -> NoticeStates]
        /\ notice[n] \in NoticeRow /\ notice = [notice EXCEPT ![n] = notice[n]]
        /\ shown \in [Notices -> Contents \cup {NoContent}] /\ copies \in [Notices -> 0..2]
        /\ nrun[r].at = "claimed" /\ Current(r) /\ NoticeRunHolds(r) /\ NoticeHolds(n)
        /\ UNCHANGED <<campaign, notice, shown, copies>>
    BY <1>2, NoticeTypes DEF CheckClaim, Active, NoticeInv
  <2> DEFINE state == [nrun[r] EXCEPT !.at = "checked"]
  <2>3. /\ state \in NoticeStates /\ nrun' = [nrun EXCEPT ![r] = state] /\ state.at = "checked"
        /\ state.notice = n /\ state.gen = nrun[r].gen /\ state.edit = nrun[r].edit
    BY <1>2, <2>1, <2>2 DEF RunAt, NoticeStates, NoticeOf
  <2> HIDE DEF state
  <2>4. nrun'[r] = state /\ NoticeOf(r)' = n
    BY <2>2, <2>3 DEF NoticeOf
  <2>5. NoticeHolds(n)'
    BY <2>2 DEF NoticeHolds, MayBeSent
  <2>6. NoticeRunHolds(r)'
    BY <2>1, <2>2, <2>3, <2>4 DEF NoticeRunHolds, InFlight, Current
  <2> QED
    BY <2>1, <2>2, <2>3, <2>5, <2>6, CurrentRunStep
<1> QED
  BY <1>1, <1>2 DEF CheckClaim

\* The run of the latest claim writes its row and ends.
LEMMA ReportStep ==
  ASSUME NoticeInv, NEW r \in NoticeRuns, nrun[r].at # "idle", Current(r),
         NEW n \in Notices, n = NoticeOf(r), EndNoticeRun(r),
         NEW row \in NoticeRow, notice' = [notice EXCEPT ![n] = row],
         row.gen = notice[n].gen, row.attempts = notice[n].attempts,
         notice[n].message => row.message,
         row.status # "SEND_UNCERTAIN" => copies[n] = 0 \/ row.message,
         row.status = "SENT" /\ campaign[n].status = "QUEUED" => shown[n] = campaign[n].content,
         UNCHANGED <<campaign, shown, copies>>
  PROVE  NoticeInv'
<1>1. /\ notice'[n] = row /\ NoticeHolds(n)
      /\ shown \in [Notices -> Contents \cup {NoContent}] /\ copies \in [Notices -> 0..2]
  BY NoticeTypes DEF NoticeInv
<1>2. NoNoticeRun \in NoticeStates /\ NoNoticeRun.at = "idle"
  BY NotificationAssumption DEF NoNoticeRun, NoticeStates
<1>3. nrun' = [nrun EXCEPT ![r] = NoNoticeRun] /\ nrun'[r].at = "idle"
  BY <1>2, NoticeTypes DEF EndNoticeRun
<1>4. NoticeHolds(n)'
  BY <1>1 DEF NoticeHolds, MayBeSent
<1>5. NoticeRunHolds(r)'
  BY <1>3 DEF NoticeRunHolds, InFlight
<1> QED
  BY <1>1, <1>2, <1>3, <1>4, <1>5, CurrentRunStep

LEMMA ReportingActions ==
  ASSUME NoticeInv, NEW r \in NoticeRuns,
         OptedOut(r) \/ MarkSent(r) \/ MarkFailure(r) \/ MarkUnreachable(r)
  PROVE  NoticeInv'
<1>1. /\ nrun[r].at # "idle" /\ EndNoticeRun(r) /\ UNCHANGED <<campaign, shown, copies>>
      /\ NoticeRunHolds(r)
  BY DEF NoticeInv, OptedOut, MarkSent, MarkFailure, MarkUnreachable
<1>2. PICK n \in Notices : n = NoticeOf(r)
  BY <1>1 DEF NoticeRunHolds
<1>3. notice[n] \in NoticeRow /\ notice \in [Notices -> NoticeRow] /\ NoticeHolds(n)
  BY NoticeTypes DEF NoticeInv
<1>4. CASE UNCHANGED notice
  BY <1>1, <1>4, NoticeRunEnds
<1>5. CASE OptedOut(r) /\ notice[n].status = "RETRY" /\ Current(r)
  <2> DEFINE row == [notice[n] EXCEPT !.status = "SUPPRESSED", !.leased = FALSE]
  <2>1. /\ row \in NoticeRow /\ row.gen = notice[n].gen /\ row.attempts = notice[n].attempts
        /\ row.message = notice[n].message /\ row.status = "SUPPRESSED"
    BY <1>3 DEF NoticeRow
  <2>2. notice' = [notice EXCEPT ![n] = row]
    BY <1>2, <1>5 DEF OptedOut
  <2> HIDE DEF row
  <2>3. copies[n] = 0 \/ row.message
    BY <1>3, <1>5, <2>1 DEF NoticeHolds, MayBeSent
  <2> QED
    BY <1>1, <1>2, <1>5, <2>1, <2>2, <2>3, ReportStep
<1>6. CASE MarkSent(r) /\ Uncertain(r) /\ (nrun[r].at = "sent" \/ notice[n].message)
  <2> DEFINE row == [notice[n] EXCEPT
                      !.status = IF NeedsFollowUp(r) THEN "RETRY" ELSE "SENT",
                      !.message = TRUE, !.sentAt = @ \/ ~NeedsFollowUp(r)]
  <2>1. NeedsFollowUp(r) \in BOOLEAN
    BY DEF NeedsFollowUp
  <2>2. /\ row \in NoticeRow /\ row.gen = notice[n].gen /\ row.attempts = notice[n].attempts
        /\ row.message /\ (row.status = "SENT" => ~NeedsFollowUp(r))
    BY <1>3, <2>1 DEF NoticeRow, Deliverable
  <2>3. notice' = [notice EXCEPT ![n] = row]
    BY <1>2, <1>3, <1>6, <2>1 DEF MarkSent, NoticeRow
  <2> HIDE DEF row
  <2>4. shown[n] = nrun[r].content
    BY <1>1, <1>2, <1>6 DEF NoticeRunHolds, MarkSent
  <2>5. row.status = "SENT" /\ campaign[n].status = "QUEUED" => shown[n] = campaign[n].content
    BY <1>2, <2>2, <2>4 DEF NeedsFollowUp
  <2>6. Current(r)
    BY <1>6 DEF Uncertain
  <2> QED
    BY <1>1, <1>2, <2>2, <2>3, <2>5, <2>6, ReportStep
<1>7. CASE (MarkFailure(r) \/ MarkUnreachable(r)) /\ Uncertain(r)
  <2>1. PICK status \in {"DEAD", "RETRY", "SUPPRESSED"} :
          notice' = [notice EXCEPT ![n].status = status]
    BY <1>2, <1>7 DEF MarkFailure, MarkUnreachable
  <2> DEFINE row == [notice[n] EXCEPT !.status = status]
  <2>2. /\ row \in NoticeRow /\ row.gen = notice[n].gen /\ row.attempts = notice[n].attempts
        /\ row.message = notice[n].message /\ row.status = status
    BY <1>3 DEF NoticeRow, Deliverable
  <2>3. notice' = [notice EXCEPT ![n] = row]
    BY <2>1
  <2> HIDE DEF row
  <2>4. copies[n] = 0 \/ row.message
    BY <1>1, <1>2, <1>7, <2>2 DEF NoticeRunHolds, MarkFailure, MarkUnreachable, MayBeSent
  <2>5. Current(r)
    BY <1>7 DEF Uncertain
  <2> QED
    BY <1>1, <1>2, <2>2, <2>3, <2>4, <2>5, ReportStep
<1> QED
  BY <1>2, <1>4, <1>5, <1>6, <1>7 DEF OptedOut, MarkSent, MarkFailure, MarkUnreachable

\* fenceNotificationSend, under the claim: what it was to edit it still is.
LEMMA FenceStep ==
  ASSUME NoticeInv, NEW r \in NoticeRuns, Fence(r)
  PROVE  NoticeInv'
<1>1. CASE ~Active(r)
  BY <1>1, NoticeRunEnds DEF Fence
<1>2. CASE Active(r)
  <2>1. PICK n \in Notices : n = NoticeOf(r)
    BY DEF NoticeInv, NoticeRunHolds, Fence
  <2>2. /\ nrun[r] \in NoticeStates /\ nrun \in [NoticeRuns -> NoticeStates]
        /\ notice[n] \in NoticeRow /\ notice \in [Notices -> NoticeRow]
        /\ shown \in [Notices -> Contents \cup {NoContent}] /\ copies \in [Notices -> 0..2]
        /\ nrun[r].at = "checked" /\ Current(r) /\ NoticeRunHolds(r) /\ NoticeHolds(n)
        /\ notice[n].status = "RETRY" /\ UNCHANGED <<campaign, shown, copies>>
    BY <1>2, <2>1, NoticeTypes DEF Fence, Active, NoticeInv
  <2> DEFINE state == [nrun[r] EXCEPT !.at = "submit"]
             row == [notice[n] EXCEPT !.status = "SEND_UNCERTAIN", !.leased = FALSE]
  <2>3. /\ state \in NoticeStates /\ nrun' = [nrun EXCEPT ![r] = state] /\ state.at = "submit"
        /\ state.notice = n /\ state.gen = nrun[r].gen /\ state.edit = nrun[r].edit
    BY <1>2, <2>1, <2>2 DEF Fence, RunAt, NoticeStates, NoticeOf
  <2>4. /\ row \in NoticeRow /\ notice' = [notice EXCEPT ![n] = row] /\ row.gen = notice[n].gen
        /\ row.status = "SEND_UNCERTAIN" /\ row.message = notice[n].message
        /\ row.attempts = notice[n].attempts
    BY <1>2, <2>1, <2>2 DEF Fence, NoticeRow
  <2> HIDE DEF state, row
  <2>5. nrun'[r] = state /\ NoticeOf(r)' = n /\ notice'[n] = row
    BY <2>2, <2>3, <2>4 DEF NoticeOf
  <2>6. NoticeHolds(n)'
    BY <2>2, <2>4, <2>5 DEF NoticeHolds
  <2>7. MayBeSent(n)'
    BY <2>2, <2>4, <2>5 DEF NoticeHolds, MayBeSent
  <2>8. NoticeRunHolds(r)'
    <3>1. /\ nrun[r].edit = notice[n].message /\ nrun[r].gen = notice[n].gen
          /\ notice[n].gen \in Nat
      BY <2>1, <2>2 DEF NoticeRunHolds, Current, NoticeRow
    <3>2. MayBeSent(NoticeOf(r))'
      BY <2>5, <2>7 DEF MayBeSent
    <3> QED
      BY <2>3, <2>4, <2>5, <3>1, <3>2 DEF NoticeRunHolds, InFlight, Uncertain, Current
  <2> QED
    BY <2>1, <2>2, <2>3, <2>4, <2>6, <2>8, CurrentRunStep
<1> QED
  BY <1>1, <1>2

\* Telegram's answer, or its absence: the run in flight is alone with the chat.
LEMMA TelegramStep ==
  ASSUME NoticeInv, NEW r \in NoticeRuns, MessageArrives(r) \/ MessageFails(r)
  PROVE  NoticeInv'
<1>1. nrun[r].at = "submit" /\ UNCHANGED <<campaign, notice>> /\ NoticeRunHolds(r)
  BY DEF MessageArrives, MessageFails, NoticeInv
<1>2. PICK n \in Notices : n = NoticeOf(r)
  BY <1>1 DEF NoticeRunHolds
<1>3. /\ nrun[r] \in NoticeStates /\ nrun \in [NoticeRuns -> NoticeStates]
      /\ notice[n] \in NoticeRow /\ notice = [notice EXCEPT ![n] = notice[n]]
      /\ shown \in [Notices -> Contents \cup {NoContent}] /\ copies \in [Notices -> 0..2]
      /\ NoticeHolds(n) /\ notice[n].status = "SEND_UNCERTAIN" /\ Current(r)
      /\ MayBeSent(n) /\ nrun[r].edit = notice[n].message
  BY <1>1, <1>2, NoticeTypes DEF NoticeInv, NoticeRunHolds, InFlight, Uncertain
<1>4. /\ shown' \in [Notices -> Contents \cup {NoContent}] /\ copies' \in [Notices -> 0..2]
      /\ \A m \in Notices \ {n} : shown'[m] = shown[m] /\ copies'[m] = copies[m]
      /\ copies'[n] <= 1
      /\ MessageArrives(r) => shown'[n] = nrun[r].content
      /\ MessageFails(r) => copies'[n] = copies[n]
  <2>1. CASE MessageArrives(r)
    <3>1. /\ shown' = [shown EXCEPT ![n] = nrun[r].content]
          /\ copies' = IF nrun[r].edit \/ copies[n] = 2 THEN copies ELSE [copies EXCEPT ![n] = @ + 1]
      BY <1>2, <2>1 DEF MessageArrives
    <3>2. nrun[r].content \in Contents \cup {NoContent}
      BY <1>3 DEF NoticeStates
    <3>3. /\ shown' \in [Notices -> Contents \cup {NoContent}] /\ shown'[n] = nrun[r].content
          /\ \A m \in Notices \ {n} : shown'[m] = shown[m]
      BY <1>3, <3>1, <3>2
    <3>4. /\ copies' \in [Notices -> 0..2] /\ \A m \in Notices \ {n} : copies'[m] = copies[m]
          /\ copies'[n] <= 1
      <4>1. copies[n] <= 1 /\ (nrun[r].edit \/ copies[n] = 0) /\ copies[n] \in 0..2
        BY <1>3 DEF NoticeHolds, MayBeSent
      <4>2. CASE nrun[r].edit
        BY <1>3, <3>1, <4>1, <4>2
      <4>3. CASE ~nrun[r].edit
        <5>1. copies[n] = 0 /\ ~(nrun[r].edit \/ copies[n] = 2)
          BY <4>1, <4>3
        <5>2. copies' = [copies EXCEPT ![n] = @ + 1]
          BY <3>1, <5>1
        <5>3. copies'[n] = 1
          BY <1>3, <5>1, <5>2
        <5> QED
          BY <1>3, <5>1, <5>2, <5>3
      <4> QED
        BY <4>2, <4>3
    <3>5. ~MessageFails(r) \/ copies' = copies
      BY DEF MessageFails
    <3> QED
      BY <3>3, <3>4, <3>5
  <2>2. CASE MessageFails(r) /\ ~MessageArrives(r)
    BY <1>3, <2>2 DEF MessageFails, NoticeHolds
  <2> QED
    BY <2>1, <2>2
<1>5. NoticeHolds(n)'
  BY <1>1, <1>3, <1>4 DEF NoticeHolds
<1>6. PICK state \in NoticeStates :
        /\ nrun' = [nrun EXCEPT ![r] = state]
        /\ state.at # "idle" =>
             /\ state.notice = n /\ state.gen = nrun[r].gen /\ state.content = nrun[r].content
             /\ \/ state.at \in {"sent", "nameless"} /\ MessageArrives(r)
                \/ state.at \in {"refused", "unreachable"} /\ MessageFails(r)
  <2>1. CASE EndNoticeRun(r)
    <3>1. NoNoticeRun \in NoticeStates /\ NoNoticeRun.at = "idle"
      BY NotificationAssumption DEF NoNoticeRun, NoticeStates
    <3> QED
      BY <2>1, <3>1 DEF EndNoticeRun
  <2>2. ASSUME NEW at \in {"sent", "nameless", "refused", "unreachable"}, RunAt(r, at),
               \/ at \in {"sent", "nameless"} /\ MessageArrives(r)
               \/ at \in {"refused", "unreachable"} /\ MessageFails(r)
        PROVE  \E state \in NoticeStates :
                 /\ nrun' = [nrun EXCEPT ![r] = state]
                 /\ state.at # "idle" =>
                      /\ state.notice = n /\ state.gen = nrun[r].gen
                      /\ state.content = nrun[r].content
                      /\ \/ state.at \in {"sent", "nameless"} /\ MessageArrives(r)
                         \/ state.at \in {"refused", "unreachable"} /\ MessageFails(r)
    <3> DEFINE state == [nrun[r] EXCEPT !.at = at]
    <3>1. /\ state \in NoticeStates /\ nrun' = [nrun EXCEPT ![r] = state] /\ state.at = at
          /\ state.notice = n /\ state.gen = nrun[r].gen /\ state.content = nrun[r].content
      BY <1>2, <1>3, <2>2 DEF RunAt, NoticeStates, NoticeOf
    <3> HIDE DEF state
    <3> QED
      BY <3>1, <2>2
  <2>3. \/ EndNoticeRun(r)
        \/ MessageArrives(r) /\ (RunAt(r, "sent") \/ RunAt(r, "nameless"))
        \/ MessageFails(r) /\ (RunAt(r, "refused") \/ RunAt(r, "unreachable"))
    BY DEF MessageArrives, MessageFails
  <2> QED
    BY <2>1, <2>2, <2>3
<1>7. NoticeRunHolds(r)'
  <2>1. nrun'[r] = state /\ NoticeOf(r)' = state.notice
    BY <1>3, <1>6 DEF NoticeOf
  <2>2. CASE state.at = "idle"
    BY <2>1, <2>2 DEF NoticeRunHolds, InFlight
  <2>3. CASE state.at # "idle"
    <3>1. /\ NoticeOf(r)' = n /\ nrun'[r].gen = notice[n].gen /\ notice[n].gen \in Nat
          /\ nrun'[r].at = state.at /\ nrun'[r].content = nrun[r].content
      BY <1>2, <1>3, <1>6, <2>1, <2>3 DEF Current, NoticeRow
    <3>2. MessageFails(r) => MayBeSent(NoticeOf(r))'
      BY <1>1, <1>3, <1>4, <3>1 DEF MayBeSent
    <3> QED
      BY <1>1, <1>3, <1>4, <1>6, <2>3, <3>1, <3>2 DEF NoticeRunHolds, InFlight, Uncertain, Current
  <2> QED
    BY <2>2, <2>3
<1> QED
  BY <1>1, <1>2, <1>3, <1>4, <1>5, <1>6, <1>7, CurrentRunStep

\* The clock, the events that rewrite an alert, and the owner.
LEMMA OutsideNoticeStep ==
  ASSUME NoticeInv, NEW n \in Notices,
         \/ NoticeLeaseLapses(n) \/ CancelCampaign(n) \/ RecoverNotice(n)
         \/ \E c \in Contents : RefreshAlert(n, c)
  PROVE  NoticeInv'
<1>0. /\ notice[n] \in NoticeRow /\ campaign[n] \in CampaignRow /\ notice[n].gen \in Nat
      /\ notice = [notice EXCEPT ![n] = notice[n]] /\ campaign = [campaign EXCEPT ![n] = campaign[n]]
  BY NoticeTypes DEF NoticeRow
<1>1. CASE NoticeLeaseLapses(n)
  <2> DEFINE row == [notice[n] EXCEPT !.leased = FALSE]
  <2>1. /\ row \in NoticeRow /\ notice' = [notice EXCEPT ![n] = row]
        /\ row.gen = notice[n].gen /\ row.attempts = notice[n].attempts
        /\ row.message = notice[n].message /\ row.status = notice[n].status
    BY <1>0, <1>1 DEF NoticeLeaseLapses, NoticeRow
  <2> HIDE DEF row
  <2>2. UNCHANGED <<nrun, shown, copies>> /\ notice[n].gen <= row.gen
    BY <1>0, <1>1, <2>1 DEF NoticeLeaseLapses
  <2>3. campaign' = [campaign EXCEPT ![n] = campaign[n]]
    BY <1>0, <1>1 DEF NoticeLeaseLapses
  <2> QED
    BY <1>0, <2>1, <2>2, <2>3, NoticeChanges
<1>2. CASE CancelCampaign(n)
  <2> DEFINE told == [campaign[n] EXCEPT !.status = "CANCELLED"]
  <2>1. /\ told \in CampaignRow /\ campaign' = [campaign EXCEPT ![n] = told]
        /\ told.status = "CANCELLED" /\ told.content = campaign[n].content
    BY <1>0, <1>2 DEF CancelCampaign, CampaignRow
  <2>2. PICK row \in NoticeRow :
          /\ notice' = [notice EXCEPT ![n] = row] /\ row.gen = notice[n].gen
          /\ row.attempts = notice[n].attempts /\ row.message = notice[n].message
          /\ \/ row.status = notice[n].status
             \/ notice[n].status \in Deliverable /\ row.status = "SUPPRESSED"
    <3>1. CASE UNCHANGED notice
      BY <1>0, <3>1
    <3>2. CASE notice[n].status \in Deliverable
               /\ notice' = [notice EXCEPT ![n].status = "SUPPRESSED"]
      <4> DEFINE row == [notice[n] EXCEPT !.status = "SUPPRESSED"]
      <4>1. /\ row \in NoticeRow /\ notice' = [notice EXCEPT ![n] = row]
            /\ row.gen = notice[n].gen /\ row.attempts = notice[n].attempts
            /\ row.message = notice[n].message /\ row.status = "SUPPRESSED"
        BY <1>0, <3>2 DEF NoticeRow
      <4> QED
        BY <3>2, <4>1
    <3> QED
      BY <1>2, <3>1, <3>2 DEF CancelCampaign
  <2> HIDE DEF told
  <2>3. UNCHANGED <<nrun, shown, copies>> /\ notice[n].gen <= row.gen
    BY <1>0, <1>2, <2>2 DEF CancelCampaign
  <2> QED
    BY <2>1, <2>2, <2>3, NoticeChanges DEF Deliverable
<1>3. CASE RecoverNotice(n)
  <2> DEFINE row == [notice[n] EXCEPT !.status = "RETRY", !.gen = @ + 1]
  <2>1. notice[n].gen + 1 \in 0..MaxNoticeGen /\ notice[n].status = "DEAD"
    BY <1>0, <1>3, NotificationAssumption DEF RecoverNotice
  <2>2. /\ row \in NoticeRow /\ row.gen = notice[n].gen + 1
        /\ row.attempts = notice[n].attempts /\ row.message = notice[n].message
        /\ row.status = "RETRY"
    BY <1>0, <2>1 DEF NoticeRow, Deliverable
  <2>3. notice' = [notice EXCEPT ![n] = row]
    BY <1>3 DEF RecoverNotice
  <2> HIDE DEF row
  <2>4. UNCHANGED <<campaign, nrun, shown, copies>> /\ notice[n].gen <= row.gen
    BY <1>0, <1>3, <2>2 DEF RecoverNotice
  <2> QED
    BY <1>0, <2>1, <2>2, <2>3, <2>4, NoticeChanges
<1>4. ASSUME NEW c \in Contents, RefreshAlert(n, c)
      PROVE  NoticeInv'
  <2> DEFINE told == IF campaign[n].status = "CANCELLED" THEN campaign[n]
                     ELSE [campaign[n] EXCEPT !.content = c]
  <2>1. /\ told \in CampaignRow /\ campaign' = [campaign EXCEPT ![n] = told]
        /\ told.status = campaign[n].status
    BY <1>0, <1>4 DEF RefreshAlert, CampaignRow
  <2>2. PICK row \in NoticeRow :
          /\ notice' = [notice EXCEPT ![n] = row] /\ notice[n].gen <= row.gen
          /\ row.attempts = notice[n].attempts /\ row.message = notice[n].message
          /\ \/ row = notice[n] /\ notice[n].status # "SENT"
             \/ notice[n].status # "SEND_UNCERTAIN" /\ row.status = "RETRY"
    <3>1. CASE UNCHANGED notice /\ notice[n].status # "SENT"
      BY <1>0, <3>1
    <3>2. CASE /\ notice[n].status \in Deliverable \cup {"SENT"}
               /\ notice' = [notice EXCEPT ![n].status = "RETRY", ![n].leased = FALSE,
                                           ![n].gen = @ + 1]
      <4> DEFINE row == [notice[n] EXCEPT !.status = "RETRY", !.leased = FALSE, !.gen = @ + 1]
      <4>1. notice[n].gen + 1 \in 0..MaxNoticeGen /\ notice[n].gen <= notice[n].gen + 1
        BY <1>0, <1>4, NotificationAssumption DEF RefreshAlert
      <4>2. /\ row \in NoticeRow /\ row.gen = notice[n].gen + 1
            /\ row.attempts = notice[n].attempts
            /\ row.message = notice[n].message /\ row.status = "RETRY"
        BY <1>0, <4>1 DEF NoticeRow, Deliverable
      <4>3. notice' = [notice EXCEPT ![n] = row]
        BY <3>2
      <4> HIDE DEF row
      <4> QED
        BY <3>2, <4>1, <4>2, <4>3 DEF Deliverable
    <3> QED
      BY <1>4, <3>1, <3>2 DEF RefreshAlert, Deliverable
  <2> HIDE DEF told
  <2>3. UNCHANGED <<nrun, shown, copies>>
    BY <1>4 DEF RefreshAlert
  <2> QED
    BY <2>1, <2>2, <2>3, NoticeChanges
<1> QED
  BY <1>1, <1>2, <1>3, <1>4

LEMMA NextNotice == NoticeInv /\ [NotificationNext]_noticeVars => NoticeInv'
<1> SUFFICES ASSUME NoticeInv, [NotificationNext]_noticeVars PROVE NoticeInv'
  OBVIOUS
<1>1. CASE UNCHANGED noticeVars
  BY <1>1 DEF noticeVars, NoticeInv, NotificationTypeOK, NoticeHolds, NoticeRunHolds, ClaimsDiffer,
     NoticeOf, Current, Uncertain, MayBeSent
<1>2. CASE NotificationNext
  <2>1. ASSUME NEW r \in NoticeRuns, NEW n \in Notices, ClaimNotice(r, n) PROVE NoticeInv'
    BY <2>1, ClaimStep
  <2>2. ASSUME NEW r \in NoticeRuns, CheckClaim(r) \/ Fence(r) PROVE NoticeInv'
    BY <2>2, CheckStep, FenceStep
  <2>3. ASSUME NEW r \in NoticeRuns, MessageArrives(r) \/ MessageFails(r) PROVE NoticeInv'
    BY <2>3, TelegramStep
  <2>4. ASSUME NEW r \in NoticeRuns,
               OptedOut(r) \/ MarkSent(r) \/ MarkFailure(r) \/ MarkUnreachable(r)
        PROVE  NoticeInv'
    BY <2>4, ReportingActions
  <2>5. ASSUME NEW r \in NoticeRuns, NoticeRunDies(r) PROVE NoticeInv'
    BY <2>5, NoticeRunEnds DEF NoticeRunDies
  <2>6. ASSUME NEW n \in Notices,
               \/ NoticeLeaseLapses(n) \/ CancelCampaign(n) \/ RecoverNotice(n)
               \/ \E c \in Contents : RefreshAlert(n, c)
        PROVE  NoticeInv'
    BY <2>6, OutsideNoticeStep
  <2> QED
    BY <1>2, <2>1, <2>2, <2>3, <2>4, <2>5, <2>6 DEF NotificationNext
<1> QED
  BY <1>1, <1>2

(* A notice is fenced by one run at a time, that of its latest claim           *)
(* (fenceNotificationSend, markNotificationSent).                            *)
THEOREM NoticeInvariant == NotificationSpec => []NoticeInv
<1>1. NotificationInit => NoticeInv
  BY InitNotice
<1>2. NoticeInv /\ [NotificationNext]_noticeVars => NoticeInv'
  BY NextNotice
<1> QED
  BY <1>1, <1>2, PTL DEF NotificationSpec

-----------------------------------------------------------------------------
(* Broadcasts.  Only a draft that was previewed is confirmed, and what a      *)
(* confirmation will queue it has frozen before.                            *)

BroadcastRunHolds(r) ==
  /\ brun[r].at = "mark" => brun[r].text # NoText
  /\ brun[r].at \in {"frozen", "live", "confirm", "queue"} => bcast.previewedText # NoText
  /\ brun[r].at = "queue" => brun[r].set \subseteq confirmedRows

BroadcastInv ==
  /\ BroadcastTypeOK
  /\ \A r \in OwnerRuns : BroadcastRunHolds(r)
  /\ RecipientsAreRecorded

BroadcastStates ==
  [at : {"idle", "mark", "freeze", "frozen", "live", "confirm", "queue"},
   text : Texts \cup {NoText}, set : SUBSET Audience, read : Campaigns]
LEMMA InitBroadcast == BroadcastInit => BroadcastInv
  BY DEF BroadcastInit, BroadcastInv, BroadcastTypeOK, BroadcastRunHolds, NoBroadcastRun,
     RecipientsAreRecorded, Draft, Campaigns

\* One run moves, or ends; a previewed draft stays previewed, what is frozen
\* stays frozen.
LEMMA BroadcastRunStep ==
  ASSUME BroadcastInv, NEW r \in OwnerRuns,
         NEW state \in BroadcastStates, brun' = [brun EXCEPT ![r] = state],
         bcast' \in Campaigns,
         bcast.previewedText # NoText => bcast'.previewedText # NoText,
         optedIn' \subseteq Audience, previewRows' \subseteq Audience,
         confirmedRows' \subseteq Audience, confirmedRows \subseteq confirmedRows',
         recipients' \subseteq Audience, RecipientsAreRecorded',
         BroadcastRunHolds(r)'
  PROVE  BroadcastInv'
<1>1. brun \in [OwnerRuns -> BroadcastStates]
  BY DEF BroadcastInv, BroadcastTypeOK, BroadcastStates
<1>2. brun' \in [OwnerRuns -> BroadcastStates] /\ \A s \in OwnerRuns \ {r} : brun'[s] = brun[s]
  BY <1>1
<1>3. BroadcastTypeOK'
  BY <1>2 DEF BroadcastTypeOK, BroadcastStates
<1>4. ASSUME NEW s \in OwnerRuns, s # r PROVE BroadcastRunHolds(s)'
  BY <1>2, <1>4 DEF BroadcastInv, BroadcastRunHolds
<1> QED
  BY <1>3, <1>4 DEF BroadcastInv

LEMMA NextBroadcast == BroadcastInv /\ [BroadcastNext]_broadcastVars => BroadcastInv'
<1> SUFFICES ASSUME BroadcastInv, [BroadcastNext]_broadcastVars PROVE BroadcastInv'
  OBVIOUS
<1>0. /\ bcast \in Campaigns /\ optedIn \subseteq Audience /\ previewRows \subseteq Audience
      /\ confirmedRows \subseteq Audience /\ recipients \subseteq Audience
      /\ brun \in [OwnerRuns -> BroadcastStates] /\ RecipientsAreRecorded
  BY DEF BroadcastInv, BroadcastTypeOK, BroadcastStates
<1>b. Draft \in Campaigns
  BY DEF Draft, Campaigns
<1>a. NoBroadcastRun \in BroadcastStates /\ NoBroadcastRun.at = "idle"
  BY <1>b DEF NoBroadcastRun, BroadcastStates
<1>1. CASE UNCHANGED broadcastVars
  BY <1>1 DEF broadcastVars, BroadcastInv, BroadcastTypeOK, BroadcastRunHolds,
     RecipientsAreRecorded
<1>2. ASSUME NEW c \in Audience, AudienceMoves(c) PROVE BroadcastInv'
  BY <1>0, <1>2 DEF AudienceMoves, BroadcastInv, BroadcastTypeOK, BroadcastRunHolds,
     RecipientsAreRecorded
<1>3. ASSUME CancelBroadcast PROVE BroadcastInv'
  <2>1. /\ bcast' \in Campaigns /\ bcast'.status = "CANCELLED"
        /\ bcast'.previewedText = bcast.previewedText
    BY <1>0, <1>3 DEF CancelBroadcast, Campaigns
  <2>2. BroadcastTypeOK'
    BY <1>3, <2>1 DEF CancelBroadcast, BroadcastInv, BroadcastTypeOK, Campaigns
  <2> QED
    BY <1>3, <2>1, <2>2 DEF CancelBroadcast, BroadcastInv, BroadcastRunHolds,
       RecipientsAreRecorded
\* Callbacks of the owner.
<1>4. ASSUME NEW r \in OwnerRuns, EndBroadcastRun(r),
             bcast' = bcast, optedIn' = optedIn, previewRows' \subseteq Audience,
             confirmedRows' = confirmedRows, recipients' = recipients
      PROVE  BroadcastInv'
  <2>1. brun' = [brun EXCEPT ![r] = NoBroadcastRun] /\ brun'[r] = NoBroadcastRun
    BY <1>0, <1>4 DEF EndBroadcastRun
  <2>2. BroadcastRunHolds(r)' /\ RecipientsAreRecorded'
    BY <1>0, <1>4, <1>a, <2>1 DEF BroadcastRunHolds, RecipientsAreRecorded
  <2> QED
    BY <1>0, <1>4, <1>a, <2>1, <2>2, BroadcastRunStep
<1>5. ASSUME NEW r \in OwnerRuns, NEW text \in Texts, StartPreview(r, text) PROVE BroadcastInv'
  <2> DEFINE state == [at |-> "mark", text |-> text, set |-> optedIn, read |-> Draft]
  <2>1. /\ state \in BroadcastStates /\ brun' = [brun EXCEPT ![r] = state] /\ brun'[r] = state
        /\ UNCHANGED <<bcast, optedIn, previewRows, confirmedRows, recipients>>
    BY <1>0, <1>b, <1>5 DEF StartPreview, BroadcastStates
  <2>2. BroadcastRunHolds(r)' /\ RecipientsAreRecorded'
    BY <1>0, <2>1, BroadcastAssumption DEF BroadcastRunHolds, RecipientsAreRecorded
  <2> HIDE DEF state
  <2> QED
    BY <1>0, <2>1, <2>2, BroadcastRunStep
<1>6. ASSUME NEW r \in OwnerRuns, MarkPreviewed(r) PROVE BroadcastInv'
  <2>1. CASE bcast.status # "DRAFT"
    BY <1>0, <1>4, <1>6, <2>1 DEF MarkPreviewed
  <2>2. CASE bcast.status = "DRAFT"
    <3> DEFINE state == [brun[r] EXCEPT !.at = "freeze"]
               row == [bcast EXCEPT !.content = brun[r].text, !.previewedText = brun[r].text,
                                    !.previewedSet = brun[r].set]
    <3>1. brun[r] \in BroadcastStates /\ brun[r].text # NoText
      BY <1>0, <1>6 DEF MarkPreviewed, BroadcastInv, BroadcastRunHolds
    <3>2. /\ state \in BroadcastStates /\ state.at = "freeze"
          /\ brun' = [brun EXCEPT ![r] = state] /\ brun'[r] = state
      BY <1>0, <1>6, <2>2, <3>1 DEF MarkPreviewed, BroadcastAt, BroadcastStates
    <3>3. /\ row \in Campaigns /\ row.previewedText = brun[r].text /\ row.status = bcast.status
      BY <1>0, <3>1 DEF Campaigns, BroadcastStates
    <3>4. bcast' = row /\ UNCHANGED <<optedIn, previewRows, confirmedRows, recipients>>
      BY <1>6, <2>2 DEF MarkPreviewed
    <3> HIDE DEF state, row
    <3>5. BroadcastRunHolds(r)' /\ RecipientsAreRecorded'
      BY <1>0, <3>1, <3>2, <3>3, <3>4 DEF BroadcastRunHolds, RecipientsAreRecorded
    <3> QED
      BY <1>0, <3>1, <3>2, <3>3, <3>4, <3>5, BroadcastRunStep
  <2> QED
    BY <2>1, <2>2
<1>7. ASSUME NEW r \in OwnerRuns, FreezePreview(r) PROVE BroadcastInv'
  <2>1. brun[r].set \subseteq Audience
    BY <1>0 DEF BroadcastStates
  <2> QED
    BY <1>0, <1>4, <1>7, <2>1 DEF FreezePreview
<1>8. ASSUME NEW r \in OwnerRuns, StartConfirm(r) \/ ReadPreview(r) PROVE BroadcastInv'
  <2>1. PICK state \in BroadcastStates :
          /\ state.at \in {"frozen", "live"} /\ brun' = [brun EXCEPT ![r] = state]
          /\ UNCHANGED <<bcast, optedIn, previewRows, confirmedRows, recipients>>
          /\ bcast.previewedText # NoText
    <3>1. CASE StartConfirm(r)
      <4> DEFINE state == [NoBroadcastRun EXCEPT !.at = "frozen", !.read = bcast]
      <4>1. state \in BroadcastStates /\ state.at = "frozen"
        BY <1>0, <1>a DEF BroadcastStates
      <4> QED
        BY <3>1, <4>1 DEF StartConfirm
    <3>2. CASE ReadPreview(r)
      <4> DEFINE state == [brun[r] EXCEPT !.at = "live", !.set = previewRows]
      <4>1. state \in BroadcastStates /\ state.at = "live" /\ brun' = [brun EXCEPT ![r] = state]
        BY <1>0, <3>2 DEF ReadPreview, BroadcastStates
      <4>2. bcast.previewedText # NoText
        BY <3>2 DEF ReadPreview, BroadcastInv, BroadcastRunHolds
      <4> HIDE DEF state
      <4> QED
        BY <3>2, <4>1, <4>2 DEF ReadPreview
    <3> QED
      BY <1>8, <3>1, <3>2
  <2>2. BroadcastRunHolds(r)' /\ RecipientsAreRecorded'
    BY <1>0, <2>1 DEF BroadcastRunHolds, RecipientsAreRecorded
  <2> QED
    BY <1>0, <2>1, <2>2, BroadcastRunStep
<1>12. ASSUME NEW r \in OwnerRuns, ReadAudience(r) PROVE BroadcastInv'
  <2>1. CASE StalePreview(r)
    BY <1>0, <1>4, <1>12, <2>1 DEF ReadAudience
  <2>2. CASE ~StalePreview(r)
    <3> DEFINE state == [brun[r] EXCEPT !.at = "confirm",
                           !.set = IF brun[r].set # {} THEN brun[r].set ELSE optedIn]
    <3>1. /\ state \in BroadcastStates /\ state.at = "confirm"
          /\ brun' = [brun EXCEPT ![r] = state] /\ brun'[r] = state
          /\ UNCHANGED <<bcast, optedIn, previewRows, confirmedRows, recipients>>
      BY <1>0, <1>12, <2>2 DEF ReadAudience, BroadcastStates
    <3>2. bcast.previewedText # NoText
      BY <1>12 DEF ReadAudience, BroadcastInv, BroadcastRunHolds
    <3> HIDE DEF state
    <3>3. BroadcastRunHolds(r)' /\ RecipientsAreRecorded'
      BY <1>0, <3>1, <3>2 DEF BroadcastRunHolds, RecipientsAreRecorded
    <3> QED
      BY <1>0, <3>1, <3>3, BroadcastRunStep
  <2> QED
    BY <2>1, <2>2
<1>9. ASSUME NEW r \in OwnerRuns, FreezeConfirmed(r) PROVE BroadcastInv'
  <2> DEFINE state == [brun[r] EXCEPT !.at = "queue"]
  <2>1. /\ state \in BroadcastStates /\ state.at = "queue" /\ state.set = brun[r].set
        /\ brun' = [brun EXCEPT ![r] = state] /\ brun'[r] = state /\ brun[r].set \subseteq Audience
    BY <1>0, <1>9 DEF FreezeConfirmed, BroadcastAt, BroadcastStates
  <2>2. /\ confirmedRows' = confirmedRows \cup brun[r].set
        /\ UNCHANGED <<bcast, optedIn, previewRows, recipients>>
        /\ bcast.previewedText # NoText
    BY <1>9 DEF FreezeConfirmed, BroadcastInv, BroadcastRunHolds
  <2> HIDE DEF state
  <2>3. BroadcastRunHolds(r)' /\ RecipientsAreRecorded'
    BY <1>0, <2>1, <2>2 DEF BroadcastRunHolds, RecipientsAreRecorded
  <2> QED
    BY <1>0, <2>1, <2>2, <2>3, BroadcastRunStep
<1>10. ASSUME NEW r \in OwnerRuns, QueueBroadcast(r) PROVE BroadcastInv'
  <2>1. CASE bcast.status # "DRAFT"
    BY <1>0, <1>4, <1>10, <2>1 DEF QueueBroadcast
  <2>2. CASE bcast.status = "DRAFT"
    <3>1. /\ bcast' = [bcast EXCEPT !.status = "QUEUED"]
          /\ recipients' = recipients \cup brun[r].set
          /\ brun' = [brun EXCEPT ![r] = NoBroadcastRun] /\ brun'[r] = NoBroadcastRun
          /\ UNCHANGED <<optedIn, previewRows, confirmedRows>>
      BY <1>0, <1>10, <2>2 DEF QueueBroadcast, Frozen, EndBroadcastRun
    <3>2. brun[r].set \subseteq confirmedRows /\ bcast.previewedText # NoText
      BY <1>10 DEF QueueBroadcast, BroadcastInv, BroadcastRunHolds
    <3>3. /\ bcast' \in Campaigns /\ bcast'.status = "QUEUED"
          /\ bcast'.previewedText = bcast.previewedText
      BY <1>0, <3>1 DEF Campaigns
    <3>4. BroadcastRunHolds(r)' /\ RecipientsAreRecorded'
      BY <1>0, <1>a, <3>1, <3>2, <3>3 DEF BroadcastRunHolds, RecipientsAreRecorded
    <3> QED
      BY <1>0, <1>a, <3>1, <3>2, <3>3, <3>4, BroadcastRunStep
  <2> QED
    BY <2>1, <2>2
<1>11. ASSUME NEW r \in OwnerRuns, BroadcastRunDies(r) PROVE BroadcastInv'
  BY <1>0, <1>4, <1>11 DEF BroadcastRunDies
<1> QED
  BY <1>1, <1>2, <1>3, <1>5, <1>6, <1>7, <1>8, <1>9, <1>10, <1>11, <1>12 DEF BroadcastNext

(* A confirmation queues a draft that was previewed, to those it froze in a    *)
(* transaction before (confirmBroadcast, modules/notification/service.ts).   *)
THEOREM BroadcastInvariant == BroadcastSpec => []BroadcastInv
<1>1. BroadcastInit => BroadcastInv
  BY InitBroadcast
<1>2. BroadcastInv /\ [BroadcastNext]_broadcastVars => BroadcastInv'
  BY NextBroadcast
<1> QED
  BY <1>1, <1>2, PTL DEF BroadcastSpec

(* What the shop says in its own words reaches those it was decided for, once, *)
(* as it last read: whatever a lost answer, an expired lease, a rewrite or a  *)
(* crash between the frozen audience and its deliveries leaves behind.       *)
THEOREM MessagesRecorded == NotificationSpec /\ BroadcastSpec => []MessagesAreRecorded
<1>1. NoticeInv /\ BroadcastInv => MessagesAreRecorded
  BY DEF NoticeInv, NoticeHolds, BroadcastInv, MessagesAreRecorded, NoticeIsOneAndCurrent,
     NoticeShownOnce, SentShowsCurrent
<1> QED
  BY <1>1, NoticeInvariant, BroadcastInvariant, PTL

-----------------------------------------------------------------------------
(* Warranty.  A claim that was promised money has no case, and one with a    *)
(* case was promised none; cases about one unit find each other.             *)

Fields == {"status", "about", "obligation", "kase"}
ClaimsAreRows ==
  /\ DOMAIN claim = Claims /\ DOMAIN kase = Cases
  /\ \A c \in Claims : DOMAIN claim[c] = Fields

ClaimHasOneWay(row) ==
  /\ row.status = "REFUND_PAID" <=> row.obligation = "PAID"
  /\ row.obligation \in {"none", "OPEN", "PAID"}
  /\ row.obligation # "none" =>
       row.kase = NoCase /\ row.status \in {"REFUND_DUE", "REFUND_PAID", "REJECTED"}
  /\ row.kase # NoCase => row.status \in {"REPLACEMENT_APPROVED", "REJECTED"}

CasesAgree ==
  \A j, k \in Cases :
    kase[j].status = "REPLACED" /\ kase[k].status = "REPLACED" /\ kase[j].about = kase[k].about =>
      kase[j].unit = kase[k].unit

WarrantyInv == ClaimsAreRows /\ (\A c \in Claims : ClaimHasOneWay(claim[c])) /\ CasesAgree

\* The decisions that leave the cases alone.
LEMMA DecisionStep ==
  ASSUME WarrantyInv, NEW c \in Claims,
         \/ \E u \in Goods : ReportDefect(c, u)
         \/ SubmitClaim(c) \/ RequestClaimInfo(c) \/ VerifyClaimDefect(c)
         \/ RejectClaim(c) \/ ApproveClaimRefund(c) \/ MarkRefundPaid(c)
  PROVE  WarrantyInv'
<1>0. DOMAIN claim = Claims /\ DOMAIN claim[c] = Fields /\ ClaimHasOneWay(claim[c]) /\ DOMAIN NoClaim = Fields
  BY DEF WarrantyInv, ClaimsAreRows, NoClaim, Fields
<1>1. /\ DOMAIN claim' = Claims /\ \A d \in Claims \ {c} : claim'[d] = claim[d]
      /\ DOMAIN claim'[c] = Fields /\ ClaimHasOneWay(claim'[c])
  <2> USE <1>0 DEF ClaimHasOneWay, Fields, ClaimBecomes
  <2>1. CASE \E u \in Goods : ReportDefect(c, u)
    <3>1. PICK u \in Goods : ReportDefect(c, u)
      BY <2>1
    <3>2. /\ DOMAIN claim' = Claims /\ \A d \in Claims \ {c} : claim'[d] = claim[d]
          /\ claim'[c] = [NoClaim EXCEPT !.status = "reported", !.about = u]
      BY <3>1 DEF ReportDefect
    <3> QED
      BY <3>2 DEF NoClaim
  <2>2. CASE SubmitClaim(c)
    BY <2>2 DEF SubmitClaim, NoClaim
  <2>3. CASE RequestClaimInfo(c) \/ VerifyClaimDefect(c)
    BY <2>3 DEF RequestClaimInfo, VerifyClaimDefect, MoveClaim
  <2>4. CASE RejectClaim(c)
    BY <2>4 DEF RejectClaim, MoveClaim, ActiveStatuses
  <2>5. CASE ApproveClaimRefund(c)
    BY <2>5 DEF ApproveClaimRefund
  <2>6. CASE MarkRefundPaid(c)
    BY <2>6 DEF MarkRefundPaid
  <2> QED
    BY <2>1, <2>2, <2>3, <2>4, <2>5, <2>6
<1>2. kase' = kase
  BY DEF ReportDefect, SubmitClaim, RequestClaimInfo, VerifyClaimDefect, RejectClaim,
         ApproveClaimRefund, MarkRefundPaid, MoveClaim, ClaimBecomes
<1>3. ClaimsAreRows'
  BY <1>1, <1>2 DEF WarrantyInv, ClaimsAreRows
<1>4. \A d \in Claims : ClaimHasOneWay(claim'[d])
  BY <1>1 DEF WarrantyInv, ClaimsAreRows
<1>5. CasesAgree'
  BY <1>2 DEF WarrantyInv, CasesAgree
<1> QED
  BY <1>3, <1>4, <1>5 DEF WarrantyInv, ClaimHasOneWay

\* What a case is given is what its siblings were given.
LEMMA ReplaceAgrees ==
  ASSUME ClaimsAreRows, CasesAgree, NEW k \in Cases, NEW about, NEW u,
         Replace(k, about, u), u \in Given(k, about),
         kase[k].status = "REPLACED" => about = kase[k].about
  PROVE  CasesAgree' /\ DOMAIN kase' = Cases
<1>1. /\ DOMAIN kase' = Cases
      /\ kase'[k] = [status |-> "REPLACED", about |-> about, unit |-> u]
      /\ \A j \in Cases \ {k} : kase'[j] = kase[j]
  BY DEF Replace, ClaimsAreRows
<1>2. ASSUME NEW j \in Cases \ {k}, kase[j].status = "REPLACED", kase[j].about = about
      PROVE  kase[j].unit = u
  <2>1. CASE kase[k].status = "REPLACED"
    BY <1>2, <2>1 DEF Given, CasesAgree
  <2>2. CASE kase[k].status # "REPLACED"
    <3>1. j \in Siblings(k, about)
      BY <1>2 DEF Siblings
    <3>2. PICK i \in Siblings(k, about) : u = kase[i].unit
      BY <2>2, <3>1 DEF Given
    <3> QED
      BY <1>2, <3>2 DEF Siblings, CasesAgree
  <2> QED
    BY <2>1, <2>2
<1> QED
  BY <1>1, <1>2 DEF CasesAgree

LEMMA CaseStep ==
  ASSUME WarrantyInv, NEW k \in Cases,
         \/ \E u \in Goods : OpenReplacementCase(k, u)
         \/ \E c \in Claims : ClaimReplacementFindsNoStock(c, k)
         \/ \E u \in Goods : ApproveSupportCase(k, u)
         \/ \E c \in Claims, u \in Goods : ClaimReplacementIsNotIssued(c, k, u)
  PROVE  WarrantyInv'
<1> USE DEF WarrantyInv
<1>1. claim' = claim
  BY DEF OpenReplacementCase, ClaimReplacementFindsNoStock, ApproveSupportCase,
         ClaimReplacementIsNotIssued
<1>2. CASE \/ \E u \in Goods : OpenReplacementCase(k, u)
           \/ \E c \in Claims : ClaimReplacementFindsNoStock(c, k)
  <2>1. /\ DOMAIN kase' = Cases /\ \A j \in Cases \ {k} : kase'[j] = kase[j]
        /\ kase'[k].status # "REPLACED"
    BY <1>2 DEF ClaimsAreRows, OpenReplacementCase, ClaimReplacementFindsNoStock, NoReplacement
  <2> QED
    BY <1>1, <2>1 DEF ClaimsAreRows, CasesAgree, ClaimHasOneWay
<1>3. ASSUME NEW u \in Goods, ApproveSupportCase(k, u) PROVE CasesAgree' /\ DOMAIN kase' = Cases
  BY <1>3, ReplaceAgrees DEF ApproveSupportCase
<1>4. ASSUME NEW c \in Claims, NEW u \in Goods, ClaimReplacementIsNotIssued(c, k, u)
      PROVE CasesAgree' /\ DOMAIN kase' = Cases
  BY <1>4, ReplaceAgrees DEF ClaimReplacementIsNotIssued, ClaimReplaceable
<1> QED
  BY <1>1, <1>2, <1>3, <1>4 DEF ClaimsAreRows, ClaimHasOneWay

LEMMA ReplacementStep ==
  ASSUME WarrantyInv, NEW c \in Claims, NEW k \in Cases, NEW u \in Goods,
         ApproveClaimReplacement(c, k, u)
  PROVE  WarrantyInv'
<1> USE DEF WarrantyInv
<1>0. ClaimHasOneWay(claim[c])
  OBVIOUS
<1>1. CasesAgree' /\ DOMAIN kase' = Cases
  BY ReplaceAgrees DEF ApproveClaimReplacement, ClaimReplaceable
<1>2. claim[c].obligation = "none"
  BY <1>0 DEF ApproveClaimReplacement, ClaimReplaceable, ClaimHasOneWay
<1>3. /\ DOMAIN claim' = Claims /\ \A d \in Claims \ {c} : claim'[d] = claim[d]
      /\ DOMAIN claim'[c] = Fields /\ claim'[c].status = "REPLACEMENT_APPROVED"
      /\ claim'[c].obligation = claim[c].obligation
  BY DEF ApproveClaimReplacement, ClaimsAreRows, Fields
<1>4. ClaimHasOneWay(claim'[c])
  BY <1>2, <1>3 DEF ClaimHasOneWay
<1>5. \A d \in Claims : ClaimHasOneWay(claim'[d])
  BY <1>3, <1>4
<1>6. ClaimsAreRows'
  BY <1>1, <1>3 DEF ClaimsAreRows
<1> QED
  BY <1>1, <1>5, <1>6 DEF ClaimHasOneWay

\* Claims and cases keep to one way each, whatever becomes of the units.
THEOREM WarrantyInvariant == WarrantySpec => []WarrantyInv
<1>1. WarrantyInit => WarrantyInv
  BY DEF WarrantyInit, WarrantyInv, ClaimsAreRows, Fields, ClaimHasOneWay, CasesAgree, NoClaim, NoReplacement
<1>2. ASSUME WarrantyInv, [WarrantyNext]_warrantyVars PROVE WarrantyInv'
  <2>1. CASE UNCHANGED <<claim, kase>>
    BY <1>2, <2>1 DEF WarrantyInv, ClaimsAreRows, ClaimHasOneWay, CasesAgree
  <2>2. ASSUME NEW u \in Goods, ViewLink(u) \/ ConsumeLink(u) \/ LinkLapses(u)
                                \/ ReplacementLapses(u) \/ SoldElsewhere(u)
                                \/ QuarantineGood(u) \/ RestoreGood(u) \/ RevokeGood(u)
        PROVE UNCHANGED <<claim, kase>>
    BY <2>2 DEF ViewLink, ConsumeLink, LinkLapses, ReplacementLapses, SoldElsewhere,
                QuarantineGood, RestoreGood, RevokeGood, MoveGood
  <2>3. UNCHANGED warrantyVars => UNCHANGED <<claim, kase>>
    BY DEF warrantyVars
  <2> QED
    BY <1>2, <2>1, <2>2, <2>3, DecisionStep, CaseStep, ReplacementStep DEF WarrantyNext
<1> QED
  BY <1>1, <1>2, PTL DEF WarrantySpec

\* Rows and units keep their types: the type invariant is inductive by itself.
LEMMA WithoutType ==
  ASSUME delivered \in Seq(Goods), NEW u \in Goods
  PROVE  /\ Without(u) \in Seq(Goods) /\ Touched(u) \in Seq(Goods)
         /\ Append(Without(u), u) \in Seq(Goods)
<1>1. CASE u \notin ToSet(delivered)
  BY <1>1 DEF Without, Touched
<1>2. CASE u \in ToSet(delivered)
  <2> DEFINE i == CHOOSE j \in DOMAIN delivered : delivered[j] = u
  <2>1. i \in 1..Len(delivered)
    BY <1>2 DEF ToSet
  <2> HIDE DEF i
  <2>2. RemoveAt(delivered, i) \in Seq(Goods)
    BY <2>1 DEF RemoveAt
  <2>3. Without(u) \in Seq(Goods)
    BY <1>2, <2>2 DEF Without, i
  <2> QED
    BY <1>2, <2>3 DEF Touched
<1> QED
  BY <1>1, <1>2

ClaimRows == [status : ActiveStatuses \cup {"none", "reported", "REJECTED"},
              about : Goods \cup {NoGood}, obligation : {"none", "OPEN", "PAID"},
              kase : Cases \cup {NoCase}]

LEMMA ClaimTyped ==
  ASSUME WarrantyTypeOK, NEW c \in Claims,
         \/ \E u \in Goods : ReportDefect(c, u)
         \/ SubmitClaim(c) \/ RequestClaimInfo(c) \/ VerifyClaimDefect(c)
         \/ RejectClaim(c) \/ ApproveClaimRefund(c) \/ MarkRefundPaid(c)
  PROVE  WarrantyTypeOK'
<1>0. claim \in [Claims -> ClaimRows] /\ claim[c] \in ClaimRows
  BY DEF WarrantyTypeOK, ClaimRows
<1>1. NoClaim \in ClaimRows
  BY DEF ClaimRows, NoClaim
<1>2. PICK new \in ClaimRows : ClaimBecomes(c, new)
  <2>1. CASE \E u \in Goods : ReportDefect(c, u)
    <3>1. PICK u \in Goods : ReportDefect(c, u)
      BY <2>1
    <3>2. [NoClaim EXCEPT !.status = "reported", !.about = u] \in ClaimRows
      BY DEF ClaimRows, NoClaim
    <3> QED
      BY <3>1, <3>2 DEF ReportDefect
  <2>2. CASE SubmitClaim(c)
    <3>1. [claim[c] EXCEPT !.status = "SUBMITTED"] \in ClaimRows
      BY <1>0 DEF ClaimRows, ActiveStatuses
    <3> QED
      BY <1>1, <2>2, <3>1 DEF SubmitClaim
  <2>3. ASSUME NEW from, NEW to \in ActiveStatuses \cup {"REJECTED"}, MoveClaim(c, from, to)
        PROVE  \E new \in ClaimRows : ClaimBecomes(c, new)
    <3>1. [claim[c] EXCEPT !.status = to] \in ClaimRows
      BY <1>0 DEF ClaimRows
    <3> QED
      BY <2>3, <3>1 DEF MoveClaim
  <2>4. CASE RequestClaimInfo(c) \/ VerifyClaimDefect(c) \/ RejectClaim(c)
    BY <2>3, <2>4 DEF RequestClaimInfo, VerifyClaimDefect, RejectClaim, ActiveStatuses
  <2>5. CASE ApproveClaimRefund(c) \/ MarkRefundPaid(c)
    <3>1. /\ [claim[c] EXCEPT !.status = "REFUND_DUE", !.obligation = "OPEN"] \in ClaimRows
          /\ [claim[c] EXCEPT !.status = "REFUND_PAID", !.obligation = "PAID"] \in ClaimRows
      BY <1>0 DEF ClaimRows, ActiveStatuses
    <3> QED
      BY <2>5, <3>1 DEF ApproveClaimRefund, MarkRefundPaid
  <2> QED
    BY <2>1, <2>2, <2>4, <2>5
<1>3. claim' \in [Claims -> ClaimRows] /\ UNCHANGED <<kase, good, link, delivered>>
  BY <1>0, <1>2 DEF ClaimBecomes
<1> QED
  BY <1>3 DEF WarrantyTypeOK, ClaimRows

LEMMA ReplaceTyped ==
  ASSUME WarrantyTypeOK, NEW k \in Cases, NEW u \in Goods, NEW about \in Goods \cup {NoGood},
         Replace(k, about, u)
  PROVE  /\ kase' \in [Cases -> [status : {"none", "OPEN", "APPROVED", "REPLACED"},
                                 about : Goods \cup {NoGood}, unit : Goods \cup {NoGood}]]
         /\ link' \in [Goods -> {"none", "AVAILABLE", "VIEWED"}]
         /\ Taken(k, about, u)
              \in [Goods -> {"AVAILABLE", "RESERVED", "DELIVERED", "COMPROMISED", "REVOKED", "elsewhere"}]
<1> USE DEF WarrantyTypeOK
<1>1. kase' \in [Cases -> [status : {"none", "OPEN", "APPROVED", "REPLACED"},
                           about : Goods \cup {NoGood}, unit : Goods \cup {NoGood}]]
  BY DEF Replace
<1>2. link' \in [Goods -> {"none", "AVAILABLE", "VIEWED"}]
  BY DEF Replace
<1> QED
  BY <1>1, <1>2 DEF Taken

LEMMA CaseTyped ==
  ASSUME WarrantyTypeOK, NEW k \in Cases, NEW u \in Goods,
         \/ OpenReplacementCase(k, u) \/ ApproveSupportCase(k, u)
         \/ \E c \in Claims : \/ ClaimReplacementFindsNoStock(c, k)
                              \/ ApproveClaimReplacement(c, k, u)
                              \/ ClaimReplacementIsNotIssued(c, k, u)
  PROVE  WarrantyTypeOK'
<1>1. CASE OpenReplacementCase(k, u)
  BY <1>1 DEF OpenReplacementCase, NoReplacement, WarrantyTypeOK
<1>2. CASE ApproveSupportCase(k, u)
  <2>1. kase[k].about \in Goods \cup {NoGood}
    BY DEF WarrantyTypeOK
  <2> QED
    BY <1>2, <2>1, ReplaceTyped DEF ApproveSupportCase, WarrantyTypeOK
<1>3. ASSUME NEW c \in Claims, ClaimReplacementFindsNoStock(c, k) PROVE WarrantyTypeOK'
  BY <1>3 DEF ClaimReplacementFindsNoStock, NoReplacement, WarrantyTypeOK
<1>4. ASSUME NEW c \in Claims, ClaimReplacementIsNotIssued(c, k, u) PROVE WarrantyTypeOK'
  <2>1. claim[c].about \in Goods \cup {NoGood}
    BY DEF WarrantyTypeOK
  <2> QED
    BY <1>4, <2>1, ReplaceTyped DEF ClaimReplacementIsNotIssued, WarrantyTypeOK
<1>5. ASSUME NEW c \in Claims, ApproveClaimReplacement(c, k, u) PROVE WarrantyTypeOK'
  <2> DEFINE about == claim[c].about
             held == Taken(k, about, u)
             Goodness == {"AVAILABLE", "RESERVED", "DELIVERED", "COMPROMISED", "REVOKED", "elsewhere"}
  <2>1. about \in Goods \cup {NoGood}
    BY DEF WarrantyTypeOK
  <2>2. Replace(k, about, u)
    BY <1>5 DEF ApproveClaimReplacement
  <2>3. held \in [Goods -> Goodness]
    BY <2>1, <2>2, ReplaceTyped
  <2>4. good' \in [Goods -> Goodness]
    BY <1>5, <2>3 DEF ApproveClaimReplacement
  <2>5. delivered' \in Seq(Goods)
    <3>1. delivered \in Seq(Goods)
      BY DEF WarrantyTypeOK
    <3>2. Touched(about) \in Seq(Goods)
      <4>1. CASE about \in Goods
        BY <3>1, <4>1, WithoutType
      <4>2. CASE about \notin Goods
        <5>1. about \notin ToSet(delivered)
          BY <3>1, <4>2 DEF ToSet
        <5> QED
          BY <3>1, <5>1 DEF Touched
      <4> QED
        BY <4>1, <4>2
    <3> QED
      BY <1>5, <3>1, <3>2 DEF ApproveClaimReplacement
  <2>6. claim' \in [Claims -> [status : ActiveStatuses \cup {"none", "reported", "REJECTED"},
                               about : Goods \cup {NoGood}, obligation : {"none", "OPEN", "PAID"},
                               kase : Cases \cup {NoCase}]]
    <3>0. claim[c] \in ClaimRows
      BY DEF WarrantyTypeOK, ClaimRows
    <3>1. [claim[c] EXCEPT !.status = "REPLACEMENT_APPROVED", !.kase = k] \in ClaimRows
      BY <3>0 DEF ClaimRows, ActiveStatuses
    <3>2. claim' = [claim EXCEPT ![c] = [claim[c] EXCEPT !.status = "REPLACEMENT_APPROVED", !.kase = k]]
      BY <1>5 DEF ApproveClaimReplacement, WarrantyTypeOK
    <3> QED
      BY <3>1, <3>2 DEF WarrantyTypeOK, ClaimRows
  <2> QED
    BY <2>1, <2>2, <2>4, <2>5, <2>6, ReplaceTyped DEF WarrantyTypeOK
<1> QED
  BY <1>1, <1>2, <1>3, <1>4, <1>5

LEMMA UnitTyped ==
  ASSUME WarrantyTypeOK, NEW u \in Goods,
         \/ ViewLink(u) \/ ConsumeLink(u) \/ LinkLapses(u)
         \/ ReplacementLapses(u) \/ SoldElsewhere(u)
         \/ QuarantineGood(u) \/ RestoreGood(u) \/ RevokeGood(u)
  PROVE  WarrantyTypeOK'
<1>1. delivered' \in Seq(Goods)
  BY WithoutType DEF WarrantyTypeOK, ViewLink, ConsumeLink, LinkLapses, ReplacementLapses,
                     SoldElsewhere, QuarantineGood, RestoreGood, RevokeGood, MoveGood
<1>2. /\ good' \in [Goods -> {"AVAILABLE", "RESERVED", "DELIVERED", "COMPROMISED", "REVOKED", "elsewhere"}]
      /\ link' \in [Goods -> {"none", "AVAILABLE", "VIEWED"}]
      /\ UNCHANGED <<claim, kase>>
  BY DEF WarrantyTypeOK, ViewLink, ConsumeLink, LinkLapses, ReplacementLapses, SoldElsewhere,
         QuarantineGood, RestoreGood, RevokeGood, MoveGood
<1> QED
  BY <1>1, <1>2 DEF WarrantyTypeOK

THEOREM WarrantyType == WarrantySpec => []WarrantyTypeOK
<1>1. WarrantyInit => WarrantyTypeOK
  <2>1. Original \in Goods /\ <<Original>> \in Seq(Goods)
    BY DEF Goods
  <2> QED
    BY <2>1 DEF WarrantyInit, WarrantyTypeOK, NoClaim, NoReplacement
<1>2. WarrantyTypeOK /\ [WarrantyNext]_warrantyVars => WarrantyTypeOK'
  <2>1. WarrantyTypeOK /\ UNCHANGED warrantyVars => WarrantyTypeOK'
    BY DEF WarrantyTypeOK, warrantyVars
  <2>2. WarrantyTypeOK /\ WarrantyNext => WarrantyTypeOK'
    <3> SUFFICES ASSUME WarrantyTypeOK, WarrantyNext PROVE WarrantyTypeOK'
      OBVIOUS
    <3>1. ASSUME NEW c \in Claims,
                 \/ \E u \in Goods : ReportDefect(c, u)
                 \/ SubmitClaim(c) \/ RequestClaimInfo(c) \/ VerifyClaimDefect(c)
                 \/ RejectClaim(c) \/ ApproveClaimRefund(c) \/ MarkRefundPaid(c)
          PROVE  WarrantyTypeOK'
      BY <3>1, ClaimTyped
    <3>2. ASSUME NEW c \in Claims, NEW k \in Cases, ClaimReplacementFindsNoStock(c, k)
          PROVE  WarrantyTypeOK'
      BY <3>2, Original \in Goods, CaseTyped DEF Goods
    <3>3. ASSUME NEW c \in Claims, NEW k \in Cases, NEW u \in Goods,
                 ApproveClaimReplacement(c, k, u) \/ ClaimReplacementIsNotIssued(c, k, u)
          PROVE  WarrantyTypeOK'
      BY <3>3, CaseTyped
    <3>4. ASSUME NEW k \in Cases, NEW u \in Goods,
                 OpenReplacementCase(k, u) \/ ApproveSupportCase(k, u)
          PROVE  WarrantyTypeOK'
      BY <3>4, CaseTyped
    <3>5. ASSUME NEW u \in Goods,
                 \/ ViewLink(u) \/ ConsumeLink(u) \/ LinkLapses(u)
                 \/ ReplacementLapses(u) \/ SoldElsewhere(u)
                 \/ QuarantineGood(u) \/ RestoreGood(u) \/ RevokeGood(u)
          PROVE  WarrantyTypeOK'
      BY <3>5, UnitTyped
    <3> QED
      BY <3>1, <3>2, <3>3, <3>4, <3>5 DEF WarrantyNext
  <2> QED
    BY <2>1, <2>2
<1> QED
  BY <1>1, <1>2, PTL DEF WarrantySpec

(* Each claim is settled once, by money or by a unit, and all the replacement  *)
(* cases of a defective unit give one and the same unit for it, however many   *)
(* claims and support cases ask.  A claim's money and a support case's unit     *)
(* are not excluded for one unit: MoneyOrAUnit does not hold                    *)
(* (warranty/claims.ts, digital-goods/replacement.ts).                         *)
THEOREM WarrantySettled == WarrantySpec => []SettledInOneWay
<1>1. WarrantyInv => SettledInOneWay
  BY DEF WarrantyInv, ClaimHasOneWay, CasesAgree, SettledInOneWay
<1> QED
  BY WarrantyInvariant, <1>1, PTL

-----------------------------------------------------------------------------
(* Imports.  A challenge is issued once, by the one handler that opened its   *)
(* door, and what it was bound to never changes after; a handler that took a  *)
(* challenge took the text with it, and the lock under which the session is   *)
(* confirmed asks for that text again.                                       *)

Opening == {"staging", "binding", "issuing"}
Importing == {"checking", "preparing", "revealing", "writing", "inserting", "dropping"}
Offered == {"PREVIEWED", "PROCESSING"}

ChallengeHolds(h) ==
  challenge[h].status \in Offered => challenge[h].input = bound[h].text /\ bound[h].text # NoInput

ImporterHolds(r) ==
  LET h == importer[r].door IN
  /\ At(r, "idle") => h = NoChallenge
  /\ ~At(r, "idle") => importer[r].input # NoInput
  /\ importer[r].at \in {"staging", "issuing", "checking", "preparing"} => h # NoChallenge
  /\ At(r, "inserting") => importer[r].todo # <<>>
  /\ importer[r].at \in Opening /\ h # NoChallenge => challenge[h].status = "none"
  /\ importer[r].at \in Importing /\ h # NoChallenge =>
       challenge[h].status # "none" /\ importer[r].input = bound[h].text

OpenedOnce ==
  \A r, q \in Importers :
    /\ importer[r].at \in Opening /\ importer[q].at \in Opening
    /\ importer[r].door = importer[q].door /\ importer[r].door # NoChallenge
    => r = q

ImportedRow == [secret : Credentials \cup {NoCredential}, status : UnitStatuses]
SessionRow == [status : Open \cup {"none", "COMMITTED", "CANCELLED"},
               input : Inputs \cup {NoInput}, chosen : BOOLEAN, lapsed : BOOLEAN]
ChallengeRow == [status : {"none", "PREVIEWED", "PROCESSING", "CONSUMED", "EXPIRED"},
                 input : Inputs \cup {NoInput}, lapsed : BOOLEAN]
BoundRow == [shown : Inputs \cup {NoInput}, text : Inputs \cup {NoInput}, restaged : BOOLEAN]
ImporterRow == [at : {"idle"} \cup Opening \cup Importing, input : Inputs \cup {NoInput},
                seen : Inputs \cup {NoInput}, door : Challenges \cup {NoChallenge},
                todo : Seq(Credentials), ready : BOOLEAN]

ImportTypes ==
  /\ stock \in [StockUnits -> ImportedRow]
  /\ vault \subseteq Credentials \cup Inputs
  /\ session \in SessionRow
  /\ challenge \in [Challenges -> ChallengeRow]
  /\ bound \in [Challenges -> BoundRow]
  /\ importer \in [Importers -> ImporterRow]
  /\ started \in 0 .. MaxHandlers

ImportInv ==
  /\ ImportTypes
  /\ SoldAsOneUnit
  /\ \A h \in Challenges : ChallengeHolds(h)
  /\ \A r \in Importers : ImporterHolds(r)
  /\ OpenedOnce

LEMMA NoImportIsARow == NoImport \in ImporterRow /\ NoImport.at = "idle" /\ NoImport.door = NoChallenge
  BY DEF NoImport, ImporterRow

LEMMA InitImport == ImportInit => ImportInv
<1> SUFFICES ASSUME ImportInit PROVE ImportInv
  OBVIOUS
<1>1. ImportTypes
  <2>1. /\ Absent \in ImportedRow /\ NoSession \in SessionRow /\ Unissued \in ChallengeRow
        /\ NoneBound \in BoundRow
    BY DEF NoneBound, BoundRow, Absent, ImportedRow, UnitStatuses, NoSession, SessionRow, Unissued, ChallengeRow
  <2> QED
    BY <2>1, NoImportIsARow, ImportAssumption DEF ImportInit, ImportTypes
<1>2. SoldAsOneUnit
  BY DEF ImportInit, SoldAsOneUnit, Absent
<1>3. (\A h \in Challenges : ChallengeHolds(h)) /\ (\A r \in Importers : ImporterHolds(r)) /\ OpenedOnce
  BY NoImportIsARow DEF ImportInit, ChallengeHolds, ImporterHolds, OpenedOnce, Opening, Importing, Offered, At,
     Unissued
<1> QED
  BY <1>1, <1>2, <1>3 DEF ImportInv

\* Challenges move on and are closed: none is issued, and an offered one keeps
\* its text.
ChallengesKept ==
  /\ challenge' \in [Challenges -> ChallengeRow]
  /\ \A h \in Challenges :
       /\ challenge'[h].status = "none" <=> challenge[h].status = "none"
       /\ challenge'[h].status \in Offered =>
            challenge[h].status \in Offered /\ challenge'[h].input = challenge[h].input
  /\ bound' \in [Challenges -> BoundRow]
  /\ \A h \in Challenges : bound'[h].text = bound[h].text

LEMMA SameChallenges ==
  ASSUME ImportInv, UNCHANGED <<challenge, bound>>
  PROVE  ChallengesKept
  BY DEF ImportInv, ImportTypes, ChallengesKept

\* What is true of a challenge and of a handler that does not move stays so.
LEMMA ChallengesStay ==
  ASSUME ImportInv, ChallengesKept
  PROVE  /\ \A h \in Challenges : ChallengeHolds(h)'
         /\ \A q \in Importers : importer'[q] = importer[q] => ImporterHolds(q)'
<1>1. ASSUME NEW h \in Challenges PROVE ChallengeHolds(h)'
  BY DEF ImportInv, ChallengesKept, ChallengeHolds
<1>2. ASSUME NEW q \in Importers, importer'[q] = importer[q] PROVE ImporterHolds(q)'
  <2>1. importer[q].door \in Challenges \cup {NoChallenge}
    BY DEF ImportInv, ImportTypes, ImporterRow
  <2>2. ImporterHolds(q)
    BY DEF ImportInv
  <2> QED
    BY <1>2, <2>1, <2>2 DEF ImporterHolds, ChallengesKept, At
<1> QED
  BY <1>1, <1>2

\* A handler moves.
LEMMA HandlerMoves ==
  ASSUME ImportInv, ChallengesKept, NEW r \in Importers, NEW state \in ImporterRow,
         importer' = [importer EXCEPT ![r] = state],
         stock' \in [StockUnits -> ImportedRow], SoldAsOneUnit',
         vault' \subseteq Credentials \cup Inputs, session' \in SessionRow,
         started' \in 0 .. MaxHandlers,
         ImporterHolds(r)',
         state.at \in Opening /\ state.door # NoChallenge =>
           \/ importer[r].at \in Opening /\ importer[r].door = state.door
           \/ \A q \in Importers : importer[q].door # state.door
  PROVE  ImportInv'
<1>1. /\ importer \in [Importers -> ImporterRow]
      /\ importer' \in [Importers -> ImporterRow] /\ importer'[r] = state
      /\ \A q \in Importers \ {r} : importer'[q] = importer[q]
  BY DEF ImportInv, ImportTypes
<1>2. ImportTypes'
  BY <1>1 DEF ImportInv, ImportTypes, ChallengesKept
<1>3. ASSUME NEW q \in Importers PROVE ImporterHolds(q)'
  BY <1>1, ChallengesStay
<1>4. OpenedOnce'
  BY <1>1 DEF ImportInv, OpenedOnce
<1> QED
  BY <1>2, <1>3, <1>4, ChallengesStay DEF ImportInv

\* Stock that does not move stays sold as one unit.
LEMMA SameStock ==
  ASSUME ImportInv, UNCHANGED stock
  PROVE  stock' \in [StockUnits -> ImportedRow] /\ SoldAsOneUnit'
  BY DEF ImportInv, ImportTypes, SoldAsOneUnit

\* A handler ends, whatever the session and the Vault become.
LEMMA HandlerEnds ==
  ASSUME ImportInv, ChallengesKept, NEW r \in Importers, Stop(r), UNCHANGED <<stock, started>>,
         vault' \subseteq Credentials \cup Inputs, session' \in SessionRow
  PROVE  ImportInv'
<1>1. importer' = [importer EXCEPT ![r] = NoImport] /\ importer'[r] = NoImport
  BY DEF Stop, ImportInv, ImportTypes
<1>2. ImporterHolds(r)'
  BY <1>1, NoImportIsARow DEF ImporterHolds, At, Opening, Importing
<1>3. started' \in 0 .. MaxHandlers
  BY DEF ImportInv, ImportTypes
<1> QED
  BY <1>1, <1>2, <1>3, NoImportIsARow, SameStock, HandlerMoves DEF Opening

LEMMA DeletesOnly ==
  ASSUME ImportInv, NEW R, DeleteRefs(R)
  PROVE  vault' \subseteq Credentials \cup Inputs
  BY DEF ImportInv, ImportTypes, DeleteRefs

\* What the session may become.
LEMMA Sessions ==
  ASSUME ImportInv
  PROVE  /\ session \in SessionRow /\ NoSession \in SessionRow /\ Cancelled \in SessionRow
         /\ [NoSession EXCEPT !.status = "WAITING_INPUT", !.chosen = TRUE] \in SessionRow
         /\ [session EXCEPT !.lapsed = TRUE] \in SessionRow
         /\ [session EXCEPT !.status = "PROCESSING"] \in SessionRow
         /\ \A s \in SessionRow : Replaced(s) \in SessionRow
         /\ [session EXCEPT !.status = "READY"] \in SessionRow
         /\ [session EXCEPT !.status = "COMMITTED", !.input = NoInput] \in SessionRow
         /\ \A i \in Inputs \cup {NoInput} :
              [session EXCEPT !.status = "READY", !.input = i, !.lapsed = FALSE] \in SessionRow
<1>1. session \in SessionRow
  BY DEF ImportInv, ImportTypes
<1>2. NoSession \in SessionRow /\ Cancelled \in SessionRow
      /\ [NoSession EXCEPT !.status = "WAITING_INPUT", !.chosen = TRUE] \in SessionRow
  BY DEF NoSession, Cancelled, SessionRow, Open
<1>3. /\ [session EXCEPT !.lapsed = TRUE] \in SessionRow
      /\ [session EXCEPT !.status = "PROCESSING"] \in SessionRow
      /\ [session EXCEPT !.status = "READY"] \in SessionRow
      /\ [session EXCEPT !.status = "COMMITTED", !.input = NoInput] \in SessionRow
  BY <1>1 DEF SessionRow, Open
<1>4. ASSUME NEW i \in Inputs \cup {NoInput}
      PROVE  [session EXCEPT !.status = "READY", !.input = i, !.lapsed = FALSE] \in SessionRow
  BY <1>1 DEF SessionRow, Open
<1>5. \A s \in SessionRow : Replaced(s) \in SessionRow
  BY <1>1 DEF Replaced
<1> QED
  BY <1>1, <1>2, <1>3, <1>4, <1>5

LEMMA CancelsSession ==
  ASSUME ImportInv, CancelSession
  PROVE  session' \in SessionRow /\ vault' \subseteq Credentials \cup Inputs
  BY Sessions, DeletesOnly DEF CancelSession

\* A handler puts challenges back, or uses its own up.
LEMMA ReopensOrConsumes ==
  ASSUME ImportInv, UNCHANGED bound, NEW r \in Importers,
         Reopened(r) \/ Consumed(importer[r].door)
  PROVE  ChallengesKept
<1>0. bound' \in [Challenges -> BoundRow] /\ \A h \in Challenges : bound'[h].text = bound[h].text
  BY DEF ImportInv, ImportTypes
<1>1. challenge \in [Challenges -> ChallengeRow]
  BY DEF ImportInv, ImportTypes
<1>2. CASE Reopened(r)
  <2>1. ASSUME NEW h \in Challenges
        PROVE  /\ challenge'[h] \in ChallengeRow
               /\ challenge'[h].status = "none" <=> challenge[h].status = "none"
               /\ challenge'[h].status \in Offered =>
                    challenge[h].status \in Offered /\ challenge'[h].input = challenge[h].input
    BY <1>1, <1>2 DEF Reopened, ChallengeRow, Offered
  <2> QED
    BY <1>0, <1>2, <2>1 DEF Reopened, ChallengesKept
<1>3. CASE Consumed(importer[r].door)
  <2>1. CASE UNCHANGED challenge
    BY <2>1, SameChallenges
  <2>2. CASE ~UNCHANGED challenge
    <3> DEFINE h == importer[r].door
               row == [challenge[h] EXCEPT !.status = "CONSUMED", !.input = NoInput]
    <3>1. h \in Challenges /\ challenge[h].status = "PROCESSING"
          /\ challenge' = [challenge EXCEPT ![h] = row]
      BY <1>3, <2>2 DEF Consumed, ImportInv, ImportTypes, ImporterRow
    <3>2. row \in ChallengeRow /\ row.status = "CONSUMED"
      BY <1>1, <3>1 DEF ChallengeRow
    <3> HIDE DEF h, row
    <3> QED
      BY <1>0, <1>1, <3>1, <3>2 DEF ChallengesKept, Offered
  <2> QED
    BY <2>1, <2>2
<1> QED
  BY <1>2, <1>3

\* Units come to stock, are sold, set aside and put back.
LEMMA UnitMoves ==
  ASSUME ImportInv, NEW u \in StockUnits, NEW row \in ImportedRow, stock' = [stock EXCEPT ![u] = row],
         \/ row.status \notin {"AVAILABLE", "DELIVERED"}
         \/ row.secret = stock[u].secret /\ stock[u].status \in {"AVAILABLE", "DELIVERED"}
         \/ ~InStock(row.secret)
  PROVE  stock' \in [StockUnits -> ImportedRow] /\ SoldAsOneUnit'
<1>1. /\ stock \in [StockUnits -> ImportedRow] /\ stock' \in [StockUnits -> ImportedRow]
      /\ stock'[u] = row /\ \A v \in StockUnits \ {u} : stock'[v] = stock[v]
  BY DEF ImportInv, ImportTypes
<1>2. ASSUME NEW v \in StockUnits, v # u, row.status \in {"AVAILABLE", "DELIVERED"},
             stock[v].secret = row.secret, stock[v].status \in {"AVAILABLE", "DELIVERED"}
      PROVE  FALSE
  BY <1>2 DEF ImportInv, SoldAsOneUnit, InStock, Indexed
<1>3. SoldAsOneUnit'
  <2> SUFFICES ASSUME NEW v \in StockUnits, NEW w \in StockUnits, v # w,
                      stock'[v].secret = stock'[w].secret,
                      stock'[v].status \in {"AVAILABLE", "DELIVERED"},
                      stock'[w].status \in {"AVAILABLE", "DELIVERED"}
               PROVE  FALSE
    BY DEF SoldAsOneUnit
  <2>1. CASE v # u /\ w # u
    BY <1>1, <2>1 DEF ImportInv, SoldAsOneUnit
  <2>2. CASE v = u
    BY <1>1, <1>2, <2>2
  <2>3. CASE w = u
    BY <1>1, <1>2, <2>3
  <2> QED
    BY <2>1, <2>2, <2>3
<1> QED
  BY <1>1, <1>3

\* What happens beside the handlers.
LEMMA AroundStep ==
  ASSUME ImportInv, AroundThem, UNCHANGED started
  PROVE  ImportInv'
<1>0. /\ session \in SessionRow /\ vault \subseteq Credentials \cup Inputs
      /\ challenge \in [Challenges -> ChallengeRow] /\ stock \in [StockUnits -> ImportedRow]
      /\ importer \in [Importers -> ImporterRow] /\ started \in 0 .. MaxHandlers
      /\ bound \in [Challenges -> BoundRow]
  BY DEF ImportInv, ImportTypes
<1>1. ASSUME ChallengesKept, UNCHANGED importer, stock' \in [StockUnits -> ImportedRow],
             SoldAsOneUnit', vault' \subseteq Credentials \cup Inputs, session' \in SessionRow
      PROVE  ImportInv'
  <2>1. ImportTypes'
    BY <1>0, <1>1 DEF ImportInv, ImportTypes, ChallengesKept
  <2>2. OpenedOnce'
    BY <1>1 DEF ImportInv, OpenedOnce
  <2>3. \A q \in Importers : importer'[q] = importer[q]
    BY <1>1
  <2> QED
    BY <1>1, <2>1, <2>2, <2>3, ChallengesStay DEF ImportInv
<1>2. CASE StartSession
  BY <1>0, <1>1, <1>2, Sessions, SameStock, SameChallenges DEF StartSession
<1>3. CASE Cancel
  BY <1>1, <1>3, CancelsSession, SameStock, SameChallenges DEF Cancel
<1>4. CASE ForgetSession \/ LapseSession
  BY <1>0, <1>1, <1>4, Sessions, SameStock, SameChallenges DEF ForgetSession, LapseSession
<1>5. ASSUME NEW h \in Challenges, ExpireChallenge(h) PROVE ImportInv'
  <2> DEFINE row == [challenge[h] EXCEPT !.status = "EXPIRED", !.input = NoInput]
  <2>1. row \in ChallengeRow /\ row.status = "EXPIRED" /\ challenge[h].status # "none"
        /\ challenge' = [challenge EXCEPT ![h] = row] /\ UNCHANGED <<stock, bound, importer>>
    BY <1>0, <1>5 DEF ExpireChallenge, ChallengeRow
  <2>2. vault' \subseteq Credentials \cup Inputs /\ session' \in SessionRow
    BY <1>5, Sessions, DeletesOnly DEF ExpireChallenge
  <2> HIDE DEF row
  <2>3. ChallengesKept
    BY <1>0, <2>1 DEF ChallengesKept, Offered
  <2> QED
    BY <1>1, <2>1, <2>2, <2>3, SameStock
<1>6. ASSUME NEW h \in Challenges, LapseChallenge(h) PROVE ImportInv'
  <2> DEFINE row == [challenge[h] EXCEPT !.lapsed = TRUE]
  <2>1. /\ row \in ChallengeRow /\ row.status = challenge[h].status
        /\ row.input = challenge[h].input /\ challenge' = [challenge EXCEPT ![h] = row]
        /\ UNCHANGED <<stock, vault, session, bound, importer>>
    BY <1>0, <1>6 DEF LapseChallenge, ChallengeRow
  <2> HIDE DEF row
  <2>2. ChallengesKept
    BY <1>0, <2>1 DEF ChallengesKept
  <2> QED
    BY <1>0, <1>1, <2>1, <2>2, SameStock
<1>7. ASSUME NEW u \in StockUnits, SellUnit(u) \/ Quarantine(u) \/ Restore(u) \/ Revoke(u)
      PROVE  ImportInv'
  <2>1. PICK to \in UnitStatuses :
          /\ stock' = [stock EXCEPT ![u].status = to]
          /\ \/ to \notin {"AVAILABLE", "DELIVERED"}
             \/ stock[u].status = "AVAILABLE"
             \/ ~InStock(stock[u].secret)
    BY <1>7 DEF SellUnit, Quarantine, Restore, Revoke, Move, UnitStatuses
  <2> DEFINE row == [stock[u] EXCEPT !.status = to]
  <2>2. /\ row \in ImportedRow /\ row.secret = stock[u].secret /\ row.status = to
        /\ stock' = [stock EXCEPT ![u] = row]
    BY <1>0, <2>1 DEF ImportedRow
  <2> HIDE DEF row
  <2>3. stock' \in [StockUnits -> ImportedRow] /\ SoldAsOneUnit'
    BY <2>1, <2>2, UnitMoves
  <2>4. UNCHANGED <<vault, session, challenge, bound, importer>>
    BY <1>7 DEF SellUnit, Quarantine, Restore, Revoke, Move
  <2> QED
    BY <1>0, <1>1, <2>3, <2>4, SameChallenges
<1> QED
  BY <1>2, <1>3, <1>4, <1>5, <1>6, <1>7 DEF AroundThem

\* A handler is started.
LEMMA StartStep ==
  ASSUME ImportInv, HandlerStarts
  PROVE  ImportInv'
<1>0. /\ session \in SessionRow /\ vault \subseteq Credentials \cup Inputs
      /\ challenge \in [Challenges -> ChallengeRow]
      /\ importer \in [Importers -> ImporterRow] /\ started \in 0 .. MaxHandlers
      /\ bound \in [Challenges -> BoundRow] /\ MaxHandlers \in Nat
  BY ImportAssumption DEF ImportInv, ImportTypes
<1>1. ASSUME NEW r \in Importers, Starts(r)
      PROVE  /\ started' \in 0 .. MaxHandlers /\ importer[r] \in ImporterRow
             /\ importer[r].at = "idle" /\ importer[r].door = NoChallenge
  BY <1>0, <1>1 DEF Starts, At, ImportInv, ImporterHolds
<1>2. ASSUME NEW r \in Importers, ConfirmInChat(r) PROVE ImportInv'
  <2> DEFINE state == [importer[r] EXCEPT !.at = "revealing", !.input = session.input]
  <2>1. Starts(r) /\ session.input # NoInput /\ UNCHANGED <<stock, vault, challenge, bound>>
        /\ session' \in SessionRow /\ importer' = [importer EXCEPT ![r] = state]
    BY <1>2, Sessions DEF ConfirmInChat, Confirmable, Prepare
  <2>2. /\ state \in ImporterRow /\ state.at = "revealing" /\ state.door = NoChallenge
        /\ state.input = session.input
    BY <1>0, <1>1, <2>1 DEF ImporterRow, SessionRow, Importing
  <2> HIDE DEF state
  <2>3. ImporterHolds(r)'
    BY <1>0, <2>1, <2>2 DEF ImporterHolds, At, Opening, Importing
  <2> QED
    BY <1>0, <1>1, <2>1, <2>2, <2>3, SameStock, SameChallenges, HandlerMoves DEF Opening
<1>3. ASSUME NEW r \in Importers, NEW i \in Inputs, StageText(r, i) PROVE ImportInv'
  <2> DEFINE state == [NoImport EXCEPT !.at = "binding", !.input = i, !.seen = session.input,
                                       !.door = NoChallenge, !.ready = TRUE]
  <2>1. Starts(r) /\ vault' = vault \cup {i} /\ UNCHANGED <<stock, session, challenge, bound>>
        /\ importer' = [importer EXCEPT ![r] = state]
    BY <1>3 DEF StageText, Staged
  <2>2. /\ state \in ImporterRow /\ state.at = "binding" /\ state.door = NoChallenge
        /\ state.input = i /\ i # NoInput
    BY <1>0, NoImportIsARow, ImportAssumption DEF ImporterRow, SessionRow, Opening
  <2> HIDE DEF state
  <2>3. ImporterHolds(r)'
    BY <1>0, <2>1, <2>2 DEF ImporterHolds, At, Opening, Importing
  <2>4. vault' \subseteq Credentials \cup Inputs /\ session' \in SessionRow
    BY <1>0, <2>1
  <2> QED
    BY <1>1, <2>1, <2>2, <2>3, <2>4, SameStock, SameChallenges, HandlerMoves
<1>4. ASSUME NEW r \in Importers, NEW h \in Challenges, TakeChallenge(r, h) PROVE ImportInv'
  <2> DEFINE state == [NoImport EXCEPT !.at = "checking", !.input = challenge[h].input, !.door = h]
             row == [challenge[h] EXCEPT !.status = "PROCESSING"]
  <2>1. /\ Starts(r) /\ challenge[h].status \in Offered /\ UNCHANGED <<stock, vault, session, bound>>
        /\ challenge' = [challenge EXCEPT ![h] = row] /\ importer' = [importer EXCEPT ![r] = state]
    BY <1>4 DEF TakeChallenge, Offered
  <2>2. challenge[h].input = bound[h].text /\ bound[h].text # NoInput
    BY <2>1 DEF ImportInv, ChallengeHolds
  <2>3. /\ state \in ImporterRow /\ state.at = "checking" /\ state.door = h
        /\ state.input = challenge[h].input
    BY <1>0, NoImportIsARow DEF ImporterRow, ChallengeRow, Importing
  <2>4. /\ row \in ChallengeRow /\ row.status = "PROCESSING" /\ row.input = challenge[h].input
    BY <1>0 DEF ChallengeRow
  <2> HIDE DEF state, row
  <2>5. ChallengesKept
    BY <1>0, <2>1, <2>4 DEF ChallengesKept, Offered
  <2>6. importer'[r] = state /\ challenge'[h] = row /\ bound'[h] = bound[h] /\ h # NoChallenge
    BY <1>0, <2>1, ImportAssumption
  <2>7. ImporterHolds(r)'
    BY <2>2, <2>3, <2>4, <2>6 DEF ImporterHolds, At, Opening, Importing
  <2> QED
    BY <1>0, <1>1, <2>1, <2>3, <2>5, <2>7, SameStock, HandlerMoves DEF Opening
<1>5. ASSUME NEW r \in Importers, NEW h \in Challenges, NEW i \in Inputs, OpenForSheet(r, h, i)
      PROVE  ImportInv'
  <2> DEFINE state == [NoImport EXCEPT !.at = "staging", !.input = i, !.door = h]
  <2>1. /\ Starts(r) /\ challenge[h].status = "none" /\ \A q \in Importers : importer[q].door # h
        /\ importer' = [importer EXCEPT ![r] = state] /\ UNCHANGED <<stock, bound>>
        /\ session' \in SessionRow
    BY <1>5, Sessions DEF OpenForSheet
  <2>2. vault' \subseteq Credentials \cup Inputs
    BY <1>5, DeletesOnly DEF OpenForSheet
  <2>3. /\ state \in ImporterRow /\ state.at = "staging" /\ state.door = h /\ state.input = i
        /\ i # NoInput /\ h # NoChallenge
    BY NoImportIsARow, ImportAssumption DEF ImporterRow, Opening
  <2>4. ChallengesKept
    <3>1. ASSUME NEW g \in Challenges
          PROVE  \/ challenge'[g] = challenge[g]
                 \/ /\ challenge'[g] = [challenge[g] EXCEPT !.status = "EXPIRED", !.input = NoInput]
                    /\ challenge[g].status # "none"
      BY <1>5 DEF OpenForSheet, Previewed
    <3>2. ASSUME NEW g \in Challenges
          PROVE  /\ challenge'[g] \in ChallengeRow
                 /\ challenge'[g].status = "none" <=> challenge[g].status = "none"
                 /\ challenge'[g].status \in Offered => challenge'[g] = challenge[g]
      <4> DEFINE row == [challenge[g] EXCEPT !.status = "EXPIRED", !.input = NoInput]
      <4>1. row \in ChallengeRow /\ row.status = "EXPIRED" /\ challenge[g] \in ChallengeRow
        BY <1>0 DEF ChallengeRow
      <4>2. challenge'[g] = challenge[g] \/ (challenge'[g] = row /\ challenge[g].status # "none")
        BY <3>1
      <4> HIDE DEF row
      <4> QED
        BY <4>1, <4>2 DEF Offered
    <3>3. challenge' \in [Challenges -> ChallengeRow]
      BY <1>5, <3>2 DEF OpenForSheet
    <3> QED
      BY <1>0, <2>1, <3>2, <3>3 DEF ChallengesKept
  <2> HIDE DEF state
  <2>5. importer'[r] = state /\ challenge'[h].status = "none"
    BY <1>0, <2>1, <2>4 DEF ChallengesKept
  <2>6. ImporterHolds(r)'
    BY <2>3, <2>5 DEF ImporterHolds, At, Opening, Importing
  <2> QED
    BY <1>1, <2>1, <2>2, <2>3, <2>4, <2>6, SameStock, HandlerMoves
<1> QED
  BY <1>2, <1>3, <1>4, <1>5 DEF HandlerStarts

\* A handler goes on, with its door, to a step where it may stand.
LEMMA GoesOn ==
  ASSUME ImportInv, ChallengesKept, NEW r \in Importers, NEW state \in ImporterRow,
         importer' = [importer EXCEPT ![r] = state], UNCHANGED started,
         stock' \in [StockUnits -> ImportedRow], SoldAsOneUnit',
         vault' \subseteq Credentials \cup Inputs, session' \in SessionRow,
         ~At(r, "idle"), state.at # "idle", state.door = importer[r].door,
         state.input = importer[r].input,
         \/ importer[r].at \in Importing /\ state.at \in Importing \ {"preparing"}
         \/ importer[r].at = "checking" /\ state.at = "preparing"
         \/ importer[r].at \in Opening /\ state.at \in Opening \ {"staging", "issuing"}
         \/ importer[r].at = "binding" /\ state.at = "issuing" /\ state.door # NoChallenge,
         state.at = "checking" => state.door # NoChallenge,
         state.at = "inserting" => state.todo # <<>>
  PROVE  ImportInv'
<1>1. importer'[r] = state /\ importer[r] \in ImporterRow /\ ImporterHolds(r)
      /\ started' \in 0 .. MaxHandlers
  BY DEF ImportInv, ImportTypes
<1>2. state.door # NoChallenge =>
        /\ state.door \in Challenges /\ bound'[state.door].text = bound[state.door].text
        /\ challenge'[state.door].status = "none" <=> challenge[state.door].status = "none"
  BY DEF ImporterRow, ChallengesKept
<1>3. ImporterHolds(r)'
  BY <1>1, <1>2 DEF ImporterHolds, At, Opening, Importing
<1>4. state.at \in Opening => importer[r].at \in Opening
  BY DEF Opening, Importing
<1> QED
  BY <1>1, <1>3, <1>4, HandlerMoves

\* A text that is staged changes no challenge.
LEMMA RestagingKeeps ==
  ASSUME ImportInv, UNCHANGED challenge, NEW r \in Importers, Restages(r)
  PROVE  /\ ChallengesKept
         /\ \A h \in Challenges : bound'[h].shown = bound[h].shown
         /\ \A h \in Challenges : bound[h].restaged => bound'[h].restaged
<1>1. challenge \in [Challenges -> ChallengeRow] /\ bound \in [Challenges -> BoundRow]
  BY DEF ImportInv, ImportTypes
<1>2. ASSUME NEW h \in Challenges
      PROVE  /\ bound'[h] \in BoundRow /\ bound'[h].text = bound[h].text
             /\ bound'[h].shown = bound[h].shown
             /\ bound[h].restaged => bound'[h].restaged
  <2> DEFINE row == [bound[h] EXCEPT !.restaged = TRUE]
  <2>1. /\ row \in BoundRow /\ row.text = bound[h].text /\ row.shown = bound[h].shown
        /\ row.restaged
    BY <1>1 DEF BoundRow
  <2>2. bound'[h] \in {row, bound[h]}
    BY DEF Restages
  <2> HIDE DEF row
  <2> QED
    BY <1>1, <2>1, <2>2
<1>3. bound' \in [Challenges -> BoundRow]
  BY <1>2 DEF Restages
<1>4. ChallengesKept
  BY <1>1, <1>2, <1>3 DEF ChallengesKept
<1> QED
  BY <1>2, <1>4

\* The chat's and the sheet's text on its way to the session.
LEMMA StagingStep ==
  ASSUME ImportInv, UNCHANGED started, NEW r \in Importers,
         \/ StageForSheet(r) \/ StagingIsRefused(r) \/ BindText(r) \/ BindFails(r)
         \/ NoChallengeIsIssued(r)
  PROVE  ImportInv'
<1>0. /\ session \in SessionRow /\ vault \subseteq Credentials \cup Inputs
      /\ importer[r] \in ImporterRow /\ ImporterHolds(r)
  BY DEF ImportInv, ImportTypes
<1>1. UNCHANGED <<stock, challenge>> /\ ChallengesKept
  BY SameChallenges, RestagingKeeps DEF StageForSheet, StagingIsRefused, BindText, BindFails, NoChallengeIsIssued
<1>2. CASE StageForSheet(r)
  <2> DEFINE i == importer[r].input
  <2>1. PICK ready \in BOOLEAN : Staged(r, i, importer[r].door, ready)
    BY <1>2 DEF StageForSheet
  <2> DEFINE state == [NoImport EXCEPT !.at = "binding", !.input = i, !.seen = session.input,
                                       !.door = importer[r].door, !.ready = ready]
  <2>2. /\ importer[r].at = "staging" /\ UNCHANGED session /\ importer' = [importer EXCEPT ![r] = state]
        /\ vault' = vault \cup {i} /\ i # NoInput
    BY <1>0, <1>2, <2>1 DEF StageForSheet, Staged, At, ImporterHolds
  <2>3. /\ state \in ImporterRow /\ state.at = "binding" /\ state.door = importer[r].door
        /\ state.input = importer[r].input
    BY <1>0, NoImportIsARow DEF ImporterRow, SessionRow, Opening
  <2>4. vault' \subseteq Credentials \cup Inputs /\ session' \in SessionRow
    BY <1>0, <2>2 DEF ImporterRow
  <2> HIDE DEF state
  <2> QED
    BY <1>1, <2>2, <2>3, <2>4, SameStock, GoesOn DEF Opening, At
<1>3. CASE StagingIsRefused(r)
  <2>1. vault' \subseteq Credentials \cup Inputs /\ session' \in SessionRow
    BY <1>0, <1>3, Sessions, CancelsSession DEF StagingIsRefused
  <2> QED
    BY <1>1, <1>3, <2>1, HandlerEnds DEF StagingIsRefused
<1>4. CASE NoChallengeIsIssued(r)
  <2>1. vault' \subseteq Credentials \cup Inputs /\ session' \in SessionRow
    BY <1>0, <1>4, Sessions, CancelsSession DEF NoChallengeIsIssued
  <2> QED
    BY <1>1, <1>4, <2>1, HandlerEnds DEF NoChallengeIsIssued
<1>5. CASE BindFails(r)
  <2>1. vault' \subseteq Credentials \cup Inputs /\ session' \in SessionRow
    BY <1>0, <1>5, CancelsSession DEF BindFails
  <2> QED
    BY <1>1, <1>5, <2>1, HandlerEnds DEF BindFails
<1>6. CASE BindText(r)
  <2>1. vault' \subseteq Credentials \cup Inputs
    BY <1>6, DeletesOnly DEF BindText
  <2>2. session' \in SessionRow
    <3>1. importer[r].input \in Inputs \cup {NoInput}
      BY <1>0 DEF ImporterRow
    <3> QED
      BY <1>6, <3>1, Sessions DEF BindText
  <2>3. CASE Stop(r)
    BY <1>1, <2>1, <2>2, <2>3, HandlerEnds
  <2>4. CASE GoTo(r, "issuing") /\ importer[r].door # NoChallenge
    <3> DEFINE state == [importer[r] EXCEPT !.at = "issuing"]
    <3>1. /\ state \in ImporterRow /\ state.at = "issuing" /\ state.door = importer[r].door
          /\ state.input = importer[r].input
      BY <1>0 DEF ImporterRow, Opening
    <3>2. importer' = [importer EXCEPT ![r] = state] /\ importer[r].at = "binding"
      BY <1>6, <2>4 DEF GoTo, BindText, At
    <3> HIDE DEF state
    <3> QED
      BY <1>1, <2>1, <2>2, <2>4, <3>1, <3>2, SameStock, GoesOn DEF At
  <2> QED
    BY <1>6, <2>3, <2>4 DEF BindText, AfterBind
<1> QED
  BY <1>2, <1>3, <1>4, <1>5, <1>6

\* The sheet's door gets its challenge: nobody else came through it, and
\* nobody has taken it.
LEMMA IssueStep ==
  ASSUME ImportInv, UNCHANGED started, NEW r \in Importers, IssueChallenge(r)
  PROVE  ImportInv'
<1>0. /\ session \in SessionRow /\ challenge \in [Challenges -> ChallengeRow]
      /\ bound \in [Challenges -> BoundRow]
      /\ importer \in [Importers -> ImporterRow] /\ ImporterHolds(r)
  BY DEF ImportInv, ImportTypes
<1>1. PICK h \in Challenges : h = importer[r].door
  BY <1>0 DEF IssueChallenge, At, ImporterHolds, ImporterRow
<1>2. h # NoChallenge /\ importer[r].at = "issuing" /\ challenge[h].status = "none"
  BY <1>0, <1>1, ImportAssumption DEF IssueChallenge, At, ImporterHolds, Opening
<1> DEFINE row == [status |-> "PREVIEWED", input |-> session.input, lapsed |-> FALSE]
           issued == [bound[h] EXCEPT !.shown = importer[r].input, !.text = session.input]
<1>3. /\ row \in ChallengeRow /\ row.status = "PREVIEWED" /\ row.input = session.input
      /\ session.input # NoInput /\ session.input \in Inputs \cup {NoInput}
  BY <1>0 DEF IssueChallenge, SessionRow, ChallengeRow
<1>b. issued \in BoundRow /\ issued.text = session.input
  <2>1. importer[r].input \in Inputs \cup {NoInput}
    BY <1>0 DEF ImporterRow
  <2> QED
    BY <1>0, <1>3, <2>1 DEF BoundRow
<1>4. /\ challenge' = [challenge EXCEPT ![h] = row] /\ bound' = [bound EXCEPT ![h] = issued]
      /\ importer' = [importer EXCEPT ![r] = NoImport] /\ UNCHANGED <<stock, vault, session>>
  BY <1>0, <1>1 DEF IssueChallenge, Stop
<1> HIDE DEF row, issued
<1>5. ASSUME NEW q \in Importers, q # r PROVE importer[q].door # h
  <2> SUFFICES ASSUME importer[q].door = h PROVE FALSE
    OBVIOUS
  <2>1. ImporterHolds(q) /\ importer[q].at \in {"idle"} \cup Opening \cup Importing
    BY <1>0 DEF ImportInv, ImporterRow
  <2>2. importer[q].at \in Opening
    BY <1>2, <2>1 DEF ImporterHolds, At
  <2> QED
    BY <1>1, <1>2, <1>5, <2>2 DEF ImportInv, OpenedOnce, Opening
<1>6. /\ importer' \in [Importers -> ImporterRow] /\ importer'[r] = NoImport
      /\ \A q \in Importers \ {r} : importer'[q] = importer[q]
      /\ challenge' \in [Challenges -> ChallengeRow] /\ challenge'[h] = row /\ bound'[h].text = session.input
      /\ bound' \in [Challenges -> BoundRow]
      /\ \A g \in Challenges \ {h} : challenge'[g] = challenge[g] /\ bound'[g] = bound[g]
  BY <1>0, <1>3, <1>b, <1>4, NoImportIsARow
<1>7. ImportTypes'
  BY <1>4, <1>6 DEF ImportInv, ImportTypes
<1>8. SoldAsOneUnit'
  BY <1>4, SameStock
<1>9. ASSUME NEW g \in Challenges PROVE ChallengeHolds(g)'
  BY <1>3, <1>6 DEF ImportInv, ChallengeHolds
<1>10. ASSUME NEW q \in Importers PROVE ImporterHolds(q)'
  <2>1. CASE q = r
    BY <1>6, <2>1, NoImportIsARow DEF ImporterHolds, At, Opening, Importing
  <2>2. CASE q # r
    <3>1. /\ importer'[q] = importer[q] /\ ImporterHolds(q) /\ importer[q].door # h
          /\ importer[q].door \in Challenges \cup {NoChallenge}
      BY <1>0, <1>5, <1>6, <2>2 DEF ImportInv, ImporterRow
    <3> QED
      BY <1>6, <3>1 DEF ImporterHolds, At
  <2> QED
    BY <2>1, <2>2
<1>11. OpenedOnce'
  BY <1>6, NoImportIsARow DEF ImportInv, OpenedOnce, Opening
<1> QED
  BY <1>7, <1>8, <1>9, <1>10, <1>11 DEF ImportInv

\* A confirmation of the sheet that ends, imported or not.
LEMMA ConfirmationEnds ==
  ASSUME ImportInv, UNCHANGED started, NEW r \in Importers,
         \/ SheetFindsCommitted(r) \/ SheetIsRefused(r) \/ SheetFindsChanged(r)
         \/ SettleCommitted(r) \/ SheetIsBusy(r) \/ DropText(r)
         \/ WriteFails(r) \/ InsertFails(r) \/ ImporterDies(r)
         \/ (RevealText(r) /\ Failed(r))
  PROVE  ImportInv'
<1>0. /\ session \in SessionRow /\ vault \subseteq Credentials \cup Inputs
      /\ challenge \in [Challenges -> ChallengeRow]
      /\ importer[r] \in ImporterRow /\ ImporterHolds(r)
  BY DEF ImportInv, ImportTypes
<1>1. CASE SheetFindsCommitted(r) \/ SettleCommitted(r) \/ DropText(r)
  <2>1. ChallengesKept
    BY <1>1, ReopensOrConsumes DEF SheetFindsCommitted, SettleCommitted, DropText
  <2>2. vault' \subseteq Credentials \cup Inputs /\ session' \in SessionRow
    BY <1>0, <1>1, DeletesOnly DEF SheetFindsCommitted, SettleCommitted, DropText
  <2> QED
    BY <1>1, <2>1, <2>2, HandlerEnds DEF SheetFindsCommitted, SettleCommitted, DropText
<1>2. CASE SheetIsRefused(r)
  <2>1. ChallengesKept
    BY <1>2, ReopensOrConsumes DEF SheetIsRefused
  <2>2. vault' \subseteq Credentials \cup Inputs /\ session' \in SessionRow
    BY <1>0, <1>2, DeletesOnly, Sessions DEF SheetIsRefused
  <2> QED
    BY <1>2, <2>1, <2>2, HandlerEnds DEF SheetIsRefused
<1>3. CASE SheetFindsChanged(r)
  <2>1. vault' \subseteq Credentials \cup Inputs /\ session' \in SessionRow
    BY <1>0, <1>3, DeletesOnly, Sessions DEF SheetFindsChanged
  <2>2. ChallengesKept
    <3>0. bound \in [Challenges -> BoundRow]
      BY DEF ImportInv, ImportTypes
    <3> DEFINE h == importer[r].door
               row == [challenge[h] EXCEPT !.status = "EXPIRED", !.input = NoInput]
    <3>1. h \in Challenges /\ UNCHANGED bound
      BY <1>0, <1>3 DEF SheetFindsChanged, ImporterHolds, ImporterRow, At
    <3>2. \/ UNCHANGED challenge
          \/ /\ challenge[h].status \in {"PROCESSING", "EXPIRED"}
             /\ challenge' = [challenge EXCEPT ![h] = row]
      BY <1>3 DEF SheetFindsChanged
    <3>3. row \in ChallengeRow /\ row.status = "EXPIRED"
      BY <1>0, <3>1 DEF ChallengeRow
    <3> HIDE DEF h, row
    <3> QED
      BY <1>0, <3>0, <3>1, <3>2, <3>3, SameChallenges DEF ChallengesKept, Offered
  <2> QED
    BY <1>3, <2>1, <2>2, HandlerEnds DEF SheetFindsChanged
<1>4. CASE SheetIsBusy(r) \/ ImporterDies(r)
  <2>1. ChallengesKept
    BY <1>4, SameChallenges DEF SheetIsBusy, ImporterDies
  <2>2. vault' \subseteq Credentials \cup Inputs /\ session' \in SessionRow
    BY <1>0, <1>4, Sessions DEF SheetIsBusy, ImporterDies
  <2> QED
    BY <1>4, <2>1, <2>2, HandlerEnds DEF SheetIsBusy, ImporterDies
<1>5. CASE WriteFails(r) \/ InsertFails(r) \/ (RevealText(r) /\ Failed(r))
  <2>1. Failed(r) /\ UNCHANGED <<stock, bound>>
    BY <1>5 DEF WriteFails, InsertFails, RevealText
  <2>2. vault' \subseteq Credentials \cup Inputs
    BY <1>0, <1>5, DeletesOnly DEF WriteFails, InsertFails, RevealText
  <2>3. ChallengesKept /\ session' \in SessionRow /\ Stop(r)
    BY <2>1, ReopensOrConsumes, Sessions DEF Failed
  <2> QED
    BY <2>1, <2>2, <2>3, HandlerEnds
<1> QED
  BY <1>1, <1>2, <1>3, <1>4, <1>5

\* The import goes on: the text that was confirmed, line by line.
LEMMA ImportingStep ==
  ASSUME ImportInv, UNCHANGED started, NEW r \in Importers,
         \/ SheetMayImport(r) \/ ConfirmForSheet(r) \/ (RevealText(r) /\ ~Failed(r))
         \/ WriteSecret(r) \/ DuplicateLine(r) \/ Commit(r)
         \/ \E u \in StockUnits : InsertUnit(r, u)
  PROVE  ImportInv'
<1>0. /\ session \in SessionRow /\ vault \subseteq Credentials \cup Inputs
      /\ stock \in [StockUnits -> ImportedRow]
      /\ importer[r] \in ImporterRow /\ ImporterHolds(r)
  BY DEF ImportInv, ImportTypes
<1>1. CASE SheetMayImport(r)
  <2> DEFINE state == [importer[r] EXCEPT !.at = "preparing"]
  <2>1. /\ state \in ImporterRow /\ state.at = "preparing" /\ state.door = importer[r].door
        /\ state.input = importer[r].input
    BY <1>0 DEF ImporterRow, Importing
  <2>2. importer' = [importer EXCEPT ![r] = state] /\ importer[r].at = "checking"
        /\ UNCHANGED <<stock, vault, session, bound>>
    BY <1>1 DEF SheetMayImport, GoTo, At
  <2>3. ChallengesKept
    BY <1>1, <2>2, ReopensOrConsumes DEF SheetMayImport
  <2> HIDE DEF state
  <2> QED
    BY <1>0, <2>1, <2>2, <2>3, SameStock, GoesOn DEF At
<1>2. CASE ConfirmForSheet(r)
  <2> DEFINE state == [importer[r] EXCEPT !.at = "revealing", !.input = session.input]
  <2>1. session.input = importer[r].input
    BY <1>0, <1>2 DEF ConfirmForSheet, ExpectedInput, ImporterHolds, At
  <2>2. /\ state \in ImporterRow /\ state.at = "revealing" /\ state.door = importer[r].door
        /\ state.input = importer[r].input
    BY <1>0, <2>1 DEF ImporterRow, SessionRow, Importing
  <2>3. importer' = [importer EXCEPT ![r] = state] /\ importer[r].at = "preparing"
        /\ UNCHANGED <<stock, vault, challenge, bound>> /\ session' \in SessionRow
    BY <1>2, Sessions DEF ConfirmForSheet, Prepare, At
  <2> HIDE DEF state
  <2> QED
    BY <1>0, <2>2, <2>3, SameStock, SameChallenges, GoesOn DEF At, Importing
<1>3. CASE RevealText(r) /\ ~Failed(r)
  <2> DEFINE state == [importer[r] EXCEPT !.at = "writing", !.todo = LinesOf[importer[r].input]]
  <2>1. importer' = [importer EXCEPT ![r] = state] /\ importer[r].at = "revealing"
        /\ UNCHANGED <<stock, vault, session, challenge, bound>>
    BY <1>3 DEF RevealText, At
  <2>2. importer[r].input \in Inputs
    BY <1>0, <2>1 DEF ImporterHolds, ImporterRow, At
  <2>3. LinesOf[importer[r].input] \in Seq(Credentials)
    BY <2>2, ImportAssumption
  <2>4. /\ state \in ImporterRow /\ state.at = "writing" /\ state.door = importer[r].door
        /\ state.input = importer[r].input
    BY <1>0, <2>3 DEF ImporterRow, Importing
  <2> HIDE DEF state
  <2> QED
    BY <1>0, <2>1, <2>4, SameStock, SameChallenges, GoesOn DEF At, Importing
<1>4. CASE WriteSecret(r)
  <2> DEFINE state == [importer[r] EXCEPT !.at = "inserting"]
  <2>1. importer' = [importer EXCEPT ![r] = state] /\ importer[r].at = "writing"
        /\ importer[r].todo # <<>> /\ importer[r].todo \in Seq(Credentials)
        /\ vault' = vault \cup {Head(importer[r].todo)}
        /\ UNCHANGED <<stock, session, challenge, bound>>
    BY <1>0, <1>4 DEF WriteSecret, GoTo, At, ImporterRow
  <2>2. vault' \subseteq Credentials \cup Inputs
    BY <1>0, <2>1
  <2>3. /\ state \in ImporterRow /\ state.at = "inserting" /\ state.door = importer[r].door
        /\ state.input = importer[r].input /\ state.todo = importer[r].todo
    BY <1>0 DEF ImporterRow, Importing
  <2> HIDE DEF state
  <2> QED
    BY <1>0, <2>1, <2>2, <2>3, SameStock, SameChallenges, GoesOn DEF At, Importing
<1>5. ASSUME NextLine(r), At(r, "inserting"), UNCHANGED <<session, challenge, bound>>,
             stock' \in [StockUnits -> ImportedRow], SoldAsOneUnit',
             vault' \subseteq Credentials \cup Inputs
      PROVE  ImportInv'
  <2> DEFINE state == [importer[r] EXCEPT !.at = "writing", !.todo = Tail(@)]
  <2>1. importer' = [importer EXCEPT ![r] = state] /\ importer[r].at = "inserting"
    BY <1>5 DEF NextLine, At
  <2>2. Tail(importer[r].todo) \in Seq(Credentials)
    BY <1>0, <1>5 DEF ImporterHolds, ImporterRow
  <2>3. /\ state \in ImporterRow /\ state.at = "writing" /\ state.door = importer[r].door
        /\ state.input = importer[r].input
    BY <1>0, <2>2 DEF ImporterRow, Importing
  <2> HIDE DEF state
  <2> QED
    BY <1>0, <1>5, <2>1, <2>3, SameChallenges, GoesOn DEF At, Importing
<1>6. CASE DuplicateLine(r)
  BY <1>5, <1>6, DeletesOnly, SameStock DEF DuplicateLine
<1>7. ASSUME NEW u \in StockUnits, InsertUnit(r, u) PROVE ImportInv'
  <2> DEFINE c == Head(importer[r].todo)
             row == [secret |-> c, status |-> "AVAILABLE"]
  <2>1. c \in Credentials
    BY <1>0, <1>7 DEF InsertUnit, ImporterHolds, ImporterRow, At
  <2>2. row \in ImportedRow /\ row.secret = c /\ ~InStock(c) /\ stock' = [stock EXCEPT ![u] = row]
    BY <1>7, <2>1 DEF InsertUnit, ImportedRow, UnitStatuses
  <2> HIDE DEF c, row
  <2>3. stock' \in [StockUnits -> ImportedRow] /\ SoldAsOneUnit'
    BY <2>2, UnitMoves
  <2> QED
    BY <1>0, <1>5, <1>7, <2>3 DEF InsertUnit
<1>8. CASE Commit(r)
  <2> DEFINE state == [importer[r] EXCEPT !.at = "dropping"]
  <2>1. importer' = [importer EXCEPT ![r] = state] /\ importer[r].at = "writing"
        /\ UNCHANGED <<stock, vault, challenge, bound>> /\ session' \in SessionRow
    BY <1>8, Sessions DEF Commit, GoTo, At
  <2>2. /\ state \in ImporterRow /\ state.at = "dropping" /\ state.door = importer[r].door
        /\ state.input = importer[r].input
    BY <1>0 DEF ImporterRow, Importing
  <2> HIDE DEF state
  <2> QED
    BY <1>0, <2>1, <2>2, SameStock, SameChallenges, GoesOn DEF At, Importing
<1> QED
  BY <1>1, <1>2, <1>3, <1>4, <1>6, <1>7, <1>8

LEMMA NextImport == ImportInv /\ [ImportNext]_importVars => ImportInv'
<1> SUFFICES ASSUME ImportInv, [ImportNext]_importVars PROVE ImportInv'
  OBVIOUS
<1>1. CASE UNCHANGED importVars
  BY <1>1 DEF importVars, ImportInv, ImportTypes, SoldAsOneUnit, ChallengeHolds, ImporterHolds,
     OpenedOnce, At
<1>2. CASE HandlerStarts
  BY <1>2, StartStep
<1>3. CASE HandlerGoesOn /\ UNCHANGED started
  <2>1. ASSUME NEW r \in Importers, RevealText(r) PROVE ImportInv'
    BY <1>3, <2>1, ConfirmationEnds, ImportingStep
  <2>2. ASSUME NEW r \in Importers, NEW u \in StockUnits, InsertUnit(r, u) PROVE ImportInv'
    BY <1>3, <2>2, ImportingStep
  <2>3. ASSUME NEW r \in Importers,
               \/ SheetFindsCommitted(r) \/ SheetIsRefused(r) \/ SheetFindsChanged(r)
               \/ SettleCommitted(r) \/ SheetIsBusy(r) \/ DropText(r)
               \/ WriteFails(r) \/ InsertFails(r) \/ ImporterDies(r)
        PROVE  ImportInv'
    BY <1>3, <2>3, ConfirmationEnds
  <2>4. ASSUME NEW r \in Importers,
               \/ SheetMayImport(r) \/ ConfirmForSheet(r) \/ WriteSecret(r)
               \/ DuplicateLine(r) \/ Commit(r)
        PROVE  ImportInv'
    <3>1. UNCHANGED started
      BY <1>3
    <3>2. CASE SheetMayImport(r) \/ ConfirmForSheet(r)
      BY <3>1, <3>2, ImportingStep
    <3>3. CASE WriteSecret(r) \/ DuplicateLine(r) \/ Commit(r)
      BY <3>1, <3>3, ImportingStep
    <3> QED
      BY <2>4, <3>2, <3>3
  <2>5. ASSUME NEW r \in Importers,
               \/ StageForSheet(r) \/ StagingIsRefused(r) \/ BindText(r) \/ BindFails(r)
               \/ NoChallengeIsIssued(r) \/ IssueChallenge(r)
        PROVE  ImportInv'
    BY <1>3, <2>5, StagingStep, IssueStep
  <2> QED
    BY <1>3, <2>1, <2>2, <2>3, <2>4, <2>5 DEF HandlerGoesOn
<1>4. CASE AroundThem /\ UNCHANGED started
  BY <1>4, AroundStep
<1> QED
  BY <1>1, <1>2, <1>3, <1>4 DEF ImportNext

(* A challenge is offered with the text it was bound to, and a handler that     *)
(* came through the sheet's door works on that text                           *)
(* (google-sheets/inventory-intake.ts, digital-goods/inventory-import.ts).    *)
THEOREM ImportInvariant == ImportSpec => []ImportInv
<1>1. ImportInit => ImportInv
  BY InitImport
<1>2. ImportInv /\ [ImportNext]_importVars => ImportInv'
  BY NextImport
<1> QED
  BY <1>1, <1>2, PTL DEF ImportSpec

(* A handler that is about to issue finds its own text in the session, or none,  *)
(* or its challenge is marked as restaged; so a challenge that is not is issued  *)
(* for the text that was shown.                                                *)
FindsItsText(q) ==
  At(q, "issuing") /\ session.input # NoInput =>
    bound[importer[q].door].restaged \/ session.input = importer[q].input

IssuedAsShown(h) == bound[h].restaged \/ bound[h].text = bound[h].shown

ShownInv ==
  /\ session.status = "none" => session.input = NoInput
  /\ \A q \in Importers : FindsItsText(q)
  /\ \A h \in Challenges : IssuedAsShown(h)

\* A step that stages nothing keeps the session's text or drops it.
LEMMA StagesNothing ==
  ASSUME ImportInv, ShownInv, UNCHANGED bound,
         \/ UNCHANGED session \/ session' = Replaced([session EXCEPT !.status = "READY"])
         \/ session'.input = NoInput
         \/ session' = [session EXCEPT !.status = "PROCESSING"]
         \/ session' = [session EXCEPT !.lapsed = TRUE],
         \A q \in Importers :
           importer'[q].at = "issuing" => importer'[q] = importer[q]
  PROVE  ShownInv'
<1>1. session \in SessionRow /\ (session.status = "none" => session.input = NoInput)
  BY DEF ImportInv, ImportTypes, ShownInv
<1>2. session'.input \in {session.input, NoInput}
  BY <1>1 DEF Replaced, SessionRow
<1>3. session'.status = "none" => session'.input = NoInput
  BY <1>1 DEF Replaced, SessionRow
<1>4. ASSUME NEW q \in Importers PROVE FindsItsText(q)'
  BY <1>2 DEF ShownInv, FindsItsText, At
<1>5. ASSUME NEW h \in Challenges PROVE IssuedAsShown(h)'
  BY DEF ShownInv, IssuedAsShown
<1> QED
  BY <1>3, <1>4, <1>5 DEF ShownInv

\* A handler that moves without coming to issue a challenge.
LEMMA DoesNotIssue ==
  ASSUME ImportInv, NEW r \in Importers, NEW state, state.at # "issuing",
         importer' = [importer EXCEPT ![r] = state]
  PROVE  \A q \in Importers : importer'[q].at = "issuing" => importer'[q] = importer[q]
  BY DEF ImportInv, ImportTypes

LEMMA StopsOrGoes ==
  ASSUME ImportInv, NEW r \in Importers,
         \/ Stop(r) \/ NextLine(r) \/ Prepare(r)
         \/ \E step \in {"inserting", "dropping", "preparing"} : GoTo(r, step)
  PROVE  \A q \in Importers : importer'[q].at = "issuing" => importer'[q] = importer[q]
<1>0. importer[r] \in ImporterRow
  BY DEF ImportInv, ImportTypes
<1>1. CASE Stop(r)
  BY <1>1, NoImportIsARow, DoesNotIssue DEF Stop
<1>2. CASE NextLine(r)
  <2> DEFINE state == [importer[r] EXCEPT !.at = "writing", !.todo = Tail(@)]
  <2>1. state.at # "issuing" /\ importer' = [importer EXCEPT ![r] = state]
    BY <1>0, <1>2 DEF NextLine, ImporterRow
  <2> HIDE DEF state
  <2> QED
    BY <2>1, DoesNotIssue
<1>3. CASE Prepare(r)
  <2> DEFINE state == [importer[r] EXCEPT !.at = "revealing", !.input = session.input]
  <2>1. state.at # "issuing" /\ importer' = [importer EXCEPT ![r] = state]
    BY <1>0, <1>3 DEF Prepare, ImporterRow
  <2> HIDE DEF state
  <2> QED
    BY <2>1, DoesNotIssue
<1>4. ASSUME NEW step \in {"inserting", "dropping", "preparing"}, GoTo(r, step)
      PROVE  \A q \in Importers : importer'[q].at = "issuing" => importer'[q] = importer[q]
  <2> DEFINE state == [importer[r] EXCEPT !.at = step]
  <2>1. state.at # "issuing" /\ importer' = [importer EXCEPT ![r] = state]
    BY <1>0, <1>4 DEF GoTo, ImporterRow
  <2> HIDE DEF state
  <2> QED
    BY <2>1, DoesNotIssue
<1> QED
  BY <1>1, <1>2, <1>3, <1>4

LEMMA StartShows ==
  ASSUME ImportInv, ShownInv, HandlerStarts
  PROVE  ShownInv'
<1>1. ASSUME NEW r \in Importers, ConfirmInChat(r) PROVE ShownInv'
  <2>1. UNCHANGED bound /\ Prepare(r)
    BY <1>1 DEF ConfirmInChat
  <2> QED
    BY <2>1, StopsOrGoes, StagesNothing DEF Prepare
<1>2. ASSUME NEW r \in Importers, NEW i \in Inputs, StageText(r, i) PROVE ShownInv'
  <2> DEFINE state == [NoImport EXCEPT !.at = "binding", !.input = i, !.seen = session.input,
                                       !.door = NoChallenge, !.ready = TRUE]
  <2>1. UNCHANGED <<session, bound>> /\ importer' = [importer EXCEPT ![r] = state]
    BY <1>2 DEF StageText, Staged
  <2>2. state.at = "binding"
    BY DEF NoImport
  <2> HIDE DEF state
  <2> QED
    BY <2>1, <2>2, DoesNotIssue, StagesNothing
<1>3. ASSUME NEW r \in Importers, NEW h \in Challenges, TakeChallenge(r, h) PROVE ShownInv'
  <2> DEFINE state == [NoImport EXCEPT !.at = "checking", !.input = challenge[h].input, !.door = h]
  <2>1. UNCHANGED <<session, bound>> /\ importer' = [importer EXCEPT ![r] = state]
    BY <1>3 DEF TakeChallenge
  <2>2. state.at = "checking"
    BY DEF NoImport
  <2> HIDE DEF state
  <2> QED
    BY <2>1, <2>2, DoesNotIssue, StagesNothing
<1>4. ASSUME NEW r \in Importers, NEW h \in Challenges, NEW i \in Inputs, OpenForSheet(r, h, i)
      PROVE  ShownInv'
  <2> DEFINE state == [NoImport EXCEPT !.at = "staging", !.input = i, !.door = h]
  <2>1. UNCHANGED bound /\ importer' = [importer EXCEPT ![r] = state] /\ session'.input = NoInput
    BY <1>4 DEF OpenForSheet, NoSession
  <2>2. state.at = "staging"
    BY DEF NoImport
  <2> HIDE DEF state
  <2> QED
    BY <2>1, <2>2, DoesNotIssue, StagesNothing
<1> QED
  BY <1>1, <1>2, <1>3, <1>4 DEF HandlerStarts

\* A session that is cancelled, forgotten or committed holds no text.
LEMMA DropsText ==
  ASSUME ShownInv,
         \/ CancelSession \/ session' = NoSession \/ session' = Cancelled
         \/ session' = Replaced([session EXCEPT !.status = "COMMITTED", !.input = NoInput]),
         session \in SessionRow
  PROVE  session'.input = NoInput
<1>1. NoSession.input = NoInput /\ Cancelled.input = NoInput
  BY DEF NoSession, Cancelled
<1>2. Replaced([session EXCEPT !.status = "COMMITTED", !.input = NoInput]).input = NoInput
  BY DEF ShownInv, Replaced, SessionRow
<1>3. Replaced(Cancelled).input = NoInput
  BY <1>1 DEF ShownInv, Replaced
<1> QED
  BY <1>1, <1>2, <1>3 DEF CancelSession

\* The other text that is staged meanwhile marks the challenge.
LEMMA BindShows ==
  ASSUME ImportInv, ShownInv, NEW r \in Importers, BindText(r)
  PROVE  ShownInv'
<1>0. /\ session \in SessionRow /\ importer \in [Importers -> ImporterRow]
      /\ challenge \in [Challenges -> ChallengeRow] /\ bound \in [Challenges -> BoundRow]
  BY DEF ImportInv, ImportTypes
<1> DEFINE new == [session EXCEPT !.status = "READY", !.input = importer[r].input, !.lapsed = FALSE]
<1>1. new.status = "READY" /\ new.input = importer[r].input
  BY <1>0 DEF SessionRow
<1>2. \/ session' = new /\ session.status # "none"
      \/ session' = session /\ session.status = "none" /\ session.input = NoInput
  BY DEF BindText, Replaced, ShownInv
<1> HIDE DEF new
<1>3. ASSUME NEW q \in Importers PROVE FindsItsText(q)'
  <2> SUFFICES ASSUME importer'[q].at = "issuing", session'.input # NoInput
               PROVE  bound'[importer'[q].door].restaged \/ session'.input = importer'[q].input
    BY DEF FindsItsText, At
  <2>1. session'.input = importer[r].input
    BY <1>1, <1>2
  <2>2. CASE q = r
    <3>1. importer'[r].input = importer[r].input
      BY <1>0, <2>2, NoImportIsARow DEF BindText, AfterBind, Stop, GoTo, ImporterRow
    <3> QED
      BY <2>1, <2>2, <3>1
  <2>3. CASE q # r
    <3>1. importer'[q] = importer[q]
      BY <1>0, <2>3 DEF BindText, AfterBind, Stop, GoTo
    <3>2. importer[q].door \in Challenges
      BY <1>0, <3>1 DEF ImportInv, ImporterHolds, ImporterRow, At
    <3>3. bound'[importer[q].door] = [bound[importer[q].door] EXCEPT !.restaged = TRUE]
      BY <2>3, <3>1, <3>2 DEF BindText, Restages, At
    <3> QED
      BY <1>0, <3>1, <3>2, <3>3 DEF BoundRow
  <2> QED
    BY <2>2, <2>3
<1>4. ASSUME NEW h \in Challenges PROVE IssuedAsShown(h)'
  <2>1. /\ bound'[h].text = bound[h].text /\ bound'[h].shown = bound[h].shown
        /\ bound[h].restaged => bound'[h].restaged
    <3>1. UNCHANGED challenge /\ Restages(r)
      BY DEF BindText
    <3>2. /\ ChallengesKept
          /\ \A g \in Challenges : bound'[g].shown = bound[g].shown
          /\ \A g \in Challenges : bound[g].restaged => bound'[g].restaged
      BY <3>1, RestagingKeeps
    <3> QED
      BY <3>2 DEF ChallengesKept
  <2> QED
    BY <2>1 DEF ShownInv, IssuedAsShown
<1>5. session'.status = "none" => session'.input = NoInput
  BY <1>1, <1>2
<1> QED
  BY <1>3, <1>4, <1>5 DEF ShownInv

\* The challenge is issued for what the handler finds.
LEMMA IssueShows ==
  ASSUME ImportInv, ShownInv, NEW r \in Importers, IssueChallenge(r)
  PROVE  ShownInv'
<1>0. importer \in [Importers -> ImporterRow] /\ bound \in [Challenges -> BoundRow] /\ ImporterHolds(r)
  BY DEF ImportInv, ImportTypes
<1>1. PICK h \in Challenges : h = importer[r].door
  BY <1>0 DEF IssueChallenge, At, ImporterHolds, ImporterRow
<1> DEFINE issued == [bound[h] EXCEPT !.shown = importer[r].input, !.text = session.input]
<1>2. /\ issued.shown = importer[r].input /\ issued.text = session.input
      /\ issued.restaged = bound[h].restaged
  BY <1>0 DEF BoundRow
<1>3. bound' = [bound EXCEPT ![h] = issued] /\ UNCHANGED session /\ Stop(r)
      /\ At(r, "issuing") /\ session.input # NoInput
  BY <1>0, <1>1 DEF IssueChallenge
<1> HIDE DEF issued
<1>4. ASSUME NEW g \in Challenges PROVE bound'[g].restaged = bound[g].restaged
  BY <1>0, <1>2, <1>3
<1>5. ASSUME NEW q \in Importers PROVE FindsItsText(q)'
  <2> SUFFICES ASSUME importer'[q].at = "issuing", session.input # NoInput
               PROVE  bound'[importer'[q].door].restaged \/ session.input = importer'[q].input
    BY <1>3 DEF FindsItsText, At
  <2>1. importer'[q] = importer[q]
    BY <1>3, StopsOrGoes
  <2>2. importer[q].door \in Challenges
    BY <1>0, <2>1 DEF ImportInv, ImporterHolds, ImporterRow, At
  <2> QED
    BY <1>4, <2>1, <2>2 DEF ShownInv, FindsItsText, At
<1>6. ASSUME NEW g \in Challenges PROVE IssuedAsShown(g)'
  BY <1>0, <1>1, <1>2, <1>3 DEF ShownInv, IssuedAsShown, FindsItsText
<1> QED
  BY <1>3, <1>5, <1>6 DEF ShownInv

\* The other steps of a handler.
LEMMA GoingOnShows ==
  ASSUME ImportInv, ShownInv, NEW r \in Importers,
         \/ BindFails(r)
         \/ ConfirmForSheet(r) \/ SheetFindsCommitted(r) \/ SheetFindsChanged(r) \/ SheetIsRefused(r)
         \/ RevealText(r) \/ WriteSecret(r) \/ WriteFails(r)
         \/ DuplicateLine(r) \/ InsertFails(r)
         \/ \E u \in StockUnits : InsertUnit(r, u)
         \/ Commit(r) \/ DropText(r)
         \/ StageForSheet(r) \/ StagingIsRefused(r) \/ NoChallengeIsIssued(r)
         \/ SettleCommitted(r) \/ SheetIsBusy(r) \/ SheetMayImport(r)
         \/ ImporterDies(r)
  PROVE  ShownInv'
<1>0. session \in SessionRow /\ importer[r] \in ImporterRow
  BY DEF ImportInv, ImportTypes
<1>1. UNCHANGED bound
  BY DEF BindFails, ConfirmForSheet, SheetFindsCommitted, SheetFindsChanged, SheetIsRefused,
         RevealText, WriteSecret, WriteFails, DuplicateLine, InsertFails, InsertUnit, Commit,
         DropText, StageForSheet, StagingIsRefused, NoChallengeIsIssued, SettleCommitted,
         SheetIsBusy, SheetMayImport, ImporterDies
<1>2. CASE BindFails(r) \/ StagingIsRefused(r) \/ NoChallengeIsIssued(r)
  <2>1. Stop(r) /\ (UNCHANGED session \/ session'.input = NoInput)
    BY <1>0, <1>2, DropsText DEF BindFails, StagingIsRefused, NoChallengeIsIssued
  <2> QED
    BY <1>1, <2>1, StopsOrGoes, StagesNothing
<1>3. CASE SheetFindsCommitted(r) \/ SheetFindsChanged(r) \/ SheetIsRefused(r) \/ SheetIsBusy(r)
           \/ SettleCommitted(r) \/ DropText(r) \/ ImporterDies(r)
  <2>1. Stop(r) /\ (UNCHANGED session \/ session'.input = NoInput)
    BY <1>0, <1>3, DropsText DEF SheetFindsCommitted, SheetFindsChanged, SheetIsRefused,
       SheetIsBusy, SettleCommitted, DropText, ImporterDies
  <2> QED
    BY <1>1, <2>1, StopsOrGoes, StagesNothing
<1>4. CASE WriteFails(r) \/ InsertFails(r) \/ (RevealText(r) /\ Failed(r))
  <2>1. Stop(r) /\ session' = Replaced([session EXCEPT !.status = "READY"])
    BY <1>4 DEF WriteFails, InsertFails, Failed
  <2> QED
    BY <1>1, <2>1, StopsOrGoes, StagesNothing
<1>5. CASE RevealText(r) /\ ~Failed(r)
  <2> DEFINE state == [importer[r] EXCEPT !.at = "writing", !.todo = LinesOf[importer[r].input]]
  <2>1. UNCHANGED session /\ importer' = [importer EXCEPT ![r] = state]
    BY <1>5 DEF RevealText
  <2>2. state.at # "issuing"
    BY <1>0 DEF ImporterRow
  <2> HIDE DEF state
  <2> QED
    BY <1>1, <2>1, <2>2, DoesNotIssue, StagesNothing
<1>6. CASE StageForSheet(r)
  <2> DEFINE state(ready) == [NoImport EXCEPT !.at = "binding", !.input = importer[r].input,
               !.seen = session.input, !.door = importer[r].door, !.ready = ready]
  <2>1. PICK ready : UNCHANGED session /\ importer' = [importer EXCEPT ![r] = state(ready)]
    BY <1>6 DEF StageForSheet, Staged
  <2>2. state(ready).at # "issuing"
    BY DEF NoImport
  <2> HIDE DEF state
  <2> QED
    BY <1>1, <2>1, <2>2, DoesNotIssue, StagesNothing
<1>7. CASE ConfirmForSheet(r)
  BY <1>1, <1>7, StopsOrGoes, StagesNothing DEF ConfirmForSheet, Prepare
<1>8. CASE Commit(r)
  <2>1. GoTo(r, "dropping") /\ session'.input = NoInput
    BY <1>0, <1>8, DropsText DEF Commit
  <2> QED
    BY <1>1, <2>1, StopsOrGoes, StagesNothing
<1>9. CASE WriteSecret(r) \/ DuplicateLine(r) \/ SheetMayImport(r)
           \/ \E u \in StockUnits : InsertUnit(r, u)
  <2>1. UNCHANGED session
        /\ (NextLine(r) \/ \E step \in {"inserting", "dropping", "preparing"} : GoTo(r, step))
    BY <1>9 DEF WriteSecret, DuplicateLine, SheetMayImport, InsertUnit
  <2> QED
    BY <1>1, <2>1, StopsOrGoes, StagesNothing
<1> QED
  BY <1>2, <1>3, <1>4, <1>5, <1>6, <1>7, <1>8, <1>9

LEMMA AroundShows ==
  ASSUME ImportInv, ShownInv, AroundThem
  PROVE  ShownInv'
<1>0. session \in SessionRow /\ UNCHANGED <<importer, bound>>
  BY DEF ImportInv, ImportTypes, AroundThem, StartSession, Cancel, ForgetSession, LapseSession,
         ExpireChallenge, LapseChallenge, SellUnit, Quarantine, Restore, Revoke, Move
<1>1. \/ UNCHANGED session \/ session'.input = NoInput
      \/ session' = [session EXCEPT !.lapsed = TRUE]
  <2>1. CASE StartSession
    BY <2>1 DEF StartSession, NoSession
  <2>2. CASE Cancel \/ ForgetSession
    BY <1>0, <2>2, DropsText DEF Cancel, ForgetSession
  <2>3. CASE LapseSession
    BY <2>3 DEF LapseSession
  <2>4. CASE \E h \in Challenges : ExpireChallenge(h) \/ LapseChallenge(h)
    BY <1>0, <2>4, DropsText DEF ExpireChallenge, LapseChallenge
  <2>5. CASE \E u \in StockUnits : SellUnit(u) \/ Quarantine(u) \/ Restore(u) \/ Revoke(u)
    BY <2>5 DEF SellUnit, Quarantine, Restore, Revoke, Move
  <2> QED
    BY <2>1, <2>2, <2>3, <2>4, <2>5 DEF AroundThem
<1> QED
  BY <1>0, <1>1, StagesNothing

\* A challenge that no other text overtook stands for what the sheet showed.
THEOREM ShownInvariant == ImportSpec => []ShownInv
<1>1. ImportInit => ShownInv
  BY DEF ImportInit, ShownInv, NoSession, FindsItsText, IssuedAsShown, NoneBound
<1>2. ImportInv /\ ShownInv /\ [ImportNext]_importVars => ShownInv'
  <2> SUFFICES ASSUME ImportInv, ShownInv, [ImportNext]_importVars PROVE ShownInv'
    OBVIOUS
  <2>1. CASE UNCHANGED importVars
    BY <2>1 DEF importVars, ShownInv, FindsItsText, IssuedAsShown, At
  <2>2. CASE HandlerGoesOn
    <3>1. ASSUME NEW r \in Importers, IssueChallenge(r) \/ BindText(r) PROVE ShownInv'
      BY <3>1, IssueShows, BindShows
    <3> QED
      BY <2>2, <3>1, GoingOnShows DEF HandlerGoesOn
  <2> QED
    BY <2>1, <2>2, StartShows, AroundShows DEF ImportNext
<1> QED
  BY <1>1, <1>2, ImportInvariant, PTL DEF ImportSpec

(* A credential is for sale, or sold, as one unit however often it is imported  *)
(* and put back, and what the sheet's confirmation imports is the text its     *)
(* challenge was issued for, whatever the chat does to the session they share, *)
(* and the text the sheet showed unless one was staged between its preview and *)
(* its challenge; and every row keeps its type                                *)
(* (google-sheets/inventory-intake.ts, digital-goods/inventory-import.ts).    *)
THEOREM ImportConfirmed == ImportSpec => [](ImportTypeOK /\ ImportedAsConfirmed)
<1>1. ImportInv /\ ShownInv => ImportedAsConfirmed
  <2> SUFFICES ASSUME ImportInv, ShownInv, NEW r \in Importers, importer[r].door # NoChallenge,
                      importer[r].at \in {"revealing", "writing", "inserting", "dropping"}
               PROVE  /\ importer[r].input = bound[importer[r].door].text
                      /\ IssuedAsShown(importer[r].door)
    BY DEF ImportInv, ImportedAsConfirmed, SheetImportsItsChallenge, IssuedAsShown
  <2>1. importer[r].door \in Challenges /\ ImporterHolds(r)
    BY DEF ImportInv, ImportTypes, ImporterRow
  <2> QED
    BY <2>1 DEF ImporterHolds, Importing, ShownInv
<1>2. ImportInv => ImportTypeOK
  <2> SUFFICES ASSUME ImportInv PROVE ImportTypeOK
    OBVIOUS
  <2>1. ASSUME NEW r \in Importers
        PROVE  /\ importer[r].at \in {"idle"} \cup Opening \cup Importing
               /\ {importer[r].input, importer[r].seen} \subseteq Inputs \cup {NoInput}
               /\ importer[r].door \in Challenges \cup {NoChallenge}
               /\ importer[r].todo \in Seq(Credentials)
    BY DEF ImportInv, ImportTypes, ImporterRow
  <2>2. ASSUME NEW r \in Importers PROVE ToSet(importer[r].todo) \subseteq Credentials
    BY <2>1 DEF ToSet
  <2> QED
    BY <2>1, <2>2 DEF ImportInv, ImportTypes, ImportTypeOK, ImportedRow, SessionRow, ChallengeRow,
       BoundRow, Opening, Importing
<1> QED
  BY <1>1, <1>2, ImportInvariant, ShownInvariant, PTL

-----------------------------------------------------------------------------
(* The shop put together.                                                   *)

\* A step of the composition is a step of one module and leaves the others alone.
LEMMA ShopSteps ==
  ASSUME [ShopNext]_shopVars
  PROVE  /\ [WalletNext]_walletVars /\ [PreorderNext]_preorderVars
         /\ [SupplierNext]_supplierVars /\ [CanaryNext]_canaryVars
         /\ [ImportNext]_importVars /\ [WarrantyNext]_warrantyVars
         /\ [NotificationNext]_noticeVars /\ [BroadcastNext]_broadcastVars
  BY DEF ShopNext, shopVars

\* A behaviour of the composition is a behaviour of each of its modules: none can do in
\* it what it could not do alone.
THEOREM ShopIsEachModule ==
  ShopSpec => /\ WalletSpec /\ PreorderSpec /\ SupplierSpec /\ CanarySpec
              /\ ImportSpec /\ WarrantySpec /\ NotificationSpec /\ BroadcastSpec
<1>1. ShopInit => /\ WalletInit /\ PreorderInit /\ SupplierInit /\ CanaryInit
                  /\ ImportInit /\ WarrantyInit /\ NotificationInit /\ BroadcastInit
  BY DEF ShopInit
<1> QED
  BY <1>1, ShopSteps, PTL DEF ShopSpec, WalletSpec, PreorderSpec, SupplierSpec, CanarySpec,
     ImportSpec, WarrantySpec, NotificationSpec, BroadcastSpec

\* Accounts, reservations, records, units, deliveries and messages keep their types
\* whichever part of the shop runs, for any number of customers, orders, runs and rows.
THEOREM ShopTypes == ShopSpec => []ShopTypeOK
<1>1. /\ WalletInv /\ PreorderInv /\ PurchaseInv /\ CanaryInv /\ ImportTypeOK
      /\ WarrantyTypeOK /\ NoticeInv /\ BroadcastInv
      => ShopTypeOK
  BY DEF ShopTypeOK, WalletInv, PreorderInv, PurchaseInv, CanaryInv, NoticeInv, BroadcastInv
<1> QED
  BY <1>1, ShopIsEachModule, WalletInvariant, PreorderInvariant, PurchaseInvariant,
     CanaryInvariant, ImportConfirmed, WarrantyType, NoticeInvariant, BroadcastInvariant, PTL

\* What the modules promise the shop promises: its money balances, its queue is served in
\* order, it buys once and says once, it imports what was confirmed and settles a claim in
\* one way.
THEOREM ShopKeepsItsPromises ==
  ShopSpec =>
    /\ [](/\ WalletIsBacked /\ RefundOwesWhatWasReceived /\ MessagesAreRecorded
         /\ ImportedAsConfirmed /\ SettledInOneWay)
    /\ QueueIsServedInOrder /\ BoughtAsApproved
  BY ShopIsEachModule, WalletBacked, PreorderRefunds, MessagesRecorded, ImportConfirmed,
     WarrantySettled, PreordersInOrder, SuppliersBuyOnce, PTL
=============================================================================
