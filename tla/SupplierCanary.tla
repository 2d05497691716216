--------------------------- MODULE SupplierCanary ---------------------------
(***************************************************************************)
(* supplier/canary.ts: the owner tries a supplier with one real purchase     *)
(* that belongs to no order.  A preview freezes what it would cost, a        *)
(* one-time confirmation authorizes it, and the run that executes it, or the *)
(* recovery lane that resumes it, buys through purchase-core.ts with a store *)
(* whose every write is fenced by the version it read.                       *)
(*                                                                         *)
(* A version is compared for equality only, so it is kept as the set of runs *)
(* that hold the row's present one: a write by one makes the others' stale.  *)
(* The supplier answers truthfully or not at all.                            *)
(***************************************************************************)
EXTENDS Integers, FiniteSets

CONSTANTS Canaries,     \* supplier_canary_run ids
          CanaryRuns,   \* presses of the owner and picks of the recovery lane
          Costs,        \* what the SKU may cost
          MaxOrders,    \* bound: POSTs of one canary
          NoCanary

ASSUME CanaryAssumption ==
  /\ NoCanary \notin Canaries /\ Costs \subseteq Nat /\ Costs # {}
  /\ MaxOrders \in Nat \ {0}

VARIABLES offer,    \* the SKU's mapping: its cost, and whether all gates are open
          canary,   \* the row: status, approved cost, review, within the grace
          pressed,  \* its admin_confirmation
          bought,   \* POSTs sent, and the SKU's cost when the attempt was marked
          travels,  \* POSTs the supplier has not received yet
          abroad,   \* what the supplier did
          crun      \* run -> where it stands

canaryVars == <<offer, canary, pressed, bought, travels, abroad, crun>>

Sent == {"SUBMITTED", "PENDING", "UNKNOWN"}
NoPreview == [status |-> "none", approved |-> 0, linked |-> FALSE, review |-> FALSE,
              fresh |-> FALSE]
NoCanaryRun == [at |-> "idle", canary |-> NoCanary, lane |-> FALSE, current |-> FALSE,
                answer |-> "none"]
CanaryAnswers == {"PENDING", "FULFILLED", "REJECTED", "UNKNOWN", "UNREADABLE", "ERROR"}

CanaryTypeOK ==
  /\ offer \in [cost : Costs, open : BOOLEAN]
  /\ canary \in [Canaries ->
       [status : Sent \cup {"none", "PREVIEWED", "AUTHORIZED", "FULFILLED", "REJECTED", "BLOCKED"},
        approved : Costs \cup {0}, linked : BOOLEAN, review : BOOLEAN, fresh : BOOLEAN]]
  /\ pressed \in [Canaries -> {"none", "CREATED", "CONSUMED", "EXPIRED"}]
  /\ bought \in [Canaries -> [posts : 0 .. MaxOrders, quoted : Costs \cup {0}]]
  /\ travels \in [Canaries -> 0 .. MaxOrders]
  /\ abroad \in [Canaries -> {"none", "processing", "fulfilled", "rejected"}]
  /\ crun \in [CanaryRuns ->
       [at : {"idle", "load", "gate", "attempt", "post", "await", "recover", "query",
              "apply", "schedule"},
        canary : Canaries \cup {NoCanary}, lane : BOOLEAN, current : BOOLEAN,
        answer : CanaryAnswers \cup {"none"}]]

CanaryInit ==
  /\ offer \in [cost : Costs, open : {TRUE}]
  /\ canary = [q \in Canaries |-> NoPreview]
  /\ pressed = [q \in Canaries |-> "none"]
  /\ bought = [q \in Canaries |-> [posts |-> 0, quoted |-> 0]]
  /\ travels = [q \in Canaries |-> 0]
  /\ abroad = [q \in Canaries |-> "none"]
  /\ crun = [r \in CanaryRuns |-> NoCanaryRun]

-----------------------------------------------------------------------------
Of(r) == crun[r].canary

\* Run r goes on as state; a write to q makes the version of the others stale.
Go(r, state) == crun' = [crun EXCEPT ![r] = state]
GoAndBump(r, state, q) ==
  crun' = [s \in CanaryRuns |->
    IF s = r THEN state
    ELSE IF crun[s].canary = q THEN [crun[s] EXCEPT !.current = FALSE] ELSE crun[s]]

\* The lane schedules the row's next turn when it is done with it.
After(r) == IF crun[r].lane THEN [crun[r] EXCEPT !.at = "schedule"] ELSE NoCanaryRun

(* The SKU is repriced, disabled, deselected or selected again, and the      *)
(* balance and the purchase flags change (synchronisation, the owner).       *)
OfferChanges ==
  /\ \E o \in [cost : Costs, open : BOOLEAN] : o # offer /\ offer' = o
  /\ UNCHANGED <<canary, pressed, bought, travels, abroad, crun>>

(* prepare: the row, then its step-up check and its confirmation.            *)
PrepareCanary(q) ==
  /\ canary[q].status = "none" /\ offer.open
  /\ canary' = [canary EXCEPT ![q].status = "PREVIEWED", ![q].approved = offer.cost]
  /\ UNCHANGED <<offer, pressed, bought, travels, abroad, crun>>

IssueConfirmation(q) ==
  /\ canary[q].status = "PREVIEWED" /\ pressed[q] = "none"
  /\ pressed' = [pressed EXCEPT ![q] = "CREATED"]
  /\ UNCHANGED <<offer, canary, bought, travels, abroad, crun>>

LinkConfirmation(q) ==
  /\ canary[q].status = "PREVIEWED" /\ pressed[q] # "none" /\ ~canary[q].linked
  /\ canary' = [canary EXCEPT ![q].linked = TRUE]
  /\ UNCHANGED <<offer, pressed, bought, travels, abroad, crun>>

\* The step-up or the confirmation is refused: markCanaryBlocked.
PreviewIsRefused(q) ==
  /\ canary[q].status = "PREVIEWED" /\ pressed[q] = "none"
  /\ canary' = [canary EXCEPT ![q].status = "BLOCKED"]
  /\ UNCHANGED <<offer, pressed, bought, travels, abroad, crun>>

ConfirmationExpires(q) ==
  /\ pressed[q] = "CREATED"
  /\ pressed' = [pressed EXCEPT ![q] = "EXPIRED"]
  /\ UNCHANGED <<offer, canary, bought, travels, abroad, crun>>

(* confirmIfCanary: the first press consumes the confirmation and authorizes  *)
(* the row in one transaction, any press after it resumes the execution.     *)
Confirm(r, q) ==
  /\ crun[r].at = "idle"
  /\ \/ /\ pressed[q] = "CREATED" /\ canary[q].linked /\ canary[q].status = "PREVIEWED"
        /\ canary' = [canary EXCEPT ![q].status = "AUTHORIZED"]
        /\ pressed' = [pressed EXCEPT ![q] = "CONSUMED"]
        /\ GoAndBump(r, [NoCanaryRun EXCEPT !.at = "load", !.canary = q], q)
     \/ /\ pressed[q] = "CONSUMED"
        /\ Go(r, [NoCanaryRun EXCEPT !.at = "load", !.canary = q])
        /\ UNCHANGED <<canary, pressed>>
  /\ UNCHANGED <<offer, bought, travels, abroad>>

\* A submission without an answer is left alone within the grace.
InGrace(row) == row.status \in {"SUBMITTED", "UNKNOWN"} /\ row.fresh

(* recoverSupplierCanariesBatch selects a due row and defers its next turn.   *)
PickCanary(r, q) ==
  /\ crun[r].at = "idle"
  /\ ~canary[q].review /\ ~InGrace(canary[q])
  /\ \/ canary[q].status \in Sent
     \/ canary[q].status = "AUTHORIZED" /\ pressed[q] = "CONSUMED"
  /\ GoAndBump(r, [NoCanaryRun EXCEPT !.at = "load", !.canary = q, !.lane = TRUE], q)
  /\ UNCHANGED <<offer, canary, pressed, bought, travels, abroad>>

(* The row is loaded, with the version its store will compare; executePending *)
(* and recoverCanaryRun decide by its status.                               *)
LoadCanary(r) ==
  LET row == canary[Of(r)] IN
  /\ crun[r].at = "load"
  /\ \/ /\ row.status = "AUTHORIZED" /\ pressed[Of(r)] = "CONSUMED" /\ ~row.review
        /\ Go(r, [crun[r] EXCEPT !.at = "gate", !.current = TRUE])
     \/ /\ row.status \in Sent /\ ~row.review
        /\ Go(r, [crun[r] EXCEPT !.at = "recover", !.current = TRUE])
     \/ /\ row.status \notin Sent \cup {"AUTHORIZED"} \/ row.review
        /\ Go(r, After(r))
  /\ UNCHANGED <<offer, canary, pressed, bought, travels, abroad>>

\* markBlocked and blockAuthorizedCanary.
Blocks(r) ==
  IF crun[r].current /\ canary[Of(r)].status = "AUTHORIZED"
  THEN /\ canary' = [canary EXCEPT ![Of(r)].status = "BLOCKED"]
       /\ GoAndBump(r, After(r), Of(r))
  ELSE Go(r, After(r)) /\ UNCHANGED canary

(* A gate is closed, the balance too small or unreadable, the cost another.   *)
GateIsClosed(r) ==
  /\ crun[r].at = "gate"
  /\ Blocks(r)
  /\ UNCHANGED <<offer, pressed, bought, travels, abroad>>

(* executeSupplierPurchase reads the record again; beforeCreate reads the     *)
(* mapping, the cost and the balance.                                       *)
GatesAreOpen(r) ==
  LET row == canary[Of(r)] IN
  /\ crun[r].at = "gate"
  /\ \/ /\ row.status = "AUTHORIZED" /\ offer.open /\ offer.cost = row.approved
        /\ Go(r, [crun[r] EXCEPT !.at = "attempt"])
     \/ /\ row.status \in Sent /\ ~row.review
        /\ Go(r, [crun[r] EXCEPT !.at = "recover"])
     \/ /\ row.status \notin Sent \cup {"AUTHORIZED"} \/ row.review
        /\ Go(r, After(r))
  /\ UNCHANGED <<offer, canary, pressed, bought, travels, abroad>>

\* Mutant: what the gates have read is not compared again.
AttemptableAsRead(r) == crun[r].current /\ canary[Of(r)].status = "AUTHORIZED"

\* Mutant: an attempt is no obstacle to another.
AttemptableAgain(r) ==
  /\ canary[Of(r)].status \in {"AUTHORIZED"} \cup Sent
  /\ offer.open /\ offer.cost = canary[Of(r)].approved

\* The condition of markAttempt, over the row and the mapping at once.
Attemptable(r) ==
  /\ crun[r].current /\ canary[Of(r)].status = "AUTHORIZED" /\ ~canary[Of(r)].review
  /\ offer.open /\ offer.cost = canary[Of(r)].approved

MarkCanaryAttempt(r) ==
  LET q == Of(r) IN
  /\ crun[r].at = "attempt"
  /\ IF Attemptable(r)
     THEN /\ bought[q].posts < MaxOrders
          /\ canary' = [canary EXCEPT ![q].status = "SUBMITTED", ![q].fresh = TRUE]
          /\ bought' = [bought EXCEPT ![q].quoted = offer.cost]
          /\ GoAndBump(r, [crun[r] EXCEPT !.at = "post", !.current = TRUE], q)
     ELSE Blocks(r) /\ UNCHANGED bought
  /\ UNCHANGED <<offer, pressed, travels, abroad>>

(* port.createOrder leaves the process, arrives or is lost, and the supplier  *)
(* fulfils or rejects what it took.                                         *)
SendOrder(r) ==
  LET q == Of(r) IN
  /\ crun[r].at = "post" /\ bought[q].posts < MaxOrders
  /\ bought' = [bought EXCEPT ![q].posts = @ + 1]
  /\ travels' = [travels EXCEPT ![q] = @ + 1]
  /\ Go(r, [crun[r] EXCEPT !.at = "await"])
  /\ UNCHANGED <<offer, canary, pressed, abroad>>

OrderTravels(q) ==
  /\ travels[q] > 0
  /\ travels' = [travels EXCEPT ![q] = @ - 1]
  /\ abroad' \in {abroad, [abroad EXCEPT ![q] = IF @ = "none" THEN "processing" ELSE @]}
  /\ UNCHANGED <<offer, canary, pressed, bought, crun>>

OrderResolves(q) ==
  /\ abroad[q] = "processing"
  /\ \E end \in {"fulfilled", "rejected"} : abroad' = [abroad EXCEPT ![q] = end]
  /\ UNCHANGED <<offer, canary, pressed, bought, travels, crun>>

Truth(q) ==
  CASE abroad[q] = "processing" -> {"PENDING"}
    [] abroad[q] = "fulfilled" -> {"FULFILLED"}
    [] abroad[q] = "rejected" -> {"REJECTED"}
    [] OTHER -> {}

(* createOrder answers, ends in doubt, or throws and leaves the row as it is; *)
(* queryOrder answers, cannot be read, or throws.                           *)
SupplierAnswers(r) ==
  /\ crun[r].at \in {"await", "query"}
  /\ \E answer \in Truth(Of(r)) \cup {"ERROR"}
                     \cup {IF crun[r].at = "await" THEN "UNKNOWN" ELSE "UNREADABLE"} :
       Go(r, [crun[r] EXCEPT !.at = "apply", !.answer = answer])
  /\ UNCHANGED <<offer, canary, pressed, bought, travels, abroad>>

(* recoverSupplierPurchase reads the record again.                          *)
RecoverCanary(r) ==
  LET row == canary[Of(r)] IN
  /\ crun[r].at = "recover"
  /\ Go(r, IF row.status \in Sent /\ ~row.review /\ ~InGrace(row)
           THEN [crun[r] EXCEPT !.at = "query"] ELSE After(r))
  /\ UNCHANGED <<offer, canary, pressed, bought, travels, abroad>>

\* The provider cannot read orders: markNeedsReview, under the same fences.
ProviderCannotRead(r) ==
  /\ crun[r].at = "recover"
  /\ canary[Of(r)].status \in Sent /\ ~canary[Of(r)].review /\ ~InGrace(canary[Of(r)])
  /\ Go(r, [crun[r] EXCEPT !.at = "apply", !.answer = "UNREADABLE"])
  /\ UNCHANGED <<offer, canary, pressed, bought, travels, abroad>>

\* Mutant: an answer is recorded over any row.
RecordsAnyAnswer(r) == crun[r].answer # "ERROR"

\* The condition of every mark: the version, and a row that is still open.
RecordsAnswer(r) ==
  /\ crun[r].answer # "ERROR" /\ crun[r].current
  /\ canary[Of(r)].status \in Sent \cup {"AUTHORIZED"}
  /\ crun[r].answer # "UNREADABLE" => ~canary[Of(r)].review

Answering(row, answer) ==
  IF answer = "UNREADABLE" THEN [row EXCEPT !.status = "BLOCKED", !.review = TRUE]
  ELSE [row EXCEPT !.status = answer]

(* markResponse with the mark of the answer: a write whose version is lost    *)
(* silences those that follow.                                              *)
ApplyCanaryAnswer(r) ==
  /\ crun[r].at = "apply"
  /\ IF RecordsAnswer(r)
     THEN /\ canary' = [canary EXCEPT ![Of(r)] = Answering(@, crun[r].answer)]
          /\ GoAndBump(r, After(r), Of(r))
     ELSE Go(r, After(r)) /\ UNCHANGED canary
  /\ UNCHANGED <<offer, pressed, bought, travels, abroad>>

(* scheduleCanaryRecovery: whatever became of the row, its version moves.     *)
ScheduleCanary(r) ==
  /\ crun[r].at = "schedule"
  /\ GoAndBump(r, NoCanaryRun, Of(r))
  /\ UNCHANGED <<offer, canary, pressed, bought, travels, abroad>>

CanaryGraceEnds(q) ==
  /\ canary[q].fresh
  /\ canary' = [canary EXCEPT ![q].fresh = FALSE]
  /\ UNCHANGED <<offer, pressed, bought, travels, abroad, crun>>

CanaryRunDies(r) ==
  /\ crun[r].at # "idle"
  /\ Go(r, NoCanaryRun)
  /\ UNCHANGED <<offer, canary, pressed, bought, travels, abroad>>

CanaryNext ==
  \/ OfferChanges
  \/ \E q \in Canaries :
       \/ PrepareCanary(q) \/ IssueConfirmation(q) \/ LinkConfirmation(q) \/ PreviewIsRefused(q)
       \/ ConfirmationExpires(q) \/ OrderTravels(q) \/ OrderResolves(q) \/ CanaryGraceEnds(q)
  \/ \E r \in CanaryRuns :
       \/ \E q \in Canaries : Confirm(r, q) \/ PickCanary(r, q)
       \/ LoadCanary(r) \/ GateIsClosed(r) \/ GatesAreOpen(r) \/ MarkCanaryAttempt(r)
       \/ SendOrder(r) \/ SupplierAnswers(r) \/ RecoverCanary(r) \/ ProviderCannotRead(r)
       \/ ApplyCanaryAnswer(r) \/ ScheduleCanary(r) \/ CanaryRunDies(r)

CanarySpec == CanaryInit /\ [][CanaryNext]_canaryVars

-----------------------------------------------------------------------------
CanaryIsAsApproved ==
  \A q \in Canaries :
    LET row == canary[q] IN
    /\ bought[q].posts <= 1
    /\ bought[q].posts = 1 => pressed[q] = "CONSUMED" /\ bought[q].quoted = row.approved
    /\ row.status = "FULFILLED" => abroad[q] = "fulfilled"
    /\ row.status = "REJECTED" => abroad[q] = "rejected"
    /\ row.status \in {"PREVIEWED", "AUTHORIZED", "BLOCKED"} /\ ~row.review => bought[q].posts = 0

\* A canary buys once at most, only what the owner confirmed and at the cost he
\* saw, though the SKU is repriced, the press repeated and the lane resumes it;
\* its row never says the opposite of what the supplier did (one that is blocked
\* without review was never sent), and an end it reached is kept, however late
\* the answers of the other runs come.
CanaryBuysAsApproved ==
  /\ CanaryIsAsApproved'
  /\ \A q \in Canaries :
       canary[q].status \in {"FULFILLED", "REJECTED", "BLOCKED"} =>
         canary'[q].status = canary[q].status
=============================================================================
