------------------------------ MODULE Warranty ------------------------------
(*************************************************************************)
(* What happens to a delivered unit that does not work: the customer's      *)
(* warranty claims (warranty/claims.ts), the replacement cases they share   *)
(* with support (digital-goods/replacement.ts), and what the two of them     *)
(* do to the units of one completed order and the stock of its variant.     *)
(*                                                                         *)
(* One step is one transaction: each locks the claim or the order it        *)
(* changes.  Only openWarrantyClaim reads without a lock what its insert     *)
(* relies on, so it takes two steps.  The order was delivered one unit,     *)
(* its policy allows both a refund and a replacement, and nobody asks        *)
(* openReplacementCase for a refund (support never does).                    *)
(*************************************************************************)
EXTENDS Integers, Sequences, FiniteSets, SequencesExt

CONSTANTS Claims,       \* warranty_claim rows there may be
          Cases,        \* replacement_case rows there may be
          Original,     \* the unit the order was delivered
          Spares,       \* other units of its variant
          NoGood, NoCase

ASSUME WarrantyAssumption ==
  /\ Original \notin Spares /\ NoGood \notin Spares \cup {Original}
  /\ NoCase \notin Cases

Goods == Spares \cup {Original}

VARIABLES claim,      \* warranty_claim: status, unit, obligation, linked case
          kase,       \* replacement_case: status, the unit it is about, its replacement
          good,       \* digital_asset.status; RESERVED is for this order
          link,       \* the order's live delivery_bundle for a unit
          delivered   \* the units with delivered_order_id, oldest updated_at first

warrantyVars == <<claim, kase, good, link, delivered>>

ActiveStatuses == {"SUBMITTED", "WAITING_CUSTOMER", "VERIFIED_DEFECT", "REPLACEMENT_APPROVED",
                   "REFUND_DUE", "REFUND_PAID"}
NoClaim == [status |-> "none", about |-> NoGood, obligation |-> "none", kase |-> NoCase]
NoReplacement == [status |-> "none", about |-> NoGood, unit |-> NoGood]

WarrantyTypeOK ==
  /\ claim \in [Claims -> [status : ActiveStatuses \cup {"none", "reported", "REJECTED"},
                           about : Goods \cup {NoGood}, obligation : {"none", "OPEN", "PAID"},
                           kase : Cases \cup {NoCase}]]
  /\ kase \in [Cases -> [status : {"none", "OPEN", "APPROVED", "REPLACED"},
                         about : Goods \cup {NoGood}, unit : Goods \cup {NoGood}]]
  /\ good \in [Goods -> {"AVAILABLE", "RESERVED", "DELIVERED", "COMPROMISED", "REVOKED", "elsewhere"}]
  /\ link \in [Goods -> {"none", "AVAILABLE", "VIEWED"}]
  /\ delivered \in Seq(Goods)

WarrantyInit ==
  /\ claim = [c \in Claims |-> NoClaim]
  /\ kase = [k \in Cases |-> NoReplacement]
  /\ good = [u \in Goods |-> IF u = Original THEN "DELIVERED" ELSE "AVAILABLE"]
  /\ link = [u \in Goods |-> "none"]
  /\ delivered = <<Original>>

-----------------------------------------------------------------------------
\* An update of a delivered unit makes it the youngest.
Without(u) ==
  IF u \in ToSet(delivered)
  THEN RemoveAt(delivered, CHOOSE i \in DOMAIN delivered : delivered[i] = u) ELSE delivered
Touched(u) == IF u \in ToSet(delivered) THEN Append(Without(u), u) ELSE delivered

\* The unit a report is about, and (findDeliveredAssetHistoryForOrder) the one
\* a support case is about: the oldest, of those that were handed over.
IsOldest(u, units) ==
  \E i \in DOMAIN delivered : delivered[i] = u /\ u \in units
                           /\ \A j \in 1..(i - 1) : delivered[j] \notin units
IsReported(u) == IsOldest(u, Goods)
IsHistory(u) == IsOldest(u, {w \in Goods : good[w] \in {"DELIVERED", "COMPROMISED", "REVOKED"}})

ClaimsAbout(u, statuses) == {c \in Claims : claim[c].about = u /\ claim[c].status \in statuses}

ClaimBecomes(c, new) ==
  /\ claim' = [claim EXCEPT ![c] = new]
  /\ UNCHANGED <<kase, good, link, delivered>>

-----------------------------------------------------------------------------
(* openWarrantyClaim.                                                       *)

\* No claim about the unit is active.
ReportDefect(c, u) ==
  /\ claim[c].status = "none" /\ IsReported(u)
  /\ ClaimsAbout(u, ActiveStatuses) = {}
  /\ ClaimBecomes(c, [NoClaim EXCEPT !.status = "reported", !.about = u])

\* warranty_claim_one_active_per_asset_uq.
IndexedClaims == ActiveStatuses \ {"REFUND_PAID"}

SubmitClaim(c) ==
  /\ claim[c].status = "reported"
  /\ ClaimBecomes(c, IF ClaimsAbout(claim[c].about, IndexedClaims) = {}
                     THEN [claim[c] EXCEPT !.status = "SUBMITTED"] ELSE NoClaim)

-----------------------------------------------------------------------------
(* The owner decides a claim.                                               *)

MoveClaim(c, from, to) ==
  /\ claim[c].status \in from
  /\ ClaimBecomes(c, [claim[c] EXCEPT !.status = to])

RequestClaimInfo(c) == MoveClaim(c, {"SUBMITTED"}, "WAITING_CUSTOMER")
VerifyClaimDefect(c) == MoveClaim(c, {"SUBMITTED", "WAITING_CUSTOMER"}, "VERIFIED_DEFECT")

\* Whatever is not paid may be rejected; its obligation stays OPEN.
RejectClaim(c) == MoveClaim(c, ActiveStatuses \ {"REFUND_PAID"}, "REJECTED")

ApproveClaimRefund(c) ==
  /\ claim[c].status \in {"VERIFIED_DEFECT", "REFUND_DUE"}
  /\ claim[c].obligation = "none"
  /\ ClaimBecomes(c, [claim[c] EXCEPT !.status = "REFUND_DUE", !.obligation = "OPEN"])

MarkRefundPaid(c) ==
  /\ claim[c].status = "REFUND_DUE" /\ claim[c].obligation = "OPEN"
  /\ ClaimBecomes(c, [claim[c] EXCEPT !.status = "REFUND_PAID", !.obligation = "PAID"])

-----------------------------------------------------------------------------
(* approveReplacementCaseInTransaction.                                     *)

\* A case of the same unit that was replaced already; the mutant does not ask.
NoSibling(k, about) == {}
Siblings(k, about) ==
  {j \in Cases \ {k} : kase[j].status = "REPLACED" /\ kase[j].about = about}

\* The unit a case gets: its own, its sibling's, or one from the stock.  The
\* order may hold one unit at a time.
Unsold == {u \in Goods : good[u] = "AVAILABLE"}
HeldByOrder == {u \in Goods : good[u] = "RESERVED"}
Given(k, about) ==
  IF kase[k].status = "REPLACED" THEN {kase[k].unit}
  ELSE IF Siblings(k, about) # {} THEN {kase[j].unit : j \in Siblings(k, about)}
  ELSE IF HeldByOrder = {} THEN Unsold ELSE {}

FromStock(k, about) == kase[k].status # "REPLACED" /\ Siblings(k, about) = {}

\* issueReplacementDeliveryBundleInTransaction, for a unit that is not new.
Issuable(u) == link[u] # "none" \/ good[u] = "RESERVED"

\* The case is REPLACED; a new unit is held and the order's other bundles are
\* revoked.  A bundle is issued where it can be.
Replace(k, about, u) ==
  /\ kase' = [kase EXCEPT ![k] = [status |-> "REPLACED", about |-> about, unit |-> u]]
  /\ IF FromStock(k, about)
     THEN link' = [w \in Goods |-> IF w # u THEN "none"
                               ELSE IF link[u] = "none" THEN "AVAILABLE" ELSE link[u]]
     ELSE link' = IF link[u] = "none" /\ Issuable(u)
                  THEN [link EXCEPT ![u] = "AVAILABLE"] ELSE link

Gives(k, about, u) == FromStock(k, about) \/ Issuable(u)
Taken(k, about, u) == IF FromStock(k, about) THEN [good EXCEPT ![u] = "RESERVED"] ELSE good

-----------------------------------------------------------------------------
(* approveClaimReplacement: it opens a case of its own.                     *)

ClaimReplaceable(c, k) ==
  /\ claim[c].status \in {"VERIFIED_DEFECT", "REPLACEMENT_APPROVED"} /\ claim[c].kase = NoCase
  /\ kase[k].status = "none"

ApproveClaimReplacement(c, k, u) ==
  LET about == claim[c].about  held == Taken(k, about, u) IN
  /\ ClaimReplaceable(c, k)
  /\ u \in Given(k, about) /\ Gives(k, about, u)
  /\ Replace(k, about, u)
  /\ IF held[about] \in {"DELIVERED", "RESERVED"}
     THEN good' = [held EXCEPT ![about] = "COMPROMISED"] /\ delivered' = Touched(about)
     ELSE good' = held /\ UNCHANGED delivered
  /\ claim' = [claim EXCEPT ![c].status = "REPLACEMENT_APPROVED", ![c].kase = k]

\* No unit is free: refused, but the case was opened and stays APPROVED.
ClaimReplacementFindsNoStock(c, k) ==
  /\ ClaimReplaceable(c, k)
  /\ FromStock(k, claim[c].about) /\ Unsold = {}
  /\ kase' = [kase EXCEPT ![k] = [NoReplacement EXCEPT !.status = "APPROVED", !.about = claim[c].about]]
  /\ UNCHANGED <<claim, good, link, delivered>>

\* No bundle can be issued: refused, but the case is REPLACED.
ClaimReplacementIsNotIssued(c, k, u) ==
  LET about == claim[c].about IN
  /\ ClaimReplaceable(c, k)
  /\ u \in Given(k, about) /\ ~Gives(k, about, u)
  /\ Replace(k, about, u)
  /\ UNCHANGED <<claim, good, delivered>>

-----------------------------------------------------------------------------
(* Support: openTicket opens a case, the owner's confirmation approves it.   *)

OpenReplacementCase(k, u) ==
  /\ kase[k].status = "none" /\ IsHistory(u)
  /\ \A j \in Cases : kase[j].about = u => kase[j].status \notin {"OPEN", "APPROVED"}
  /\ kase' = [kase EXCEPT ![k] = [NoReplacement EXCEPT !.status = "OPEN", !.about = u]]
  /\ UNCHANGED <<claim, good, link, delivered>>

\* Refusals throw, so they change nothing.
ApproveSupportCase(k, u) ==
  LET about == kase[k].about IN
  /\ kase[k].status \in {"OPEN", "APPROVED", "REPLACED"}
  /\ u \in Given(k, about) /\ Gives(k, about, u)
  /\ Replace(k, about, u)
  /\ good' = Taken(k, about, u)
  /\ UNCHANGED <<claim, delivered>>

-----------------------------------------------------------------------------
(* What becomes of the units.                                               *)

\* The customer opens the link, and confirms or receives it.
ViewLink(u) ==
  /\ link[u] = "AVAILABLE"
  /\ link' = [link EXCEPT ![u] = "VIEWED"]
  /\ UNCHANGED <<claim, kase, good, delivered>>

ConsumeLink(u) ==
  /\ link[u] # "none" /\ good[u] = "RESERVED"
  /\ link' = [link EXCEPT ![u] = "none"]
  /\ good' = [good EXCEPT ![u] = "DELIVERED"]
  /\ delivered' = Append(Without(u), u)
  /\ UNCHANGED <<claim, kase>>

LinkLapses(u) ==
  /\ link[u] # "none"
  /\ link' = [link EXCEPT ![u] = "none"]
  /\ UNCHANGED <<claim, kase, good, delivered>>

\* The sweep of lapsed holds asks nothing of the case that gave the unit.
ReplacementLapses(u) ==
  /\ good[u] = "RESERVED"
  /\ good' = [good EXCEPT ![u] = "AVAILABLE"]
  /\ delivered' = Touched(u)
  /\ UNCHANGED <<claim, kase, link>>

\* Another order is delivered it.
SoldElsewhere(u) ==
  /\ good[u] = "AVAILABLE"
  /\ good' = [good EXCEPT ![u] = "elsewhere"]
  /\ delivered' = Without(u)
  /\ UNCHANGED <<claim, kase, link>>

\* The owner's item screen: any unit that is not with an order.
MoveGood(u, from, to) ==
  /\ good[u] \in from
  /\ good' = [good EXCEPT ![u] = to]
  /\ delivered' = Touched(u)
  /\ UNCHANGED <<claim, kase, link>>

QuarantineGood(u) == MoveGood(u, {"AVAILABLE"}, "COMPROMISED")
RestoreGood(u) == MoveGood(u, {"COMPROMISED"}, "AVAILABLE")
RevokeGood(u) == MoveGood(u, {"AVAILABLE", "COMPROMISED"}, "REVOKED")

WarrantyNext ==
  \/ \E c \in Claims :
       \/ SubmitClaim(c) \/ RequestClaimInfo(c) \/ VerifyClaimDefect(c)
       \/ RejectClaim(c) \/ ApproveClaimRefund(c) \/ MarkRefundPaid(c)
       \/ \E u \in Goods : ReportDefect(c, u)
       \/ \E k \in Cases :
            \/ ClaimReplacementFindsNoStock(c, k)
            \/ \E u \in Goods : ApproveClaimReplacement(c, k, u) \/ ClaimReplacementIsNotIssued(c, k, u)
  \/ \E k \in Cases, u \in Goods : OpenReplacementCase(k, u) \/ ApproveSupportCase(k, u)
  \/ \E u \in Goods :
       ViewLink(u) \/ ConsumeLink(u) \/ LinkLapses(u)
         \/ ReplacementLapses(u) \/ SoldElsewhere(u)
         \/ QuarantineGood(u) \/ RestoreGood(u) \/ RevokeGood(u)

WarrantySpec == WarrantyInit /\ [][WarrantyNext]_warrantyVars

-----------------------------------------------------------------------------
(* One claim is settled in one way: what was paid stays on record as paid,     *)
(* and a claim that was promised money is not also given a unit.  One unit is *)
(* given for the one that was defective, however many claims and support      *)
(* cases ask for a replacement.  It does not say that money and a unit are     *)
(* never both given for one unit: a claim may be refunded and a support case  *)
(* of the same unit approved, since neither looks at the other.               *)
SettledInOneWay ==
  /\ \A c \in Claims : claim[c].status = "REFUND_PAID" <=> claim[c].obligation = "PAID"
  /\ \A c \in Claims : claim[c].obligation # "none" => claim[c].kase = NoCase
  /\ \A j, k \in Cases :
       kase[j].status = "REPLACED" /\ kase[k].status = "REPLACED" /\ kase[j].about = kase[k].about =>
         kase[j].unit = kase[k].unit

(* Money or a unit for a defective unit, whoever asks.  A refunded claim       *)
(* beside a support case breaks it.                                          *)
MoneyOrAUnit ==
  \A c \in Claims, k \in Cases :
    claim[c].obligation # "none" /\ kase[k].status = "REPLACED" => claim[c].about # kase[k].about

(* A unit that was found defective is never for sale again.  The owner's      *)
(* RESTORE breaks it.                                                        *)
DefectiveStaysOut ==
  \A c \in Claims : claim[c].status = "REPLACEMENT_APPROVED" => good[claim[c].about] # "AVAILABLE"
=============================================================================
