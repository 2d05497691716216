------------------------------- MODULE Inbox -------------------------------
(*************************************************************************)
(* webhook_inbox, the durable inbox of both webhooks, and the two lanes of *)
(* the worker that empty it: infrastructure/inbox/telegram.ts and          *)
(* infrastructure/inbox/sepay.ts.  One table, two sources: the SePay lane   *)
(* claims its own rows only, the Telegram lane's claim names no source.    *)
(*                                                                       *)
(* A run is one claim in a lane's batch: it holds what claimDue returned    *)
(* (owner, generation, attempt count) until it reports.  Every run of one  *)
(* worker process has the same owner.  Time is abstracted: a RETRY row may  *)
(* become due and a lease may lapse at any moment.                         *)
(*************************************************************************)
EXTENDS Integers, FiniteSets

CONSTANTS Updates,        \* events of source telegram
          Payments,       \* events of source sepay
          TelegramRuns,   \* runs of telegramLane
          SepayRuns,      \* runs of sepayLane
          OwnerOfRun,     \* run -> the worker process it runs in
          InboxAttempts,  \* OUTBOX_MAX_ATTEMPTS
          MaxClaims,      \* bound on a row's claim generation
          NoEvent, NoOwner

InboxEvents == Updates \cup Payments
InboxRuns == TelegramRuns \cup SepayRuns
Owners == {OwnerOfRun[r] : r \in InboxRuns}

ASSUME InboxAssumption ==
  /\ Updates \cap Payments = {}
  /\ NoEvent \notin InboxEvents
  /\ NoOwner \notin Owners
  /\ InboxAttempts \in Nat \ {0}
  /\ MaxClaims \in Nat

VARIABLES inbox,     \* event -> its row
          irun,      \* run -> the claim it works on
          applied,   \* events on which a handler of their own lane succeeded
          ownClaims  \* event -> claims of it by its own lane

inboxVars == <<inbox, irun, applied, ownClaims>>

InboxStatuses == {"absent", "RETRY", "PROCESSING", "PROCESSED", "DEAD", "pruned"}
Without(s) == [status |-> s, gen |-> 0, owner |-> NoOwner, attempts |-> 0,
               lapsed |-> FALSE, redacted |-> FALSE]
NoRowYet == Without("absent")
PrunedRow == Without("pruned")
NoClaim == [at |-> "idle", event |-> NoEvent, gen |-> 0, attempts |-> 0]

InboxTypeOK ==
  /\ inbox \in [InboxEvents ->
       [status : InboxStatuses, gen : 0..MaxClaims, owner : Owners \cup {NoOwner},
        attempts : 0..MaxClaims, lapsed : BOOLEAN, redacted : BOOLEAN]]
  /\ irun \in [InboxRuns ->
       [at : {"idle", "claimed", "succeeded", "failed"}, event : InboxEvents \cup {NoEvent},
        gen : 0..MaxClaims, attempts : 0..MaxClaims]]
  /\ applied \subseteq InboxEvents
  /\ ownClaims \in [InboxEvents -> 0..MaxClaims]

InboxInit ==
  /\ inbox = [e \in InboxEvents |-> NoRowYet]
  /\ irun = [r \in InboxRuns |-> NoClaim]
  /\ applied = {}
  /\ ownClaims = [e \in InboxEvents |-> 0]

-----------------------------------------------------------------------------
(* accept: the first delivery inserts a row; a repeat, with the same body or *)
(* another (which is counted and reported), changes nothing of its claim.    *)
AcceptEvent(e) ==
  /\ inbox[e].status = "absent"
  /\ inbox' = [inbox EXCEPT ![e].status = "RETRY"]
  /\ UNCHANGED <<irun, applied, ownClaims>>

\* The lane whose handler is made for the event.
OwnLane(r, e) == IF e \in Updates THEN r \in TelegramRuns ELSE r \in SepayRuns

Claimable(r, e) == r \in TelegramRuns \/ e \in Payments
Due(e) ==
  \/ inbox[e].status = "RETRY"
  \/ inbox[e].status = "PROCESSING" /\ inbox[e].lapsed

Taken(row, r) ==
  [status |-> "PROCESSING", gen |-> row.gen + 1, owner |-> OwnerOfRun[r],
   attempts |-> row.attempts + 1, lapsed |-> FALSE, redacted |-> row.redacted]

(* claimDue: a due row, taken under a new generation; the attempt counts     *)
(* from here on, whatever becomes of it.                                    *)
ClaimEvent(r, e) ==
  /\ irun[r].at = "idle"
  /\ Claimable(r, e)
  /\ Due(e)
  /\ inbox[e].gen < MaxClaims
  /\ inbox' = [inbox EXCEPT ![e] = Taken(@, r)]
  /\ irun' = [irun EXCEPT ![r] =
       [at |-> "claimed", event |-> e, gen |-> inbox[e].gen + 1,
        attempts |-> inbox[e].attempts + 1]]
  /\ ownClaims' = IF OwnLane(r, e) THEN [ownClaims EXCEPT ![e] = @ + 1] ELSE ownClaims
  /\ UNCHANGED applied

(* claim_expires_at passes.                                                 *)
LeaseLapses(e) ==
  /\ inbox[e].status = "PROCESSING"
  /\ ~inbox[e].lapsed
  /\ inbox' = [inbox EXCEPT ![e].lapsed = TRUE]
  /\ UNCHANGED <<irun, applied, ownClaims>>

\* Mutant of Holds: a report is fenced by its owner alone.
HoldsByProcess(r) ==
  LET row == inbox[irun[r].event] IN
  row.status = "PROCESSING" /\ row.owner = OwnerOfRun[r]

\* The condition every report of a run carries.
Holds(r) ==
  LET row == inbox[irun[r].event] IN
  /\ row.status = "PROCESSING"
  /\ row.owner = OwnerOfRun[r]
  /\ row.gen = irun[r].gen

EndRun(r) == irun' = [irun EXCEPT ![r] = NoClaim]
Released(row, s) == [row EXCEPT !.status = s, !.owner = NoOwner, !.lapsed = FALSE]
Refunded(row) == [row EXCEPT !.attempts = IF @ = 0 THEN 0 ELSE @ - 1]
Redacted(row) == [row EXCEPT !.redacted = TRUE]

\* The payload of an update goes when its row is settled.
Settled(e, s) ==
  IF e \in Updates THEN Redacted(Released(inbox[e], s)) ELSE Released(inbox[e], s)

(* The rate limiter refuses an update for now: the attempt is refunded and   *)
(* the row is put back.                                                     *)
Throttle(r) ==
  LET e == irun[r].event IN
  /\ irun[r].at = "claimed"
  /\ r \in TelegramRuns
  /\ e \in Updates
  /\ inbox' = IF Holds(r)
              THEN [inbox EXCEPT ![e] = Refunded(Released(@, "RETRY"))]
              ELSE inbox
  /\ EndRun(r)
  /\ UNCHANGED <<applied, ownClaims>>

(* The handler returns: only a handler of the event's own lane can; the      *)
(* Telegram lane has no user to charge a SePay event to and throws.         *)
HandlerSucceeds(r) ==
  /\ irun[r].at = "claimed"
  /\ OwnLane(r, irun[r].event)
  /\ applied' = applied \cup {irun[r].event}
  /\ irun' = [irun EXCEPT ![r].at = "succeeded"]
  /\ UNCHANGED <<inbox, ownClaims>>

(* The handler throws, or its report of success does.                       *)
HandlerFails(r) ==
  /\ irun[r].at \in {"claimed", "succeeded"}
  /\ irun' = [irun EXCEPT ![r].at = "failed"]
  /\ UNCHANGED <<inbox, applied, ownClaims>>

(* markProcessed: a report without the claim changes nothing.  The payload   *)
(* of an update is redacted.                                                *)
MarkProcessed(r) ==
  LET e == irun[r].event IN
  /\ irun[r].at = "succeeded"
  /\ inbox' = IF Holds(r)
              THEN [inbox EXCEPT ![e] = Settled(e, "PROCESSED")]
              ELSE inbox
  /\ EndRun(r)
  /\ UNCHANGED <<applied, ownClaims>>

Terminal(r) == irun[r].attempts >= InboxAttempts

(* markFailed, with attempts left.                                          *)
MarkRetry(r) ==
  LET e == irun[r].event IN
  /\ irun[r].at = "failed"
  /\ ~Terminal(r)
  /\ inbox' = IF Holds(r) THEN [inbox EXCEPT ![e] = Released(@, "RETRY")] ELSE inbox
  /\ EndRun(r)
  /\ UNCHANGED <<applied, ownClaims>>

(* markFailed on the last attempt.  The Telegram lane redacts the payload;   *)
(* for a SePay row the evidence trigger refuses that, and the batch aborts   *)
(* with the row still claimed.                                              *)
MarkDead(r) ==
  LET e == irun[r].event IN
  /\ irun[r].at = "failed"
  /\ Terminal(r)
  /\ inbox' = IF Holds(r) /\ OwnLane(r, e)
              THEN [inbox EXCEPT ![e] = Settled(e, "DEAD")]
              ELSE inbox
  /\ EndRun(r)
  /\ UNCHANGED <<applied, ownClaims>>

(* The process stops, or an earlier row of the batch aborts it.             *)
RunCrashes(r) ==
  /\ irun[r].at # "idle"
  /\ EndRun(r)
  /\ UNCHANGED <<inbox, applied, ownClaims>>

Renewed(row) == [Released(row, "RETRY") EXCEPT !.gen = @ + 1]

(* recoverInbox: the owner puts a dead row back, under a new generation.     *)
RecoverInbox(e) ==
  /\ inbox[e].status = "DEAD"
  /\ inbox[e].gen < MaxClaims
  /\ inbox' = [inbox EXCEPT ![e] = Renewed(@)]
  /\ UNCHANGED <<irun, applied, ownClaims>>

(* sanitizePayloads: settled updates, and those older than the grace.        *)
Sanitize(e) ==
  /\ e \in Updates
  /\ inbox[e].status \notin {"absent", "pruned"}
  /\ ~inbox[e].redacted
  /\ inbox' = [inbox EXCEPT ![e] = Redacted(@)]
  /\ UNCHANGED <<irun, applied, ownClaims>>

\* Mutant of Prunable: no condition on the source.
PrunableOfAnySource(e) == inbox[e].status \in {"PROCESSED", "DEAD", "RETRY"}

Prunable(e) == e \in Updates /\ inbox[e].status \in {"PROCESSED", "DEAD", "RETRY"}

(* prune: settled updates after their retention, and updates still waiting   *)
(* after theirs.  SePay rows are never pruned.                              *)
Prune(e) ==
  /\ Prunable(e)
  /\ inbox' = [inbox EXCEPT ![e] = PrunedRow]
  /\ UNCHANGED <<irun, applied, ownClaims>>

InboxNext ==
  \/ \E e \in InboxEvents :
       AcceptEvent(e) \/ LeaseLapses(e)
         \/ RecoverInbox(e) \/ Sanitize(e) \/ Prune(e)
  \/ \E r \in InboxRuns :
       \/ \E e \in InboxEvents : ClaimEvent(r, e)
       \/ Throttle(r) \/ HandlerSucceeds(r) \/ HandlerFails(r)
       \/ MarkProcessed(r) \/ MarkRetry(r) \/ MarkDead(r) \/ RunCrashes(r)

InboxSpec == InboxInit /\ [][InboxNext]_inboxVars

-----------------------------------------------------------------------------
(* A payment event is PROCESSED only when its evidence was applied, and its   *)
(* row stays for ever: a report of a stale run, a mutated repeat, a           *)
(* redaction or a recovery never makes accepted evidence disappear.          *)
EvidenceIsKept ==
  \A e \in Payments :
    /\ inbox[e].status = "PROCESSED" => e \in applied
    /\ e \in applied => inbox[e].status \notin {"absent", "pruned"}
    /\ ~inbox[e].redacted

(* While a lease runs, only the run that holds its generation ends the claim: *)
(* a run whose lease lapsed, even of the same process, can neither settle     *)
(* nor release the row under the run that took it over.                      *)
FreshLeaseIsRespected ==
  \A e \in InboxEvents :
    (/\ inbox[e].status = "PROCESSING"
     /\ ~inbox[e].lapsed
     /\ inbox'[e].status # "PROCESSING") =>
    \E r \in InboxRuns : /\ irun[r].event = e
                         /\ irun[r].gen = inbox[e].gen
                         /\ irun'[r] = NoClaim

(* Both: no report, stale or fresh, takes a claim or the evidence away.       *)
ClaimsKeepEvidence == [][EvidenceIsKept' /\ FreshLeaseIsRespected]_inboxVars

(* The attempts of a payment event are those of the lane that can apply it:   *)
(* it is dead-lettered only after that lane claimed it as often as the        *)
(* budget allows.                                                            *)
PaymentSpendsItsOwnAttempts ==
  \A e \in Payments : inbox[e].status = "DEAD" => ownClaims[e] >= InboxAttempts
=============================================================================
