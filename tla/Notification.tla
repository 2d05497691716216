---------------------------- MODULE Notification ----------------------------
(*************************************************************************)
(* One Telegram notice of a campaign, from its queueing to SENT: the        *)
(* notification lane (claimNotificationDeliveries and                      *)
(* processNotificationDeliveryClaim, modules/notification/service.ts), the  *)
(* domain events that rewrite an alert which is already out                *)
(* (refreshRootAdminAlert), the owner's cancel and the owner's recovery.    *)
(*                                                                       *)
(* A notice is a notification_delivery and its campaign; a run is the       *)
(* claim of one lane, which may outlive its lease.  A notice whose message  *)
(* id is known is edited in place; one without is a new message in the      *)
(* chat, and no second one may follow it.                                  *)
(*************************************************************************)
EXTENDS Integers

CONSTANTS Notices, NoticeRuns,
          Contents,        \* texts an alert may be rewritten to
          NoticeAttempts,  \* OUTBOX_MAX_ATTEMPTS
          MaxNoticeGen,    \* bound on claim_generation
          NoNotice, NoContent

ASSUME NotificationAssumption ==
  /\ NoNotice \notin Notices
  /\ NoContent \notin Contents
  /\ NoticeAttempts \in Nat \ {0}
  /\ MaxNoticeGen \in Nat

VARIABLES campaign,  \* notice -> its campaign: status and content
          notice,    \* notice -> its notification_delivery
          nrun,      \* run -> the claim it works on
          shown,     \* notice -> the text in the chat
          copies     \* notice -> messages sent without a known message id

noticeVars == <<campaign, notice, nrun, shown, copies>>

Deliverable == {"PENDING", "RETRY"}
NewNotice == [status |-> "PENDING", gen |-> 0, attempts |-> 0, leased |-> FALSE,
              message |-> FALSE, sentAt |-> FALSE]
NoNoticeRun == [at |-> "idle", notice |-> NoNotice, gen |-> 0, content |-> NoContent,
                edit |-> FALSE]

NotificationTypeOK ==
  /\ campaign \in [Notices -> [status : {"QUEUED", "CANCELLED"}, content : Contents]]
  /\ notice \in [Notices ->
       [status : Deliverable \cup {"SENT", "SUPPRESSED", "DEAD", "SEND_UNCERTAIN"},
        gen : 0..MaxNoticeGen, attempts : 0..MaxNoticeGen, leased : BOOLEAN,
        message : BOOLEAN, sentAt : BOOLEAN]]
  /\ nrun \in [NoticeRuns ->
       [at : {"idle", "claimed", "checked", "submit", "sent", "nameless", "refused",
              "unreachable"},
        notice : Notices \cup {NoNotice}, gen : 0..MaxNoticeGen,
        content : Contents \cup {NoContent}, edit : BOOLEAN]]
  /\ shown \in [Notices -> Contents \cup {NoContent}]
  /\ copies \in [Notices -> 0..2]

NotificationInit ==
  /\ campaign \in [Notices -> [status : {"QUEUED"}, content : Contents]]
  /\ notice = [n \in Notices |-> NewNotice]
  /\ nrun = [r \in NoticeRuns |-> NoNoticeRun]
  /\ shown = [n \in Notices |-> NoContent]
  /\ copies = [n \in Notices |-> 0]

-----------------------------------------------------------------------------
NoticeOf(r) == nrun[r].notice
EndNoticeRun(r) == nrun' = [nrun EXCEPT ![r] = NoNoticeRun]
RunAt(r, at) == nrun' = [nrun EXCEPT ![r].at = at]

\* The generation a run claimed is still the row's.
Current(r) == notice[NoticeOf(r)].gen = nrun[r].gen

(* claimNotificationDeliveries: a due row of a queued campaign, whose lease   *)
(* is over; the content is the campaign's of that moment.                   *)
ClaimNotice(r, n) ==
  /\ nrun[r].at = "idle"
  /\ notice[n].status \in Deliverable
  /\ ~notice[n].leased
  /\ campaign[n].status = "QUEUED"
  /\ notice[n].gen < MaxNoticeGen
  /\ notice' = [notice EXCEPT ![n].status = "RETRY", ![n].attempts = @ + 1,
                              ![n].leased = TRUE, ![n].gen = @ + 1]
  /\ nrun' = [nrun EXCEPT ![r] =
       [at |-> "claimed", notice |-> n, gen |-> notice[n].gen + 1,
        content |-> campaign[n].content, edit |-> notice[n].message]]
  /\ UNCHANGED <<campaign, shown, copies>>

(* claim_expires_at passes.                                                 *)
NoticeLeaseLapses(n) ==
  /\ notice[n].leased
  /\ notice' = [notice EXCEPT ![n].leased = FALSE]
  /\ UNCHANGED <<campaign, nrun, shown, copies>>

\* The claim still stands: unclaimed by another, unexpired, not cancelled.
Active(r) ==
  LET n == NoticeOf(r) IN
  /\ notice[n].status = "RETRY" /\ Current(r)
  /\ notice[n].leased
  /\ campaign[n].status = "QUEUED"

(* processNotificationDeliveryClaim looks before it reads the preferences.   *)
CheckClaim(r) ==
  /\ nrun[r].at = "claimed"
  /\ IF Active(r) THEN RunAt(r, "checked") ELSE EndNoticeRun(r)
  /\ UNCHANGED <<campaign, notice, shown, copies>>

(* The customer has opted out of this class of notice.                      *)
OptedOut(r) ==
  LET n == NoticeOf(r) IN
  /\ nrun[r].at = "checked"
  /\ notice' = IF notice[n].status = "RETRY" /\ Current(r)
               THEN [notice EXCEPT ![n].status = "SUPPRESSED", ![n].leased = FALSE]
               ELSE notice
  /\ EndNoticeRun(r)
  /\ UNCHANGED <<campaign, shown, copies>>

(* fenceNotificationSend: the outcome is unknown from before the send on.    *)
Fence(r) ==
  LET n == NoticeOf(r) IN
  /\ nrun[r].at = "checked"
  /\ IF Active(r)
     THEN /\ notice' = [notice EXCEPT ![n].status = "SEND_UNCERTAIN", ![n].leased = FALSE]
          /\ RunAt(r, "submit")
     ELSE EndNoticeRun(r) /\ UNCHANGED notice
  /\ UNCHANGED <<campaign, shown, copies>>

(* The message is in the chat: Telegram's answer names it, names no message   *)
(* or is lost.                                                              *)
MessageArrives(r) ==
  LET n == NoticeOf(r) IN
  /\ nrun[r].at = "submit"
  /\ shown' = [shown EXCEPT ![n] = nrun[r].content]
  /\ copies' = IF nrun[r].edit \/ copies[n] = 2 THEN copies ELSE [copies EXCEPT ![n] = @ + 1]
  /\ \/ RunAt(r, "sent")
     \/ RunAt(r, "nameless")
     \/ EndNoticeRun(r)
  /\ UNCHANGED <<campaign, notice>>

(* It is not: rate limited or never submitted, the chat is gone, or a failure *)
(* that does not tell.                                                      *)
MessageFails(r) ==
  /\ nrun[r].at = "submit"
  /\ \/ RunAt(r, "refused")
     \/ RunAt(r, "unreachable")
     \/ EndNoticeRun(r)
  /\ UNCHANGED <<campaign, notice, shown, copies>>

\* The run's own fence is still up.
Uncertain(r) == notice[NoticeOf(r)].status = "SEND_UNCERTAIN" /\ Current(r)

\* Mutant of NeedsFollowUp: the campaign is not read again.
NeverFollowUp(r) == FALSE

\* A queued campaign was rewritten since the run claimed the notice.
NeedsFollowUp(r) ==
  campaign[NoticeOf(r)].status = "QUEUED" /\ campaign[NoticeOf(r)].content # nrun[r].content

(* markNotificationSent: a campaign rewritten meanwhile is sent again, as an  *)
(* edit; without a message id nothing may be sent again.                    *)
MarkSent(r) ==
  LET n == NoticeOf(r)
      known == nrun[r].at = "sent" \/ notice[n].message IN
  /\ nrun[r].at \in {"sent", "nameless"}
  /\ notice' =
       IF ~Uncertain(r) \/ ~known THEN notice
       ELSE [notice EXCEPT
              ![n].status = IF NeedsFollowUp(r) THEN "RETRY" ELSE "SENT",
              ![n].message = TRUE,
              ![n].sentAt = @ \/ ~NeedsFollowUp(r)]
  /\ EndNoticeRun(r)
  /\ UNCHANGED <<campaign, shown, copies>>

(* markNotificationFailure, after a failure before or at Telegram's door.     *)
MarkFailure(r) ==
  LET n == NoticeOf(r) IN
  /\ nrun[r].at = "refused"
  /\ notice' = IF ~Uncertain(r) THEN notice
               ELSE [notice EXCEPT ![n].status =
                       IF notice[n].attempts >= NoticeAttempts THEN "DEAD" ELSE "RETRY"]
  /\ EndNoticeRun(r)
  /\ UNCHANGED <<campaign, shown, copies>>

(* markNotificationSuppressed, when the chat cannot be reached.              *)
MarkUnreachable(r) ==
  /\ nrun[r].at = "unreachable"
  /\ notice' = IF ~Uncertain(r) THEN notice
               ELSE [notice EXCEPT ![NoticeOf(r)].status = "SUPPRESSED"]
  /\ EndNoticeRun(r)
  /\ UNCHANGED <<campaign, shown, copies>>

(* The lane throws or stops: what is fenced stays uncertain.                 *)
NoticeRunDies(r) ==
  /\ nrun[r].at # "idle"
  /\ EndNoticeRun(r)
  /\ UNCHANGED <<campaign, notice, shown, copies>>

(* refreshRootAdminAlert: an event rewrites the alert; of a cancelled one it   *)
(* moves the delivery only.  A notice under a live lease, or of unknown       *)
(* outcome, is left to its run.                                             *)
RefreshAlert(n, c) ==
  /\ notice[n].gen < MaxNoticeGen
  /\ campaign' = IF campaign[n].status = "CANCELLED" THEN campaign
                 ELSE [campaign EXCEPT ![n].content = c]
  /\ notice' = IF /\ notice[n].status \in Deliverable \cup {"SENT"}
                  /\ ~(notice[n].status = "RETRY" /\ notice[n].leased)
               THEN [notice EXCEPT ![n].status = "RETRY", ![n].leased = FALSE, ![n].gen = @ + 1]
               ELSE notice
  /\ UNCHANGED <<nrun, shown, copies>>

(* cancelBroadcast, of a queued campaign.                                   *)
CancelCampaign(n) ==
  /\ campaign[n].status = "QUEUED"
  /\ campaign' = [campaign EXCEPT ![n].status = "CANCELLED"]
  /\ notice' = IF notice[n].status \in Deliverable
               THEN [notice EXCEPT ![n].status = "SUPPRESSED"]
               ELSE notice
  /\ UNCHANGED <<nrun, shown, copies>>

(* recoverNotificationDelivery: the owner retries a dead notice that was      *)
(* never sent.                                                              *)
RecoverNotice(n) ==
  /\ notice[n].status = "DEAD"
  /\ ~notice[n].sentAt
  /\ notice[n].gen < MaxNoticeGen
  /\ notice' = [notice EXCEPT ![n].status = "RETRY", ![n].gen = @ + 1]
  /\ UNCHANGED <<campaign, nrun, shown, copies>>

NotificationNext ==
  \/ \E r \in NoticeRuns :
       \/ \E n \in Notices : ClaimNotice(r, n)
       \/ CheckClaim(r) \/ OptedOut(r) \/ Fence(r)
       \/ MessageArrives(r) \/ MessageFails(r)
       \/ MarkSent(r) \/ MarkFailure(r) \/ MarkUnreachable(r) \/ NoticeRunDies(r)
  \/ \E n \in Notices :
       \/ NoticeLeaseLapses(n) \/ CancelCampaign(n) \/ RecoverNotice(n)
       \/ \E c \in Contents : RefreshAlert(n, c)

NotificationSpec == NotificationInit /\ [][NotificationNext]_noticeVars

-----------------------------------------------------------------------------
(* A notice is one message in the chat, later texts being edits of it: no     *)
(* lost answer, expired lease, crash, rewrite or recovery makes the lane     *)
(* send a second message while the first may have arrived.                  *)
NoticeShownOnce == \A n \in Notices : copies[n] <= 1

(* A notice that counts as sent shows what its campaign says now: an alert    *)
(* rewritten while its older text was on the way is followed up.            *)
SentShowsCurrent ==
  \A n \in Notices :
    (notice[n].status = "SENT" /\ campaign[n].status = "QUEUED") =>
      shown[n] = campaign[n].content

(* The reader of a notice has one message, and a settled one is up to date.   *)
NoticeIsOneAndCurrent == NoticeShownOnce /\ SentShowsCurrent
=============================================================================
