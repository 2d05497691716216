----------------------------- MODULE Broadcast -----------------------------
(*************************************************************************)
(* A broadcast of the owner, from the draft to its deliveries: the text is  *)
(* previewed, the audience of the preview frozen, and the confirmation      *)
(* queues one delivery per frozen recipient (markBroadcastPreviewed,        *)
(* confirmBroadcast and cancelBroadcast, modules/notification/service.ts).  *)
(*                                                                       *)
(* The callbacks hand these functions the connection pool, not a            *)
(* transaction: every statement commits on its own, customers opt in and    *)
(* out in between, and a crash leaves what was committed.                  *)
(*************************************************************************)
EXTENDS Integers, FiniteSets

CONSTANTS Audience,       \* customers a broadcast may reach
          Texts,          \* contents the owner may type
          OwnerRuns,      \* callbacks of the owner being handled
          NoText

ASSUME BroadcastAssumption == NoText \notin Texts

VARIABLES bcast,          \* the notification_campaign
          optedIn,        \* selectBroadcastAudience, now
          previewRows,    \* notification_campaign_audience, stage PREVIEW
          confirmedRows,  \* the same, stage CONFIRMED
          recipients,     \* customers with a notification_delivery
          brun            \* run -> where it stands, with what it read

broadcastVars == <<bcast, optedIn, previewRows, confirmedRows, recipients, brun>>

Draft == [status |-> "DRAFT", content |-> NoText, previewedText |-> NoText, previewedSet |-> {}]
NoBroadcastRun == [at |-> "idle", text |-> NoText, set |-> {}, read |-> Draft]

Campaigns == [status : {"DRAFT", "QUEUED", "CANCELLED"}, content : Texts \cup {NoText},
              previewedText : Texts \cup {NoText}, previewedSet : SUBSET Audience]

BroadcastTypeOK ==
  /\ bcast \in Campaigns
  /\ optedIn \subseteq Audience
  /\ previewRows \subseteq Audience
  /\ confirmedRows \subseteq Audience
  /\ recipients \subseteq Audience
  /\ brun \in [OwnerRuns ->
       [at : {"idle", "mark", "freeze", "frozen", "live", "confirm", "queue"},
        text : Texts \cup {NoText}, set : SUBSET Audience, read : Campaigns]]

BroadcastInit ==
  /\ bcast = Draft
  /\ optedIn \in SUBSET Audience
  /\ previewRows = {}
  /\ confirmedRows = {}
  /\ recipients = {}
  /\ brun = [r \in OwnerRuns |-> NoBroadcastRun]

-----------------------------------------------------------------------------
EndBroadcastRun(r) == brun' = [brun EXCEPT ![r] = NoBroadcastRun]
BroadcastAt(r, at) == brun' = [brun EXCEPT ![r].at = at]

(* setNotificationPreferences, or a chat that becomes unreachable.           *)
AudienceMoves(c) ==
  /\ optedIn' = IF c \in optedIn THEN optedIn \ {c} ELSE optedIn \cup {c}
  /\ UNCHANGED <<bcast, previewRows, confirmedRows, recipients, brun>>

(* broadcastText: the owner types the text of the draft and its audience is   *)
(* selected.                                                                *)
StartPreview(r, text) ==
  /\ brun[r].at = "idle"
  /\ bcast.status = "DRAFT"
  /\ brun' = [brun EXCEPT ![r] = [at |-> "mark", text |-> text, set |-> optedIn, read |-> Draft]]
  /\ UNCHANGED <<bcast, optedIn, previewRows, confirmedRows, recipients>>

(* The draft takes the text, and the hashes of the text and of the audience.  *)
MarkPreviewed(r) ==
  /\ brun[r].at = "mark"
  /\ IF bcast.status = "DRAFT"
     THEN /\ bcast' = [bcast EXCEPT !.content = brun[r].text, !.previewedText = brun[r].text,
                                    !.previewedSet = brun[r].set]
          /\ BroadcastAt(r, "freeze")
     ELSE EndBroadcastRun(r) /\ UNCHANGED bcast
  /\ UNCHANGED <<optedIn, previewRows, confirmedRows, recipients>>

(* freezeBroadcastAudience, stage PREVIEW: rows of an earlier preview stay.   *)
FreezePreview(r) ==
  /\ brun[r].at = "freeze"
  /\ previewRows' = previewRows \cup brun[r].set
  /\ EndBroadcastRun(r)
  /\ UNCHANGED <<bcast, optedIn, confirmedRows, recipients>>

(* confirmBroadcast reads the campaign,                                     *)
StartConfirm(r) ==
  /\ brun[r].at = "idle"
  /\ bcast.status = "DRAFT"
  /\ bcast.previewedText # NoText
  /\ brun' = [brun EXCEPT ![r] = [NoBroadcastRun EXCEPT !.at = "frozen", !.read = bcast]]
  /\ UNCHANGED <<bcast, optedIn, previewRows, confirmedRows, recipients>>

(* then the frozen rows,                                                    *)
ReadPreview(r) ==
  /\ brun[r].at = "frozen"
  /\ brun' = [brun EXCEPT ![r].at = "live", ![r].set = previewRows]
  /\ UNCHANGED <<bcast, optedIn, previewRows, confirmedRows, recipients>>

\* The confirmation refers to something the owner did not review.
StalePreview(r) ==
  /\ brun[r].set # {}
  /\ \/ brun[r].read.previewedText # brun[r].read.content
     \/ brun[r].read.previewedSet # optedIn

(* then the live audience, and refuses a stale preview.                      *)
ReadAudience(r) ==
  /\ brun[r].at = "live"
  /\ IF StalePreview(r) THEN EndBroadcastRun(r)
     ELSE brun' = [brun EXCEPT ![r].at = "confirm",
                               ![r].set = IF brun[r].set # {} THEN brun[r].set ELSE optedIn]
  /\ UNCHANGED <<bcast, optedIn, previewRows, confirmedRows, recipients>>

(* freezeBroadcastAudience, stage CONFIRMED.                                 *)
FreezeConfirmed(r) ==
  /\ brun[r].at = "confirm"
  /\ confirmedRows' = confirmedRows \cup brun[r].set
  /\ BroadcastAt(r, "queue")
  /\ UNCHANGED <<bcast, optedIn, previewRows, recipients>>

\* Mutant of Frozen: the audience is selected again.
AudienceNow(r) == optedIn

\* The recipients a confirmation has frozen.
Frozen(r) == brun[r].set

(* One statement queues the draft and inserts the deliveries.                *)
QueueBroadcast(r) ==
  /\ brun[r].at = "queue"
  /\ IF bcast.status = "DRAFT"
     THEN /\ bcast' = [bcast EXCEPT !.status = "QUEUED"]
          /\ recipients' = recipients \cup Frozen(r)
     ELSE UNCHANGED <<bcast, recipients>>
  /\ EndBroadcastRun(r)
  /\ UNCHANGED <<optedIn, previewRows, confirmedRows>>

(* cancelBroadcast.  The deliveries of a queued one are suppressed            *)
(* (Notification!CancelCampaign).                                           *)
CancelBroadcast ==
  /\ bcast.status \in {"DRAFT", "QUEUED"}
  /\ bcast' = [bcast EXCEPT !.status = "CANCELLED"]
  /\ UNCHANGED <<optedIn, previewRows, confirmedRows, recipients, brun>>

(* The worker stops, or a statement fails.                                   *)
BroadcastRunDies(r) ==
  /\ brun[r].at # "idle"
  /\ EndBroadcastRun(r)
  /\ UNCHANGED <<bcast, optedIn, previewRows, confirmedRows, recipients>>

BroadcastNext ==
  \/ \E c \in Audience : AudienceMoves(c)
  \/ \E r \in OwnerRuns :
       \/ \E text \in Texts : StartPreview(r, text)
       \/ MarkPreviewed(r) \/ FreezePreview(r)
       \/ StartConfirm(r) \/ ReadPreview(r) \/ ReadAudience(r)
       \/ FreezeConfirmed(r) \/ QueueBroadcast(r)
       \/ BroadcastRunDies(r)
  \/ CancelBroadcast

BroadcastSpec == BroadcastInit /\ [][BroadcastNext]_broadcastVars

-----------------------------------------------------------------------------
(* Whoever gets a delivery is in the durable snapshot of the confirmation,    *)
(* though snapshot and deliveries are separate transactions and a            *)
(* confirmation may die between them, and only a draft in preview was ever   *)
(* queued: "QUEUED always implies the recipient set is durable".             *)
RecipientsAreRecorded ==
  /\ recipients \subseteq confirmedRows
  /\ recipients # {} => bcast.status \in {"QUEUED", "CANCELLED"} /\ bcast.previewedText # NoText

(* "A confirmation is bound to the exact content and audience that were       *)
(* previewed": what is queued goes to the audience of the last preview.      *)
ConfirmedIsPreviewed == recipients # {} => recipients = bcast.previewedSet
=============================================================================
