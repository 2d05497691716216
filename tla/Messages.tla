------------------------------ MODULE Messages ------------------------------
(***************************************************************************)
(* What the shop says in its own words (modules/notification/service.ts):    *)
(* a notice or alert of one chat, and a broadcast's way to its recipients.   *)
(***************************************************************************)
EXTENDS Notification, Broadcast

(* What the shop says in its own words, a notice or a broadcast, reaches those *)
(* it was decided for, once, as it last read.                                *)
MessagesAreRecorded == NoticeIsOneAndCurrent /\ RecipientsAreRecorded
=============================================================================
