----------------------------- MODULE MCEvidence -----------------------------
(*************************************************************************)
(* What the shop is told from outside, in one run: the durable inbox, the   *)
(* walk through the bank's own list, the identity of what both report, and  *)
(* the requests in the owner's workbook.  A behaviour runs one of the       *)
(* modules, chosen at the start.                                            *)
(*************************************************************************)
EXTENDS BankIdentity, SePayRecovery, Inbox, SheetSync, TLC

CONSTANTS tr1, tr2, tr3, key, tg1, tg2, sp1, worker1

VARIABLE focus

\* Three transfers of one amount and reference.  The first two are within the
\* window of each other; the third is a second outside it, on both surfaces.  The
\* surfaces stamp each a few seconds apart.
OneKey == [r \in Reports |-> key]
Seconds == (tr1 :> 0) @@ (tr2 :> 100) @@ (tr3 :> 224)
Skew == (tr1 :> 2) @@ (tr2 :> 3) @@ (tr3 :> 0)
Skewed ==
  [r \in Reports |-> Seconds[TransferOf(r)]
                     + (IF AliasType(r) = "api_v2_uuid" THEN Skew[TransferOf(r)] ELSE 0)]

\* Two Telegram claims and a SePay claim of one worker process.
OneWorker == [r \in {tg1, tg2, sp1} |-> worker1]

\* What the owner may ask: to disable the asset he saw, and to enable it again.
SomeBodies == {[action |-> "DISABLE_ASSET", version |-> 1],
               [action |-> "ENABLE_ASSET", version |-> 2]}

\* Runs of two modules, and requests and claims, share model values: a behaviour
\* runs one module, so the symmetry is sound for each.
Alike == Permutations(Reconcilers) \cup Permutations(TelegramRuns)

EvidenceInit ==
  /\ focus \in {"inbox", "recovery", "identity", "sheet"}
  /\ InboxInit /\ RecoveryInit /\ BankInit
  /\ NothingRequested
  /\ IF focus = "sheet" THEN RowsAreTyped ELSE rows = <<>>

EvidenceNext ==
  \/ /\ focus = "inbox"
     /\ InboxNext
     /\ UNCHANGED <<focus, recoveryVars, bankVars, sheetVars>>
  \/ /\ focus = "recovery"
     /\ RecoveryNext
     /\ UNCHANGED <<focus, inboxVars, bankVars, sheetVars>>
  \/ /\ focus = "identity"
     /\ BankNext
     /\ UNCHANGED <<focus, inboxVars, recoveryVars, sheetVars>>
  \/ /\ focus = "sheet"
     /\ SheetNext
     /\ UNCHANGED <<focus, inboxVars, recoveryVars, bankVars>>

EvidenceSpec ==
  EvidenceInit /\ [][EvidenceNext]_<<focus, inboxVars, recoveryVars, bankVars, sheetVars>>

(* Types of the four modules: rows, claims, cursors, aliases and requests.   *)
EvidenceTypeOK == InboxTypeOK /\ RecoveryTypeOK /\ BankTypeOK /\ SheetTypeOK
=============================================================================
