---------------------------- MODULE StockImport ----------------------------
(*************************************************************************)
(* How credentials become stock: the owner's import session                *)
(* (digital-goods/inventory-import-session.ts), the import itself          *)
(* (inventory-import.ts), the sheet's door to the same session             *)
(* (google-sheets/inventory-intake.ts), the Vault they write to and the     *)
(* owner's quarantine of a unit (inventory-item-ops.ts).                   *)
(*                                                                         *)
(* The Vault is keyed: the secret of a credential is stored under its       *)
(* fingerprint and a staged input under the hash of its text, so the same  *)
(* material always has the same reference.  The Vault and the database are *)
(* two stores; a step below is one transaction or one Vault call, except   *)
(* that a cancel, and the sheet's opening of a session, are one step each.  *)
(* Every input is for one variant, and its lines parse.                    *)
(*************************************************************************)
EXTENDS Integers, Sequences, FiniteSets, SequencesExt

CONSTANTS Credentials,   \* fingerprints
          Inputs,        \* texts the owner may stage
          LinesOf,       \* input -> its credentials
          StockUnits,    \* digital_asset rows there may be
          Importers,     \* handlers that may be at work
          MaxHandlers,   \* how many handlers are started, in a behaviour
          Challenges,    \* one-time confirmations handed to the sheet
          NoInput, NoCredential, NoChallenge

ASSUME ImportAssumption ==
  /\ MaxHandlers \in Nat
  /\ LinesOf \in [Inputs -> Seq(Credentials)]
  /\ Inputs \cap Credentials = {}
  /\ NoInput \notin Inputs /\ NoCredential \notin Credentials /\ NoChallenge \notin Challenges

VARIABLES stock,      \* digital_asset rows: credential and status
          vault,      \* references whose material is in the Vault
          session,    \* the owner's row of admin_inventory_import
          challenge,  \* google_sheets_inventory_intake_challenge rows
          bound,      \* challenge -> the text that was previewed for it, the text it was
                      \* issued for, and whether one was staged between the two
          importer,   \* the handlers in progress
          started     \* handlers started so far: the bound of the model

importVars == <<stock, vault, session, challenge, bound, importer, started>>

UnitStatuses == {"absent", "AVAILABLE", "DELIVERED", "COMPROMISED", "REVOKED"}
Absent == [secret |-> NoCredential, status |-> "absent"]
NoSession == [status |-> "none", input |-> NoInput, chosen |-> FALSE, lapsed |-> FALSE]
NoImport == [at |-> "idle", input |-> NoInput, seen |-> NoInput, door |-> NoChallenge,
             todo |-> <<>>, ready |-> FALSE]
Unissued == [status |-> "none", input |-> NoInput, lapsed |-> FALSE]
NoneBound == [shown |-> NoInput, text |-> NoInput, restaged |-> FALSE]
Open == {"WAITING_INPUT", "READY", "PROCESSING"}

ImportTypeOK ==
  /\ stock \in [StockUnits -> [secret : Credentials \cup {NoCredential}, status : UnitStatuses]]
  /\ vault \subseteq Credentials \cup Inputs
  /\ session \in [status : Open \cup {"none", "COMMITTED", "CANCELLED"},
                  input : Inputs \cup {NoInput}, chosen : BOOLEAN, lapsed : BOOLEAN]
  /\ challenge \in [Challenges -> [status : {"none", "PREVIEWED", "PROCESSING", "CONSUMED", "EXPIRED"},
                                   input : Inputs \cup {NoInput}, lapsed : BOOLEAN]]
  /\ bound \in [Challenges -> [shown : Inputs \cup {NoInput}, text : Inputs \cup {NoInput},
                               restaged : BOOLEAN]]
  /\ started \in 0 .. MaxHandlers
  /\ \A r \in Importers :
       /\ importer[r].at \in {"idle", "staging", "binding", "issuing", "checking", "preparing",
                              "revealing", "writing", "inserting", "dropping"}
       /\ {importer[r].input, importer[r].seen} \subseteq Inputs \cup {NoInput}
       /\ importer[r].door \in Challenges \cup {NoChallenge}
       /\ ToSet(importer[r].todo) \subseteq Credentials

ImportInit ==
  /\ stock = [u \in StockUnits |-> Absent]
  /\ vault = {}
  /\ session = NoSession
  /\ challenge = [h \in Challenges |-> Unissued]
  /\ bound = [h \in Challenges |-> NoneBound]
  /\ importer = [r \in Importers |-> NoImport]
  /\ started = 0

-----------------------------------------------------------------------------
At(r, step) == importer[r].at = step
Starts(r) == At(r, "idle") /\ started < MaxHandlers /\ started' = started + 1
GoTo(r, step) == importer' = [importer EXCEPT ![r].at = step]
Stop(r) == importer' = [importer EXCEPT ![r] = NoImport]

(* deleteAssetVaultRef of every reference in R: the Vault deletes it, or     *)
(* refuses.  (inventory_vault_orphan then remembers it, which nobody reads.) *)
DeleteRefs(R) == \E refused \in SUBSET R : vault' = vault \ (R \ refused)

Refs(S) == S \ {NoInput}
Replaced(s) == IF session.status = "none" THEN session ELSE s
Cancelled == [NoSession EXCEPT !.status = "CANCELLED", !.lapsed = TRUE]

\* cancelInventoryImportSession, when there is a session to cancel.
CancelSession ==
  /\ session' = Replaced(Cancelled)
  /\ DeleteRefs(Refs({session.input}))

-----------------------------------------------------------------------------
(* The owner's chat.                                                        *)

\* startInventoryImportSession: the row is reset whatever it was.
StartSession ==
  /\ session' = [NoSession EXCEPT !.status = "WAITING_INPUT", !.chosen = TRUE]
  /\ UNCHANGED <<stock, vault, challenge, bound, importer>>

Cancel ==
  /\ session.status # "none"
  /\ CancelSession
  /\ UNCHANGED <<stock, challenge, bound, importer>>

\* getInventoryImportSession forgets a lapsed session, not its input.
ForgetSession ==
  /\ session.status # "none" /\ session.lapsed
  /\ session' = NoSession
  /\ UNCHANGED <<stock, vault, challenge, bound, importer>>

\* stageInventoryImportInput, first half: the text is stored in the Vault.
Staged(r, i, door, ready) ==
  /\ vault' = vault \cup {i}
  /\ importer' = [importer EXCEPT ![r] =
       [NoImport EXCEPT !.at = "binding", !.input = i, !.seen = session.input,
                        !.door = door, !.ready = ready]]

StageText(r, i) ==
  /\ Starts(r)
  /\ session.status \in Open /\ ~session.lapsed
  /\ Staged(r, i, NoChallenge, TRUE)
  /\ UNCHANGED <<stock, session, challenge, bound>>

AfterBind(r) == IF importer[r].door = NoChallenge THEN Stop(r) ELSE GoTo(r, "issuing")

\* A text is staged between a preview and the challenge it is for.
Restages(r) ==
  bound' = [h \in Challenges |->
    IF \E q \in Importers \ {r} : At(q, "issuing") /\ importer[q].door = h
    THEN [bound[h] EXCEPT !.restaged = TRUE] ELSE bound[h]]

\* Second half: whatever the row is by now, it holds this text; the text it
\* replaces is deleted.
BindText(r) ==
  /\ At(r, "binding")
  /\ session' = Replaced([session EXCEPT !.status = "READY", !.input = importer[r].input,
                                         !.lapsed = FALSE])
  /\ DeleteRefs(Refs({importer[r].seen}) \ {importer[r].input})
  /\ AfterBind(r)
  /\ Restages(r)
  /\ UNCHANGED <<stock, challenge>>

\* The update fails: the text is an orphan, and the sheet cancels the session.
BindFails(r) ==
  /\ At(r, "binding")
  /\ IF importer[r].door = NoChallenge THEN UNCHANGED <<vault, session>> ELSE CancelSession
  /\ Stop(r)
  /\ UNCHANGED <<stock, challenge, bound>>

-----------------------------------------------------------------------------
(* The import, in either door's confirmation.                               *)

\* The statuses of digital_asset_active_fingerprint_uq; the mutant is the
\* index as it was before migration 002.
IndexedOnceSold == {"RESERVED", "READY", "DELIVERED"}
Indexed == {"AVAILABLE", "RESERVED", "READY", "DELIVERED"}
InStock(c) == \E u \in StockUnits : stock[u].secret = c /\ stock[u].status \in Indexed

\* confirmInventoryImportSession: under the lock of the row, a READY session
\* becomes PROCESSING.  The sheet names the text it expects; the chat does not.
AnyInput(r) == TRUE
ExpectedInput(r) ==
  importer[r].door # NoChallenge /\ importer[r].input # NoInput =>
    session.input = importer[r].input

Confirmable == session.status = "READY" /\ ~session.lapsed /\ session.input # NoInput

Prepare(r) ==
  /\ importer' = [importer EXCEPT ![r].at = "revealing", ![r].input = session.input]
  /\ session' = [session EXCEPT !.status = "PROCESSING"]

ConfirmInChat(r) ==
  /\ Starts(r)
  /\ Confirmable
  /\ Prepare(r)
  /\ UNCHANGED <<stock, vault, challenge, bound>>

ConfirmForSheet(r) ==
  /\ At(r, "preparing")
  /\ Confirmable
  /\ ExpectedInput(r)
  /\ Prepare(r)
  /\ UNCHANGED <<stock, vault, challenge, bound>>

Reopened(r) ==
  challenge' = [h \in Challenges |->
    IF h = importer[r].door /\ challenge[h].status = "PROCESSING"
    THEN [challenge[h] EXCEPT !.status = "PREVIEWED"] ELSE challenge[h]]

Consumed(h) ==
  challenge' = IF h # NoChallenge /\ challenge[h].status = "PROCESSING"
               THEN [challenge EXCEPT ![h].status = "CONSUMED", ![h].input = NoInput]
               ELSE challenge

\* Somebody else's import was committed since: answered as a repetition.
SheetFindsCommitted(r) ==
  /\ At(r, "preparing")
  /\ session.status = "COMMITTED" /\ ~session.lapsed
  /\ Consumed(importer[r].door)
  /\ Stop(r)
  /\ UNCHANGED <<stock, vault, session, bound>>

\* Refused: the challenge may be tried again.
SheetIsRefused(r) ==
  /\ At(r, "preparing")
  /\ ~(Confirmable /\ ExpectedInput(r))
  /\ session.status = "COMMITTED" => session.lapsed
  /\ Reopened(r)
  /\ IF session.status # "none" /\ session.lapsed
     THEN session' = NoSession /\ DeleteRefs(Refs({session.input}))
     ELSE UNCHANGED session /\ UNCHANGED vault
  /\ Stop(r)
  /\ UNCHANGED <<stock, bound>>

\* The error path of the confirmation: the session is READY again, whatever
\* it was, and so is the challenge.
Failed(r) ==
  /\ session' = Replaced([session EXCEPT !.status = "READY"])
  /\ Reopened(r)
  /\ Stop(r)

\* The check before it, which reads without the lock, finds another text: the
\* challenge's text is deleted; it keeps its status unless it was taken again.
SheetFindsChanged(r) ==
  LET h == importer[r].door IN
  /\ At(r, "preparing")
  /\ session.input # importer[r].input
  /\ DeleteRefs(Refs({importer[r].input}))
  /\ challenge' = IF challenge[h].status \in {"PROCESSING", "EXPIRED"}
                  THEN [challenge EXCEPT ![h].status = "EXPIRED", ![h].input = NoInput]
                  ELSE challenge
  /\ session' = IF session.lapsed THEN NoSession ELSE session
  /\ Stop(r)
  /\ UNCHANGED <<stock, bound>>

RevealText(r) ==
  /\ At(r, "revealing")
  /\ IF importer[r].input \in vault
     THEN /\ importer' = [importer EXCEPT ![r].at = "writing", ![r].todo = LinesOf[importer[r].input]]
          /\ UNCHANGED <<session, challenge>>
     ELSE Failed(r)
  /\ UNCHANGED <<stock, vault, bound>>

\* One line of importDigitalInventory: the secret is written, then the row.
WriteSecret(r) ==
  /\ At(r, "writing") /\ importer[r].todo # <<>>
  /\ vault' = vault \cup {Head(importer[r].todo)}
  /\ GoTo(r, "inserting")
  /\ UNCHANGED <<stock, session, challenge, bound>>

NextLine(r) ==
  importer' = [importer EXCEPT ![r].at = "writing", ![r].todo = Tail(@)]

InsertUnit(r, u) ==
  LET c == Head(importer[r].todo) IN
  /\ At(r, "inserting")
  /\ ~InStock(c)
  /\ stock[u].status = "absent"
  /\ stock' = [stock EXCEPT ![u] = [secret |-> c, status |-> "AVAILABLE"]]
  /\ NextLine(r)
  /\ UNCHANGED <<vault, session, challenge, bound>>

\* The unique index refuses a duplicate, and its compensation deletes the
\* reference just written.
DuplicateLine(r) ==
  LET c == Head(importer[r].todo) IN
  /\ At(r, "inserting")
  /\ InStock(c)
  /\ DeleteRefs({c})
  /\ NextLine(r)
  /\ UNCHANGED <<stock, session, challenge, bound>>

\* The Vault refuses the secret: the import ends half done.
WriteFails(r) ==
  /\ At(r, "writing") /\ importer[r].todo # <<>>
  /\ Failed(r)
  /\ UNCHANGED <<stock, vault, bound>>

\* Any other failure of the insert ends the import half done.
InsertFails(r) ==
  /\ At(r, "inserting")
  /\ DeleteRefs({Head(importer[r].todo)})
  /\ Failed(r)
  /\ UNCHANGED <<stock, bound>>

\* The session is COMMITTED, whatever it has become since.
Commit(r) ==
  /\ At(r, "writing") /\ importer[r].todo = <<>>
  /\ session' = Replaced([session EXCEPT !.status = "COMMITTED", !.input = NoInput])
  /\ GoTo(r, "dropping")
  /\ UNCHANGED <<stock, vault, challenge, bound>>

\* The staged text is deleted; the sheet's challenge is CONSUMED if it is
\* still PROCESSING (it was set back to PREVIEWED before the import).
DropText(r) ==
  /\ At(r, "dropping")
  /\ DeleteRefs({importer[r].input})
  /\ Consumed(importer[r].door)
  /\ Stop(r)
  /\ UNCHANGED <<stock, session, bound>>

-----------------------------------------------------------------------------
(* The sheet.                                                               *)

Previewed == {h \in Challenges : challenge[h].status = "PREVIEWED"}

\* Preview: open challenges expire, the session they share is cancelled and
\* started anew, unless an import is running.
OpenForSheet(r, h, i) ==
  /\ Starts(r)
  /\ challenge[h].status = "none" /\ \A q \in Importers : importer[q].door # h
  /\ session.status # "PROCESSING"
  /\ challenge' = [g \in Challenges |->
       IF g \in Previewed THEN [challenge[g] EXCEPT !.status = "EXPIRED", !.input = NoInput]
       ELSE challenge[g]]
  /\ DeleteRefs(Refs({challenge[g].input : g \in Previewed}
                     \cup (IF session.status \in Open THEN {session.input} ELSE {})))
  /\ session' = [NoSession EXCEPT !.status = "WAITING_INPUT", !.chosen = TRUE]
  /\ importer' = [importer EXCEPT ![r] =
       [NoImport EXCEPT !.at = "staging", !.input = i, !.door = h]]
  /\ UNCHANGED <<stock, bound>>

Known(c) == \E u \in StockUnits : stock[u].secret = c

StageForSheet(r) ==
  LET i == importer[r].input IN
  /\ At(r, "staging")
  /\ session.status = "WAITING_INPUT" /\ session.chosen /\ ~session.lapsed
  /\ Staged(r, i, importer[r].door, \E c \in ToSet(LinesOf[i]) : ~Known(c))
  /\ UNCHANGED <<stock, session, challenge, bound>>

\* The chat has changed the session since: it is cancelled.
StagingIsRefused(r) ==
  /\ At(r, "staging")
  /\ IF session.status = "WAITING_INPUT"
     THEN session.lapsed /\ session' = NoSession /\ UNCHANGED vault
     ELSE CancelSession
  /\ Stop(r)
  /\ UNCHANGED <<stock, challenge, bound>>

\* Nothing staged is new, or the session is gone: no challenge.
NoChallengeIsIssued(r) ==
  /\ At(r, "issuing")
  /\ IF importer[r].ready /\ session.lapsed
     THEN session' = NoSession /\ UNCHANGED vault
     ELSE (importer[r].ready => session.input = NoInput) /\ CancelSession
  /\ Stop(r)
  /\ UNCHANGED <<stock, challenge, bound>>

\* The preview that is answered is of the text staged; the challenge is issued
\* for what the session holds when it is read again.
IssueChallenge(r) ==
  LET h == importer[r].door IN
  /\ At(r, "issuing")
  /\ importer[r].ready /\ session.input # NoInput /\ ~session.lapsed
  /\ challenge' = [challenge EXCEPT ![h] =
       [status |-> "PREVIEWED", input |-> session.input, lapsed |-> FALSE]]
  /\ bound' = [bound EXCEPT ![h].shown = importer[r].input, ![h].text = session.input]
  /\ Stop(r)
  /\ UNCHANGED <<stock, vault, session>>

\* Confirm, first transaction.
TakeChallenge(r, h) ==
  /\ Starts(r)
  /\ \/ challenge[h].status = "PREVIEWED" /\ ~challenge[h].lapsed
     \/ challenge[h].status = "PROCESSING"
  /\ challenge' = [challenge EXCEPT ![h].status = "PROCESSING"]
  /\ importer' = [importer EXCEPT ![r] =
       [NoImport EXCEPT !.at = "checking", !.input = challenge[h].input, !.door = h]]
  /\ UNCHANGED <<stock, vault, session, bound>>

\* Then the session is read.  It was committed already: the challenge is
\* settled without an import.
SettleCommitted(r) ==
  /\ At(r, "checking")
  /\ session.status = "COMMITTED" /\ session.chosen /\ ~session.lapsed
  /\ DeleteRefs(Refs({importer[r].input}))
  /\ Consumed(importer[r].door)
  /\ Stop(r)
  /\ UNCHANGED <<stock, session, bound>>

Matching(r) == session.status = "READY" /\ ~session.lapsed /\ session.input = importer[r].input

\* It holds something else: busy, and the challenge stays PROCESSING.
SheetIsBusy(r) ==
  /\ At(r, "checking")
  /\ ~Matching(r) /\ (session.status # "COMMITTED" \/ session.lapsed)
  /\ session' = IF session.lapsed THEN NoSession ELSE session
  /\ Stop(r)
  /\ UNCHANGED <<stock, vault, challenge, bound>>

\* It holds the challenge's text: on to the import.
SheetMayImport(r) ==
  /\ At(r, "checking")
  /\ Matching(r)
  /\ Reopened(r)
  /\ GoTo(r, "preparing")
  /\ UNCHANGED <<stock, vault, session, bound>>

\* expireGoogleSheetsInventoryChallenges, and a confirm that finds the
\* challenge expired: its text is deleted and the session holding it cancelled.
ExpireChallenge(h) ==
  LET i == challenge[h].input IN
  /\ \/ challenge[h].status = "PREVIEWED" /\ challenge[h].lapsed
     \/ challenge[h].status = "EXPIRED" /\ i # NoInput
  /\ challenge' = [challenge EXCEPT ![h].status = "EXPIRED", ![h].input = NoInput]
  /\ DeleteRefs(Refs({i}))
  /\ session' = IF session.lapsed THEN NoSession
                ELSE IF i # NoInput /\ session.input = i THEN Cancelled ELSE session
  /\ UNCHANGED <<stock, bound, importer>>

-----------------------------------------------------------------------------
(* Time, crashes, and the life of a unit.                                   *)

LapseSession ==
  /\ session.status \in Open \cup {"COMMITTED"} /\ ~session.lapsed
  /\ session' = [session EXCEPT !.lapsed = TRUE]
  /\ UNCHANGED <<stock, vault, challenge, bound, importer>>

LapseChallenge(h) ==
  /\ challenge[h].status \in {"PREVIEWED", "PROCESSING"} /\ ~challenge[h].lapsed
  /\ challenge' = [challenge EXCEPT ![h].lapsed = TRUE]
  /\ UNCHANGED <<stock, vault, session, bound, importer>>

ImporterDies(r) ==
  /\ ~At(r, "idle")
  /\ Stop(r)
  /\ UNCHANGED <<stock, vault, session, challenge, bound>>

Move(u, from, to) ==
  /\ stock[u].status \in from
  /\ stock' = [stock EXCEPT ![u].status = to]
  /\ UNCHANGED <<vault, session, challenge, bound, importer>>

SellUnit(u) == Move(u, {"AVAILABLE"}, "DELIVERED")
Quarantine(u) == Move(u, {"AVAILABLE"}, "COMPROMISED")
Restore(u) == Move(u, {"COMPROMISED"}, "AVAILABLE") /\ ~InStock(stock[u].secret)
Revoke(u) == Move(u, {"AVAILABLE", "COMPROMISED"}, "REVOKED")

HandlerStarts ==
  \E r \in Importers :
    \/ ConfirmInChat(r)
    \/ \E i \in Inputs : StageText(r, i)
    \/ \E h \in Challenges : TakeChallenge(r, h)
    \/ \E h \in Challenges, i \in Inputs : OpenForSheet(r, h, i)

HandlerGoesOn ==
  \E r \in Importers :
    \/ BindText(r) \/ BindFails(r)
    \/ ConfirmForSheet(r) \/ SheetFindsCommitted(r) \/ SheetFindsChanged(r) \/ SheetIsRefused(r)
    \/ RevealText(r) \/ WriteSecret(r) \/ WriteFails(r)
    \/ DuplicateLine(r) \/ InsertFails(r)
    \/ \E u \in StockUnits : InsertUnit(r, u)
    \/ Commit(r) \/ DropText(r)
    \/ StageForSheet(r) \/ StagingIsRefused(r)
    \/ IssueChallenge(r) \/ NoChallengeIsIssued(r)
    \/ SettleCommitted(r) \/ SheetIsBusy(r) \/ SheetMayImport(r)
    \/ ImporterDies(r)

AroundThem ==
  \/ StartSession \/ Cancel \/ ForgetSession \/ LapseSession
  \/ \E h \in Challenges : ExpireChallenge(h) \/ LapseChallenge(h)
  \/ \E u \in StockUnits : SellUnit(u) \/ Quarantine(u) \/ Restore(u) \/ Revoke(u)

ImportNext ==
  \/ HandlerStarts
  \/ HandlerGoesOn /\ UNCHANGED started
  \/ AroundThem /\ UNCHANGED started

ImportSpec == ImportInit /\ [][ImportNext]_importVars

-----------------------------------------------------------------------------
(* A credential is for sale, or sold, as one unit: importing it again, or    *)
(* putting a quarantined unit back after it was imported again, never makes  *)
(* it two.                                                                   *)
SoldAsOneUnit ==
  \A u, v \in StockUnits :
    /\ stock[u].secret = stock[v].secret
    /\ {stock[u].status, stock[v].status} \subseteq {"AVAILABLE", "DELIVERED"}
    => u = v

(* What the sheet's confirmation imports is the text its challenge was        *)
(* issued for, though the chat may stage another text into the session they  *)
(* share between any two of its steps; and that is the text the sheet was     *)
(* shown, unless another one was staged between the preview and the challenge *)
(* (inventory-intake.ts reads the session again there).                      *)
SheetImportsItsChallenge ==
  \A r \in Importers :
    LET b == bound[importer[r].door] IN
    importer[r].door # NoChallenge
      /\ importer[r].at \in {"revealing", "writing", "inserting", "dropping"} =>
        importer[r].input = b.text /\ (b.restaged \/ b.text = b.shown)

(* A credential is one unit however it is imported, and the sheet's door      *)
(* imports what its challenge stands for.                                    *)
ImportedAsConfirmed == SoldAsOneUnit /\ SheetImportsItsChallenge

(* The sheet imports what it showed.  The window above breaks it.            *)
SheetImportsWhatItShowed ==
  \A r \in Importers :
    importer[r].door # NoChallenge
      /\ importer[r].at \in {"revealing", "writing", "inserting", "dropping"} =>
        importer[r].input = bound[importer[r].door].shown

(* The Vault holds the secret of every unit that is for sale.                *)
UnitsHaveTheirSecret ==
  \A u \in StockUnits : stock[u].status = "AVAILABLE" => stock[u].secret \in vault
=============================================================================
