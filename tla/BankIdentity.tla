--------------------------- MODULE BankIdentity ---------------------------
(*************************************************************************)
(* One physical bank transfer, one canonical row: how verified evidence  *)
(* becomes a bank_transaction (insertBankTransactionIfNew in             *)
(* modules/payments/repository.ts).                                      *)
(*                                                                       *)
(* SePay reports a transfer on two surfaces, the webhook and the API, and *)
(* each surface names it by an id of its own.  A report is therefore a    *)
(* transfer and a surface; a run is one database transaction that works  *)
(* on one report, and several of them may work on the same report or on  *)
(* the two reports of a transfer at once.  Read Committed: a run sees     *)
(* what other runs committed, never what they are still writing.         *)
(*                                                                       *)
(* A row is named by the report that inserted it (its provider            *)
(* transaction id is unique), and an alias by the report it stands for   *)
(* (the surface fixes the alias type, the id the alias value).           *)
(*************************************************************************)
EXTENDS Integers, FiniteSets

CONSTANTS BankTransfers,   \* the physical transfers
          KeyOf,           \* report -> its correlation key, or NoKey
          NoKey,           \* the report has no bank reference: nothing correlates
          StampOf,         \* report -> transacted_at, in seconds
          Window,          \* CORRELATION_WINDOW_SECONDS
          BankRuns,        \* database transactions
          NoRow

Surfaces == {"webhook_legacy_id", "api_v2_uuid"}
Reports == BankTransfers \X Surfaces
TransferOf(r) == r[1]
AliasType(r) == r[2]

\* The surfaces stamp one transfer a couple of seconds apart: the skew that the
\* window is to absorb is no more than the window.
ASSUME BankAssumption ==
  /\ NoRow \notin Reports
  /\ StampOf \in [Reports -> Int]
  /\ Window \in Nat
  /\ \A a, b \in Reports :
       TransferOf(a) = TransferOf(b) /\ KeyOf[a] = KeyOf[b] /\ KeyOf[a] # NoKey
         => StampOf[a] - StampOf[b] <= Window

VARIABLES bankRow,    \* report -> what its insert was reported as, or "none"
          alias,      \* report -> the row its alias is mapped to, or NoRow
          bankRun     \* run -> its database transaction

bankVars == <<bankRow, alias, bankRun>>

Verdicts == {"INSERTED", "AMBIGUOUS"}
NoReport == NoRow
Idle == [at |-> "idle", report |-> NoReport, row |-> NoRow, verdict |-> "none"]

Rows == {r \in Reports : bankRow[r] # "none"}
Working(p) == bankRun[p].at # "idle"
ReportOf(p) == bankRun[p].report
Keyed(r) == KeyOf[r] # NoKey

\* pg_advisory_xact_lock on the correlation key, held to the end of the
\* transaction.
HoldsKey(p, k) ==
  /\ bankRun[p].at \in {"insert", "commit"}
  /\ bankRun[p].verdict # "FOUND"
  /\ KeyOf[ReportOf(p)] = k

BankTypeOK ==
  /\ bankRow \in [Reports -> Verdicts \cup {"none"}]
  /\ alias \in [Reports -> Reports \cup {NoRow}]
  /\ bankRun \in [BankRuns ->
       [at : {"idle", "match", "insert", "commit"},
        report : Reports \cup {NoReport},
        row : Reports \cup {NoRow},
        verdict : Verdicts \cup {"none", "FOUND", "EXISTING"}]]

BankInit ==
  /\ bankRow = [r \in Reports |-> "none"]
  /\ alias = [r \in Reports |-> NoRow]
  /\ bankRun = [p \in BankRuns |-> Idle]

-----------------------------------------------------------------------------
(* Steps 1 and 2: a provider id mapped before, then the row of this very id. *)
LookUp(p, r) ==
  /\ ~Working(p)
  /\ \/ /\ alias[r] # NoRow
        /\ bankRun' = [bankRun EXCEPT ![p] =
             [at |-> "commit", report |-> r, row |-> alias[r], verdict |-> "FOUND"]]
     \/ /\ alias[r] = NoRow
        /\ bankRow[r] # "none"
        /\ bankRun' = [bankRun EXCEPT ![p] =
             [at |-> "commit", report |-> r, row |-> r, verdict |-> "FOUND"]]
     \/ /\ alias[r] = NoRow
        /\ bankRow[r] = "none"
        /\ bankRun' = [bankRun EXCEPT ![p] =
             [at |-> IF Keyed(r) THEN "match" ELSE "insert",
              report |-> r, row |-> NoRow, verdict |-> "INSERTED"]]
  /\ UNCHANGED <<bankRow, alias>>

\* Of r's key, and stamped within the window around r; no key equals none.
Correlates(c, r) ==
  /\ Keyed(r) /\ KeyOf[c] = KeyOf[r]
  /\ StampOf[c] >= StampOf[r] - Window
  /\ StampOf[c] <= StampOf[r] + Window

\* Mutant of Candidates: the key alone.
CandidatesOfAnyTime(r) == {c \in Rows : Keyed(r) /\ KeyOf[c] = KeyOf[r]}

Candidates(r) == {c \in Rows : Correlates(c, r)}

\* Those of them already known on r's own surface.
SameSurface(r) ==
  {c \in Candidates(r) : \E a \in Reports : AliasType(a) = AliasType(r) /\ alias[a] = c}

\* Mutant of KeyIsFree: no advisory lock.
KeyIsNeverLocked(p, k) == TRUE

\* The other run that is deciding a report of the key has ended.
KeyIsFree(p, k) == \A q \in BankRuns \ {p} : ~HoldsKey(q, k)

(* Step 3: behind the lock on the key, the sole candidate of the other    *)
(* surface is the same transfer; anything else is stored, as ambiguous    *)
(* when there is something to be ambiguous about.                         *)
Match(p) ==
  LET r == ReportOf(p) IN
  /\ bankRun[p].at = "match"
  /\ KeyIsFree(p, KeyOf[r])
  /\ \/ /\ SameSurface(r) = {}
        /\ \E c \in Reports :
             /\ Candidates(r) = {c}
             /\ bankRun' = [bankRun EXCEPT ![p] =
                  [at |-> "commit", report |-> r, row |-> c, verdict |-> "EXISTING"]]
     \/ /\ Candidates(r) = {}
        /\ bankRun' = [bankRun EXCEPT ![p].at = "insert", ![p].verdict = "INSERTED"]
     \/ /\ SameSurface(r) # {} \/ Cardinality(Candidates(r)) > 1
        /\ bankRun' = [bankRun EXCEPT ![p].at = "insert", ![p].verdict = "AMBIGUOUS"]
  /\ UNCHANGED <<bankRow, alias>>

\* Another run's uncommitted insert of the same provider id makes this one wait.
InsertWaits(p) ==
  \E q \in BankRuns \ {p} :
    /\ ReportOf(q) = ReportOf(p)
    /\ bankRun[q].at = "commit"
    /\ bankRun[q].verdict \in Verdicts

(* insert ... on conflict do nothing: the loser re-reads the winner's row. *)
InsertRow(p) ==
  LET r == ReportOf(p) IN
  /\ bankRun[p].at = "insert"
  /\ ~InsertWaits(p)
  /\ \/ /\ bankRow[r] = "none"
        /\ bankRun' = [bankRun EXCEPT ![p].at = "commit", ![p].row = r]
     \/ /\ bankRow[r] # "none"
        /\ bankRun' = [bankRun EXCEPT ![p] =
             [at |-> "commit", report |-> r, row |-> r, verdict |-> "EXISTING"]]
  /\ UNCHANGED <<bankRow, alias>>

\* An alias already mapped keeps the row it points at.
AttachAlias(r, row) == alias' = [alias EXCEPT ![r] = IF @ = NoRow THEN row ELSE @]

(* The transaction commits: its row and its alias become visible together. *)
BankCommit(p) ==
  LET r == ReportOf(p) IN
  /\ bankRun[p].at = "commit"
  /\ AttachAlias(r, bankRun[p].row)
  /\ bankRow' = IF bankRun[p].verdict \in Verdicts
                THEN [bankRow EXCEPT ![r] = bankRun[p].verdict]
                ELSE bankRow
  /\ bankRun' = [bankRun EXCEPT ![p] = Idle]

(* A crash, a deadlock or an error further on in the transaction. *)
BankAbort(p) ==
  /\ Working(p)
  /\ bankRun' = [bankRun EXCEPT ![p] = Idle]
  /\ UNCHANGED <<bankRow, alias>>

BankNext ==
  \E p \in BankRuns :
    \/ \E r \in Reports : LookUp(p, r)
    \/ Match(p)
    \/ InsertRow(p)
    \/ BankCommit(p)
    \/ BankAbort(p)

BankSpec == BankInit /\ [][BankNext]_bankVars

-----------------------------------------------------------------------------
\* No other transfer has a report that could be taken for one of t's.
Alone(t) ==
  \A a, b \in Reports : TransferOf(a) = t /\ TransferOf(b) # t => ~Correlates(a, b)

(* Two reports of one surface are two transfers: they are never resolved to *)
(* one canonical row, whatever runs at once and whatever aborts.            *)
OneSurfaceOneReportPerRow ==
  \A a, b \in Reports :
    (a # b /\ AliasType(a) = AliasType(b) /\ alias[a] # NoRow) => alias[a] # alias[b]

(* The two reports of a transfer never both become a row that may settle, if *)
(* they carry one key: INSERTED is answered for one of them at most, even    *)
(* when both arrive at the same instant.                                    *)
SettleableOncePerTransfer ==
  \A a, b \in Reports :
    (/\ a # b
     /\ TransferOf(a) = TransferOf(b)
     /\ Keyed(a) /\ KeyOf[a] = KeyOf[b]
     /\ bankRow[a] = "INSERTED") => bankRow[b] # "INSERTED"

(* A report stands for a row of its own or for one of its key within the     *)
(* window around it: what correlates with nothing is merged into nothing.    *)
MergesCorrelate ==
  \A r \in Reports : alias[r] \notin {r, NoRow} => Correlates(alias[r], r)

(* The reports of a transfer that carry one key meet in one row, in either   *)
(* order or at once, when no other transfer's report lies within the window. *)
ReportsMeet ==
  \A a, b \in Reports :
    (/\ alias[a] # NoRow /\ alias[b] # NoRow
     /\ TransferOf(a) = TransferOf(b) /\ Keyed(a) /\ KeyOf[a] = KeyOf[b]
     /\ Alone(TransferOf(a))) => alias[a] = alias[b]

(* What the identity is good for, and how far: no two reports of a surface   *)
(* and nothing outside the window share a row, a transfer has at most one    *)
(* row that may settle, and one whose key is its own within the window has   *)
(* one row for both reports.  Of two transfers that share a key within the   *)
(* window it says no more: NoTransferIsSwallowed fails.                     *)
IdentityWithinWindow ==
  /\ OneSurfaceOneReportPerRow /\ SettleableOncePerTransfer
  /\ MergesCorrelate /\ ReportsMeet

(* Every report stands for a row of its own transfer: "anything else -> store *)
(* the arrival (nothing is lost)".  It fails: the first report of a second   *)
(* transfer of the key, heard on one surface within the window of the first  *)
(* transfer's sole report on the other, is merged into that row.            *)
NoTransferIsSwallowed ==
  \A r \in Reports : alias[r] # NoRow => TransferOf(alias[r]) = TransferOf(r)

(* A report that was resolved to another row adds no row of its own: "one   *)
(* surface never reports the same transfer twice (a repeat carries the same *)
(* provider id and is caught in step 2)".                                   *)
RepeatAddsNoRow ==
  \A r \in Reports : alias[r] \notin {r, NoRow} => bankRow[r] = "none"
=============================================================================
