--------------------------- MODULE EvidenceProofs ---------------------------
(***************************************************************************)
(* What evidence and requests from outside come to, for any transfers, keys, *)
(* stamps, windows, pages, events and requests and any number of             *)
(* transactions, recoveries, workers and passes at once.                     *)
(* Identity: behind the lock on a key there is one run at a time between    *)
(* its look at the committed rows and its commit, so what it saw is still   *)
(* so when its row and its alias become visible (TwinsMeet: a twin's row is  *)
(* found, as the window absorbs the skew); reports without a key are only    *)
(* themselves.  Recovery: what is older than the overlap was listed     *)
(* before the window began, and moves to later pages only.  The inbox: a     *)
(* handler that succeeded is recorded before its run reports; only updates   *)
(* are pruned or redacted; and each report is fenced by the generation of   *)
(* the claim it ends.  The owner's requests: a request is recorded in the    *)
(* transaction that acts on it, under a lock on its id.                      *)
(***************************************************************************)
EXTENDS BankIdentity, SePayRecovery, Inbox, SheetSync, FiniteSetTheorems, TLAPS

\* A run that decided a report and has yet to commit it.
Deciding(p) == bankRun[p].at \in {"insert", "commit"} /\ bankRun[p].verdict # "FOUND"

\* Two of them never work on one key.
OneRunPerKey ==
  \A p, q \in BankRuns :
    (/\ p # q /\ Deciding(p) /\ Deciding(q)
     /\ Keyed(ReportOf(p)))
    => KeyOf[ReportOf(p)] # KeyOf[ReportOf(q)]

\* A report stands for itself or for a row it correlates with; without a key,
\* for itself.
StandsFor(r, c) == c = r \/ Correlates(c, r)

\* Two reports of one transfer, with one key.
Twins(a, b) == TransferOf(a) = TransferOf(b) /\ Keyed(a) /\ KeyOf[a] = KeyOf[b]

\* What the steps of a run leave in it.
RunIsConsistent(p) ==
  LET r == ReportOf(p)  c == bankRun[p].row  v == bankRun[p].verdict IN
  /\ bankRun[p].at # "idle" => r \in Reports
  /\ bankRun[p].at = "match" => Keyed(r)
  /\ bankRun[p].at = "insert" => v \in Verdicts
  /\ bankRun[p].at = "commit" =>
       /\ c \in Reports
       /\ v \in Verdicts \cup {"EXISTING", "FOUND"}
       /\ v \in Verdicts => c = r
       /\ v \in {"EXISTING", "FOUND"} => bankRow[c] # "none"
       /\ v = "FOUND" => alias[r] # NoRow
       /\ v = "EXISTING" => StandsFor(r, c)
RunsAreConsistent == \A p \in BankRuns : RunIsConsistent(p)

\* An alias names a committed row, and a committed row has its alias.
AliasesAreOfRows ==
  \A r \in Reports :
    /\ alias[r] # NoRow => bankRow[alias[r]] # "none"
    /\ bankRow[r] # "none" => alias[r] # NoRow

\* The alias a run is about to attach is not another's of the same surface.
AliasIsUnclaimed ==
  \A p \in BankRuns :
    LET r == ReportOf(p) IN
    bankRun[p].at = "commit" /\ bankRun[p].verdict # "FOUND" /\ alias[r] = NoRow =>
      \A b \in Reports : AliasType(b) = AliasType(r) => alias[b] # bankRun[p].row

\* A keyed report is about to be inserted as settleable only while no twin of it
\* has a row.
InsertedIsFirst ==
  \A p \in BankRuns :
    Deciding(p) /\ bankRun[p].verdict = "INSERTED" =>
      \A c \in Reports : Twins(ReportOf(p), c) => bankRow[c] = "none"

\* While a run decides a report of a transfer that is alone, its twin has no row,
\* or the one the run is about to attach.
TwinsMeet ==
  \A p \in BankRuns : \A r, b \in Reports :
    (/\ Deciding(p) /\ ReportOf(p) = r /\ alias[r] = NoRow
     /\ b # r /\ Twins(r, b) /\ Alone(TransferOf(r)))
    => alias[b] = NoRow \/ (bankRun[p].at = "commit" /\ alias[b] = bankRun[p].row)

BankInv ==
  /\ BankTypeOK /\ OneRunPerKey /\ RunsAreConsistent /\ AliasesAreOfRows
  /\ AliasIsUnclaimed /\ InsertedIsFirst /\ TwinsMeet /\ IdentityWithinWindow

-----------------------------------------------------------------------------
(* What a step does *)

LEMMA InitBank == BankInit => BankInv
<1> SUFFICES ASSUME BankInit PROVE BankInv
  OBVIOUS
<1> USE BankAssumption DEF BankInit, Idle
<1>1. BankTypeOK
  BY DEF BankTypeOK, NoReport, Verdicts
<1>2. OneRunPerKey /\ AliasIsUnclaimed /\ InsertedIsFirst /\ TwinsMeet
  BY DEF OneRunPerKey, AliasIsUnclaimed, InsertedIsFirst, TwinsMeet, Deciding
<1>3. RunsAreConsistent
  BY DEF RunsAreConsistent, RunIsConsistent
<1>4. AliasesAreOfRows /\ IdentityWithinWindow
  BY DEF AliasesAreOfRows, IdentityWithinWindow, OneSurfaceOneReportPerRow, SettleableOncePerTransfer,
     MergesCorrelate, ReportsMeet
<1> QED
  BY <1>1, <1>2, <1>3, <1>4 DEF BankInv

LEMMA NextBankType == BankTypeOK /\ RunsAreConsistent /\ [BankNext]_bankVars => BankTypeOK'
<1> SUFFICES ASSUME BankTypeOK, RunsAreConsistent, [BankNext]_bankVars PROVE BankTypeOK'
  OBVIOUS
<1> USE DEF BankTypeOK, Verdicts
<1>1. CASE UNCHANGED bankVars
  BY <1>1 DEF bankVars
<1>2. ASSUME NEW p \in BankRuns, NEW r \in Reports, LookUp(p, r) PROVE BankTypeOK'
  BY <1>2 DEF LookUp
<1>3. ASSUME NEW p \in BankRuns, Match(p) PROVE BankTypeOK'
  BY <1>3 DEF Match, ReportOf
<1>4. ASSUME NEW p \in BankRuns, InsertRow(p) PROVE BankTypeOK'
  BY <1>4 DEF InsertRow, ReportOf, NoReport
<1>5. ASSUME NEW p \in BankRuns, BankCommit(p) PROVE BankTypeOK'
  BY <1>5 DEF BankCommit, AttachAlias, ReportOf, Idle, NoReport
<1>6. ASSUME NEW p \in BankRuns, BankAbort(p) PROVE BankTypeOK'
  BY <1>6 DEF BankAbort, Idle, NoReport
<1> QED
  BY <1>1, <1>2, <1>3, <1>4, <1>5, <1>6 DEF BankNext

\* The lock: whoever starts to decide finds no other run at it.
LEMMA KeyStep ==
  ASSUME BankTypeOK, RunsAreConsistent, OneRunPerKey, [BankNext]_bankVars
  PROVE  OneRunPerKey'
<1> USE DEF BankTypeOK, OneRunPerKey, Deciding, ReportOf, Keyed
<1>1. CASE UNCHANGED bankVars
  BY <1>1 DEF bankVars
<1>2. ASSUME NEW p \in BankRuns, NEW r \in Reports, LookUp(p, r) PROVE OneRunPerKey'
  BY <1>2 DEF LookUp
<1>3. ASSUME NEW p \in BankRuns, Match(p) PROVE OneRunPerKey'
  <2>1. bankRun'[p].report = bankRun[p].report
    BY <1>3 DEF Match
  <2>2. \A q \in BankRuns \ {p} : bankRun'[q] = bankRun[q] /\
          (Deciding(q) => KeyOf[ReportOf(q)] # KeyOf[ReportOf(p)])
    BY <1>3 DEF Match, KeyIsFree, HoldsKey
  <2> QED
    BY <2>1, <2>2
<1>4. ASSUME NEW p \in BankRuns, InsertRow(p) PROVE OneRunPerKey'
  <2>1. Deciding(p) /\ bankRun'[p].report = bankRun[p].report
    BY <1>4 DEF InsertRow, RunsAreConsistent, RunIsConsistent, Verdicts
  <2>2. \A q \in BankRuns \ {p} : bankRun'[q] = bankRun[q]
    BY <1>4 DEF InsertRow
  <2> QED
    BY <2>1, <2>2
<1>5. ASSUME NEW p \in BankRuns, BankCommit(p) \/ BankAbort(p) PROVE OneRunPerKey'
  <2>1. bankRun'[p].at = "idle" /\ \A q \in BankRuns \ {p} : bankRun'[q] = bankRun[q]
    BY <1>5 DEF BankCommit, BankAbort, Idle
  <2> QED
    BY <2>1
<1> QED
  BY <1>1, <1>2, <1>3, <1>4, <1>5 DEF BankNext

\* A run changes by its own steps only.
LEMMA RunChanges ==
  ASSUME BankTypeOK, [BankNext]_bankVars, NEW p \in BankRuns
  PROVE  \/ bankRun'[p] = bankRun[p]
         \/ (\E r \in Reports : LookUp(p, r)) \/ Match(p) \/ InsertRow(p) \/ BankCommit(p) \/ BankAbort(p)
<1>1. CASE UNCHANGED bankVars
  BY <1>1 DEF bankVars
<1>2. ASSUME NEW q \in BankRuns, q # p,
             \/ \E r \in Reports : LookUp(q, r)
             \/ Match(q) \/ InsertRow(q) \/ BankCommit(q) \/ BankAbort(q)
      PROVE  bankRun'[p] = bankRun[p]
  BY <1>2 DEF LookUp, Match, InsertRow, BankCommit, BankAbort, BankTypeOK
<1> QED
  BY <1>1, <1>2 DEF BankNext

\* Aliases and rows are for good: a commit only adds.
LEMMA RowsStay ==
  ASSUME BankTypeOK, RunsAreConsistent, [BankNext]_bankVars, NEW r \in Reports
  PROVE  /\ bankRow[r] # "none" => bankRow'[r] # "none"
         /\ alias[r] # NoRow => alias'[r] = alias[r]
<1> USE DEF BankTypeOK, Verdicts
<1>1. CASE UNCHANGED <<bankRow, alias>>
  BY <1>1
<1>2. ASSUME NEW p \in BankRuns, BankCommit(p)
      PROVE  /\ bankRow[r] # "none" => bankRow'[r] # "none"
             /\ alias[r] # NoRow => alias'[r] = alias[r]
  BY <1>2 DEF BankCommit, AttachAlias, ReportOf
<1> QED
  BY <1>1, <1>2 DEF BankNext, bankVars, LookUp, Match, InsertRow, BankAbort

\* The answer of a run stays what it read: the row it found is not removed.
LEMMA RunStepIsConsistent ==
  ASSUME BankTypeOK, RunsAreConsistent, AliasesAreOfRows, [BankNext]_bankVars
  PROVE  RunsAreConsistent'
<1> SUFFICES ASSUME NEW p \in BankRuns PROVE RunIsConsistent(p)'
  BY DEF RunsAreConsistent
<1> USE DEF BankTypeOK, ReportOf, RunIsConsistent
<1>1. RunIsConsistent(p)
  BY DEF RunsAreConsistent
<1>2. CASE bankRun'[p] = bankRun[p]
  BY <1>1, <1>2, RowsStay
<1>3. ASSUME NEW r \in Reports, LookUp(p, r) PROVE RunIsConsistent(p)'
  BY <1>3, BankAssumption DEF LookUp, AliasesAreOfRows, Verdicts
<1>4. CASE Match(p)
  <2>1. CASE bankRun'[p].at = "insert"
    BY <1>1, <1>4, <2>1 DEF Match, Verdicts
  <2>2. CASE bankRun'[p].at # "insert"
    <3>1. PICK c \in Reports :
            /\ Candidates(bankRun[p].report) = {c}
            /\ bankRun' = [bankRun EXCEPT ![p] =
                 [at |-> "commit", report |-> bankRun[p].report, row |-> c, verdict |-> "EXISTING"]]
      BY <1>4, <2>2 DEF Match
    <3>2. bankRow[c] # "none" /\ StandsFor(bankRun[p].report, c) /\ bankRow' = bankRow
      BY <1>1, <1>4, <3>1 DEF Match, Candidates, Rows, StandsFor
    <3> QED
      BY <1>1, <1>4, <3>1, <3>2 DEF Match, Verdicts, StandsFor
  <2> QED
    BY <2>1, <2>2
<1>5. CASE InsertRow(p)
  BY <1>1, <1>5 DEF InsertRow, Verdicts, StandsFor
<1>6. CASE BankCommit(p) \/ BankAbort(p)
  BY <1>6 DEF BankCommit, BankAbort, Idle
<1>7. \/ bankRun'[p] = bankRun[p]
      \/ (\E r \in Reports : LookUp(p, r)) \/ Match(p) \/ InsertRow(p) \/ BankCommit(p) \/ BankAbort(p)
  BY RunChanges
<1> QED
  BY <1>2, <1>3, <1>4, <1>5, <1>6, <1>7

\* A row and its alias become visible together.
LEMMA AliasStep ==
  ASSUME BankTypeOK, RunsAreConsistent, AliasesAreOfRows, [BankNext]_bankVars
  PROVE  AliasesAreOfRows'
<1>1. CASE UNCHANGED <<bankRow, alias>>
  BY <1>1 DEF AliasesAreOfRows
<1>2. ASSUME NEW p \in BankRuns, BankCommit(p) PROVE AliasesAreOfRows'
  <2> DEFINE r == bankRun[p].report  c == bankRun[p].row
  <2>1. r \in Reports /\ c \in Reports /\ c # NoRow /\ RunIsConsistent(p)
    BY <1>2, BankAssumption DEF BankCommit, RunsAreConsistent, RunIsConsistent, ReportOf
  <2>2. bankRow'[c] # "none"
    BY <1>2, <2>1 DEF BankCommit, RunIsConsistent, ReportOf, BankTypeOK, Verdicts
  <2>3. alias' = [alias EXCEPT ![r] = IF @ = NoRow THEN c ELSE @]
    BY <1>2 DEF BankCommit, AttachAlias, ReportOf
  <2>4. \A b \in Reports \ {r} : bankRow'[b] = bankRow[b]
    BY <1>2 DEF BankCommit, ReportOf, BankTypeOK
  <2> SUFFICES ASSUME NEW b \in Reports
               PROVE  /\ alias'[b] # NoRow => bankRow'[alias'[b]] # "none"
                      /\ bankRow'[b] # "none" => alias'[b] # NoRow
    BY DEF AliasesAreOfRows
  <2>5. alias[b] # NoRow => alias[b] \in Reports /\ bankRow'[alias[b]] # "none" /\ alias'[b] = alias[b]
    BY RowsStay DEF AliasesAreOfRows, BankTypeOK
  <2>6. alias[b] = NoRow => alias'[b] = IF b = r THEN c ELSE NoRow
    BY <2>1, <2>3 DEF BankTypeOK
  <2> QED
    BY <2>1, <2>2, <2>4, <2>5, <2>6 DEF AliasesAreOfRows
<1> QED
  BY <1>1, <1>2 DEF BankNext, bankVars, LookUp, Match, InsertRow, BankAbort

\* Two runs about to attach one row would hold one key, or be of one report.
LEMMA RowsOfTwoRuns ==
  ASSUME BankTypeOK, RunsAreConsistent, OneRunPerKey,
         NEW p \in BankRuns, NEW q \in BankRuns, p # q,
         bankRun[p].at = "commit", bankRun[p].verdict # "FOUND",
         bankRun[q].at = "commit", bankRun[q].verdict # "FOUND",
         bankRun[p].row = bankRun[q].row
  PROVE  ReportOf(p) = ReportOf(q)
<1>1. \A s \in {p, q} : StandsFor(ReportOf(s), bankRun[s].row)
  BY DEF RunsAreConsistent, RunIsConsistent, StandsFor, Verdicts
<1>2. ReportOf(p) # ReportOf(q) => Keyed(ReportOf(p)) /\ KeyOf[ReportOf(p)] = KeyOf[ReportOf(q)]
  BY <1>1 DEF StandsFor, Correlates, Keyed
<1> QED
  BY <1>2 DEF OneRunPerKey, Deciding

LEMMA UnclaimedStep ==
  ASSUME BankTypeOK, RunsAreConsistent, OneRunPerKey, AliasesAreOfRows, AliasIsUnclaimed,
         [BankNext]_bankVars
  PROVE  AliasIsUnclaimed'
<1> SUFFICES ASSUME NEW p \in BankRuns, bankRun'[p].at = "commit", bankRun'[p].verdict # "FOUND",
                    alias'[bankRun'[p].report] = NoRow,
                    NEW b \in Reports, AliasType(b) = AliasType(bankRun'[p].report)
             PROVE  alias'[b] # bankRun'[p].row
  BY DEF AliasIsUnclaimed, ReportOf
<1> USE DEF BankTypeOK
<1>1. CASE bankRun'[p] = bankRun[p]
  <2> DEFINE r == bankRun[p].report
  <2>1. r \in Reports /\ bankRun[p].row \in Reports /\ RunIsConsistent(p)
    BY <1>1 DEF RunsAreConsistent, RunIsConsistent, ReportOf
  <2>2. alias[r] = NoRow
    BY <1>1, <2>1, RowsStay
  <2>3. alias[b] # bankRun[p].row
    BY <1>1, <2>2 DEF AliasIsUnclaimed, ReportOf
  <2>4. CASE alias'[b] = alias[b]
    BY <1>1, <2>3, <2>4
  <2>5. CASE alias'[b] # alias[b]
    <3>1. PICK q \in BankRuns : BankCommit(q)
      BY <2>5 DEF BankNext, bankVars, LookUp, Match, InsertRow, BankAbort
    <3>2. b = ReportOf(q) /\ alias[b] = NoRow /\ alias'[b] = bankRun[q].row
      BY <2>5, <3>1 DEF BankCommit, AttachAlias
    <3>3. p # q
      BY <1>1, <3>1 DEF BankCommit, Idle
    <3>4. bankRun[q].at = "commit" /\ bankRun[q].verdict # "FOUND"
      BY <3>1, <3>2 DEF BankCommit, RunsAreConsistent, RunIsConsistent
    <3>5. b # r
      BY <1>1, <2>5, <2>2
    <3> QED
      BY <1>1, <3>2, <3>3, <3>4, <3>5, RowsOfTwoRuns DEF ReportOf
  <2> QED
    BY <2>4, <2>5
<1>2. ASSUME NEW r \in Reports, LookUp(p, r) PROVE FALSE
  BY <1>2 DEF LookUp
<1>3. CASE Match(p)
  <2>1. PICK c \in Reports :
          /\ SameSurface(bankRun[p].report) = {}
          /\ Candidates(bankRun[p].report) = {c}
          /\ bankRun' = [bankRun EXCEPT ![p] =
               [at |-> "commit", report |-> bankRun[p].report, row |-> c, verdict |-> "EXISTING"]]
    BY <1>3 DEF Match, ReportOf
  <2> QED
    BY <1>3, <2>1 DEF SameSurface, Match
<1>4. CASE InsertRow(p)
  <2> DEFINE r == bankRun[p].report
  <2>1. r \in Reports /\ bankRun'[p].report = r /\ bankRun'[p].row = r
    BY <1>4 DEF InsertRow, ReportOf, RunsAreConsistent, RunIsConsistent
  <2>2. UNCHANGED <<bankRow, alias>> /\ bankRow[r] = "none"
    BY <1>4, <2>1 DEF InsertRow, AliasesAreOfRows
  <2> QED
    BY <2>1, <2>2, BankAssumption DEF AliasesAreOfRows
<1>5. CASE BankCommit(p) \/ BankAbort(p)
  BY <1>5 DEF BankCommit, BankAbort, Idle
<1>6. \/ bankRun'[p] = bankRun[p]
      \/ (\E r \in Reports : LookUp(p, r)) \/ Match(p) \/ InsertRow(p) \/ BankCommit(p) \/ BankAbort(p)
  BY RunChanges
<1> QED
  BY <1>1, <1>2, <1>3, <1>4, <1>5, <1>6

\* The window absorbs the skew of the surfaces.
LEMMA TwinsCorrelate ==
  ASSUME NEW a \in Reports, NEW b \in Reports, Twins(a, b)
  PROVE  Correlates(a, b) /\ Correlates(b, a) /\ Twins(b, a)
<1>1. StampOf[a] \in Int /\ StampOf[b] \in Int /\ Window \in Nat
  BY BankAssumption
<1>2. StampOf[a] - StampOf[b] <= Window /\ StampOf[b] - StampOf[a] <= Window
  BY BankAssumption DEF Twins, Keyed
<1> QED
  BY <1>1, <1>2 DEF Twins, Correlates, Keyed

\* A report is its transfer and its surface.
LEMMA SameReport ==
  ASSUME NEW a \in Reports, NEW b \in Reports, TransferOf(a) = TransferOf(b), AliasType(a) = AliasType(b)
  PROVE  a = b
BY DEF Reports, TransferOf, AliasType

\* There are two surfaces.
LEMMA OnlyTwo ==
  ASSUME NEW a \in Reports, NEW b \in Reports, NEW c \in Reports, a # b, c # a,
         TransferOf(a) = TransferOf(b), TransferOf(c) = TransferOf(a)
  PROVE  c = b
BY DEF Reports, TransferOf, Surfaces

\* The row of a report whose transfer is alone is one of its own transfer.
LEMMA AloneIsItsOwn ==
  ASSUME NEW r \in Reports, NEW c \in Reports, StandsFor(r, c), Alone(TransferOf(c)) \/ Alone(TransferOf(r))
  PROVE  TransferOf(r) = TransferOf(c)
<1>1. Correlates(c, r) => Correlates(r, c)
  <2>1. StampOf[r] \in Int /\ StampOf[c] \in Int /\ Window \in Nat
    BY BankAssumption
  <2> QED
    BY <2>1 DEF Correlates, Keyed
<1> QED
  BY <1>1 DEF StandsFor, Alone

\* Nobody else inserts a row of the key while the run decides.
LEMMA FirstStep ==
  ASSUME BankTypeOK, RunsAreConsistent, OneRunPerKey, InsertedIsFirst, [BankNext]_bankVars
  PROVE  InsertedIsFirst'
<1> SUFFICES ASSUME NEW p \in BankRuns, bankRun'[p].at \in {"insert", "commit"},
                    bankRun'[p].verdict = "INSERTED",
                    NEW c \in Reports, Twins(bankRun'[p].report, c)
             PROVE  bankRow'[c] = "none"
  BY DEF InsertedIsFirst, Deciding, ReportOf
<1> USE DEF BankTypeOK
<1>1. CASE bankRun'[p] = bankRun[p]
  <2>1. Deciding(p) /\ bankRow[c] = "none"
    BY <1>1 DEF InsertedIsFirst, Deciding, ReportOf
  <2>2. ASSUME NEW q \in BankRuns, BankCommit(q), bankRow'[c] # "none" PROVE FALSE
    <3>1. p # q
      BY <1>1, <2>2 DEF BankCommit, Idle
    <3>2. c = ReportOf(q) /\ bankRun[q].at = "commit" /\ bankRun[q].verdict \in Verdicts
      BY <2>1, <2>2 DEF BankCommit
    <3> QED
      BY <1>1, <2>1, <3>1, <3>2 DEF OneRunPerKey, Deciding, Verdicts, ReportOf, Twins
  <2> QED
    BY <2>1, <2>2 DEF BankNext, bankVars, LookUp, Match, InsertRow, BankAbort
<1>2. ASSUME NEW r \in Reports, LookUp(p, r) PROVE FALSE
  BY <1>2 DEF LookUp, Twins
<1>3. CASE Match(p)
  <2>1. Candidates(bankRun[p].report) = {} /\ bankRun'[p].report = bankRun[p].report /\ bankRow' = bankRow
    BY <1>3 DEF Match, ReportOf
  <2> QED
    BY <1>3, <2>1, TwinsCorrelate DEF Candidates, Rows, RunsAreConsistent, RunIsConsistent, ReportOf, Match
<1>4. CASE InsertRow(p)
  <2>1. bankRun'[p].report = bankRun[p].report /\ bankRun[p].verdict = "INSERTED" /\ bankRow' = bankRow
    BY <1>4 DEF InsertRow, ReportOf
  <2> QED
    BY <1>4, <2>1 DEF InsertRow, InsertedIsFirst, Deciding, ReportOf
<1>5. CASE BankCommit(p) \/ BankAbort(p)
  BY <1>5 DEF BankCommit, BankAbort, Idle
<1>6. \/ bankRun'[p] = bankRun[p]
      \/ (\E r \in Reports : LookUp(p, r)) \/ Match(p) \/ InsertRow(p) \/ BankCommit(p) \/ BankAbort(p)
  BY RunChanges
<1> QED
  BY <1>1, <1>2, <1>3, <1>4, <1>5, <1>6

\* A run that looks for a twin's row finds it, or there is none; and while it
\* decides nobody attaches one.
LEMMA TwinsStep ==
  ASSUME BankInv, [BankNext]_bankVars
  PROVE  TwinsMeet'
<1> SUFFICES ASSUME NEW p \in BankRuns, NEW r \in Reports, NEW b \in Reports,
                    bankRun'[p].at \in {"insert", "commit"}, bankRun'[p].verdict # "FOUND",
                    bankRun'[p].report = r, alias'[r] = NoRow,
                    b # r, Twins(r, b), Alone(TransferOf(r)),
                    alias'[b] # NoRow
             PROVE  bankRun'[p].at = "commit" /\ alias'[b] = bankRun'[p].row
  BY DEF TwinsMeet, Deciding, ReportOf
<1> USE DEF BankInv, BankTypeOK
<1>1. CASE bankRun'[p] = bankRun[p]
  <2>1. Deciding(p) /\ r = ReportOf(p)
    BY <1>1 DEF ReportOf, Deciding
  <2>2. alias[r] = NoRow
    BY <1>1, <2>1, RowsStay
  <2>3. CASE alias'[b] = alias[b]
    BY <1>1, <2>1, <2>2, <2>3 DEF TwinsMeet, ReportOf
  <2>4. CASE alias'[b] # alias[b]
    <3>1. PICK q \in BankRuns : BankCommit(q)
      BY <2>4 DEF BankNext, bankVars, LookUp, Match, InsertRow, BankAbort
    <3>2. b = ReportOf(q) /\ alias[b] = NoRow
      BY <2>4, <3>1 DEF BankCommit, AttachAlias
    <3>3. p # q
      BY <1>1, <3>1 DEF BankCommit, Idle
    <3>4. Deciding(q)
      BY <3>1, <3>2 DEF BankCommit, RunsAreConsistent, RunIsConsistent, Deciding
    <3> QED
      BY <1>1, <2>1, <3>2, <3>3, <3>4 DEF OneRunPerKey, Twins
  <2> QED
    BY <2>3, <2>4
<1>2. ASSUME NEW a \in Reports, LookUp(p, a) PROVE FALSE
  BY <1>2 DEF LookUp, Twins
<1>3. CASE Match(p)
  <2> DEFINE d == alias[b]
  <2>1. r = ReportOf(p) /\ r = bankRun[p].report /\ alias' = alias /\ alias[r] = NoRow
    BY <1>3 DEF Match, ReportOf
  <2>2. d \in Reports /\ bankRow[d] # "none" /\ StandsFor(b, d)
    BY <2>1, BankAssumption DEF AliasesAreOfRows, IdentityWithinWindow, MergesCorrelate, StandsFor
  <2>3. Twins(r, b) /\ Alone(TransferOf(r)) /\ Alone(TransferOf(b)) /\ b # r
    BY <2>1 DEF Twins
  <2>4. TransferOf(d) = TransferOf(r) /\ d # r
    BY <2>1, <2>2, <2>3, AloneIsItsOwn DEF AliasesAreOfRows, Twins
  <2>5. d = b
    BY <2>1, <2>2, <2>3, <2>4, OnlyTwo DEF Twins
  <2>6. \A c \in Candidates(r) : c = b
    <3> SUFFICES ASSUME NEW c \in Candidates(r) PROVE c = b
      OBVIOUS
    <3>1. c \in Reports /\ bankRow[c] # "none" /\ StandsFor(r, c)
      BY DEF Candidates, Rows, StandsFor
    <3>2. TransferOf(c) = TransferOf(r) /\ c # r
      BY <2>1, <2>3, <3>1, AloneIsItsOwn DEF AliasesAreOfRows
    <3> QED
      BY <2>1, <2>3, <3>1, <3>2, OnlyTwo DEF Twins
  <2>7. Candidates(r) = {b}
    BY <2>1, <2>2, <2>3, <2>5, <2>6, TwinsCorrelate DEF Candidates, Rows
  <2>8. SameSurface(r) = {}
    <3> SUFFICES ASSUME NEW a \in Reports, AliasType(a) = AliasType(r), alias[a] = b PROVE FALSE
      BY <2>7 DEF SameSurface
    <3>1. AliasType(b) # AliasType(r)
      BY <2>1, <2>3, SameReport DEF Twins
    <3>2. a # b /\ StandsFor(a, b)
      BY <3>1, BankAssumption DEF IdentityWithinWindow, MergesCorrelate, StandsFor
    <3>3. TransferOf(a) = TransferOf(r)
      BY <2>3, <3>2, AloneIsItsOwn DEF Twins
    <3>4. a = r
      BY <2>1, <3>3, SameReport
    <3> QED
      BY <2>1, <3>4, BankAssumption
  <2>9. Cardinality({b}) = 1
    BY FS_Singleton
  <2>10. PICK c \in Reports :
           /\ Candidates(r) = {c}
           /\ bankRun' = [bankRun EXCEPT ![p] =
                [at |-> "commit", report |-> r, row |-> c, verdict |-> "EXISTING"]]
    <3>1. Candidates(r) # {} /\ ~(Cardinality(Candidates(r)) > 1)
      BY <2>7, <2>9
    <3> QED
      BY <1>3, <2>1, <2>8, <3>1 DEF Match
  <2> QED
    BY <2>1, <2>5, <2>7, <2>10
<1>4. CASE InsertRow(p)
  <2>1. r = ReportOf(p) /\ alias' = alias /\ bankRun[p].at = "insert"
    BY <1>4 DEF InsertRow, ReportOf
  <2>2. Deciding(p)
    BY <2>1 DEF Deciding, RunsAreConsistent, RunIsConsistent, Verdicts
  <2> QED
    BY <2>1, <2>2 DEF TwinsMeet
<1>5. CASE BankCommit(p) \/ BankAbort(p)
  BY <1>5 DEF BankCommit, BankAbort, Idle
<1>6. \/ bankRun'[p] = bankRun[p]
      \/ (\E a \in Reports : LookUp(p, a)) \/ Match(p) \/ InsertRow(p) \/ BankCommit(p) \/ BankAbort(p)
  BY RunChanges
<1> QED
  BY <1>1, <1>2, <1>3, <1>4, <1>5, <1>6

\* What a commit makes visible was decided alone.
LEMMA IdentityStep ==
  ASSUME BankInv, [BankNext]_bankVars
  PROVE  IdentityWithinWindow'
<1> USE DEF BankInv, BankTypeOK
<1>1. CASE UNCHANGED <<bankRow, alias>>
  BY <1>1 DEF IdentityWithinWindow, OneSurfaceOneReportPerRow, SettleableOncePerTransfer,
              MergesCorrelate, ReportsMeet
<1>2. ASSUME NEW p \in BankRuns, BankCommit(p) PROVE IdentityWithinWindow'
  <2> DEFINE r == bankRun[p].report  c == bankRun[p].row
  <2>1. r \in Reports /\ c \in Reports /\ c # NoRow /\ RunIsConsistent(p) /\ bankRun[p].at = "commit"
    BY <1>2, BankAssumption DEF BankCommit, RunsAreConsistent, RunIsConsistent, ReportOf
  <2>2. alias' = [alias EXCEPT ![r] = IF @ = NoRow THEN c ELSE @]
    BY <1>2 DEF BankCommit, AttachAlias, ReportOf
  <2>3. OneSurfaceOneReportPerRow'
    <3>1. CASE alias' = alias
      BY <3>1 DEF IdentityWithinWindow, OneSurfaceOneReportPerRow
    <3>2. CASE alias[r] = NoRow /\ alias' = [alias EXCEPT ![r] = c]
      <4>1. \A b \in Reports : AliasType(b) = AliasType(r) => alias[b] # c
        BY <2>1, <3>2 DEF AliasIsUnclaimed, RunIsConsistent, ReportOf
      <4> QED
        BY <2>1, <3>2, <4>1 DEF IdentityWithinWindow, OneSurfaceOneReportPerRow
    <3> QED
      BY <2>1, <2>2, <3>1, <3>2
  <2>4. SettleableOncePerTransfer'
    <3>1. \A a \in Reports : a # r => bankRow'[a] = bankRow[a]
      BY <1>2, <2>1 DEF BankCommit, ReportOf
    <3>2. \/ bankRow'[r] = bankRow[r]
          \/ bankRow'[r] = bankRun[p].verdict /\ bankRun[p].verdict \in Verdicts
      BY <1>2, <2>1 DEF BankCommit, ReportOf
    <3>3. CASE bankRow'[r] = bankRow[r] \/ bankRow'[r] # "INSERTED"
      BY <3>1, <3>3 DEF IdentityWithinWindow, SettleableOncePerTransfer
    <3>4. CASE bankRow'[r] = bankRun[p].verdict /\ bankRun[p].verdict = "INSERTED"
      <4>1. \A a \in Reports : Twins(r, a) => bankRow[a] = "none"
        BY <2>1, <3>4 DEF InsertedIsFirst, Deciding, ReportOf
      <4> QED
        BY <2>1, <3>1, <3>4, <4>1 DEF IdentityWithinWindow, SettleableOncePerTransfer, Twins, Keyed
    <3> QED
      BY <3>2, <3>3, <3>4
  <2>5. alias[r] = NoRow => StandsFor(r, c) /\ Deciding(p)
    BY <2>1 DEF RunIsConsistent, ReportOf, StandsFor, Deciding, Verdicts
  <2>6. MergesCorrelate'
    BY <2>1, <2>2, <2>5 DEF IdentityWithinWindow, MergesCorrelate, StandsFor
  <2>7. ReportsMeet'
    <3>1. CASE alias' = alias
      BY <3>1 DEF IdentityWithinWindow, ReportsMeet
    <3>2. CASE alias[r] = NoRow /\ alias' = [alias EXCEPT ![r] = c]
      <4>1. \A b \in Reports \ {r} :
              Twins(r, b) /\ Alone(TransferOf(r)) => alias[b] \in {NoRow, c}
        BY <2>1, <2>5, <3>2 DEF TwinsMeet, ReportOf
      <4>2. \A b \in Reports \ {r} : Twins(b, r) => Twins(r, b) /\ TransferOf(b) = TransferOf(r)
        BY DEF Twins, Keyed
      <4>3. \A b \in Reports : alias'[b] = IF b = r THEN c ELSE alias[b]
        BY <2>1, <3>2
      <4> QED
        BY <2>1, <4>1, <4>2, <4>3 DEF IdentityWithinWindow, ReportsMeet, Twins
    <3> QED
      BY <2>1, <2>2, <3>1, <3>2
  <2> QED
    BY <2>3, <2>4, <2>6, <2>7 DEF IdentityWithinWindow
<1> QED
  BY <1>1, <1>2 DEF BankNext, bankVars, LookUp, Match, InsertRow, BankAbort

-----------------------------------------------------------------------------
(* The theorems *)

\* The invariant the theorems below rest on.
THEOREM BankInvariant == BankSpec => []BankInv
<1>1. BankInv /\ [BankNext]_bankVars => BankInv'
  BY NextBankType, KeyStep, RunStepIsConsistent, AliasStep, UnclaimedStep, FirstStep,
     TwinsStep, IdentityStep DEF BankInv
<1> QED
  BY InitBank, <1>1, PTL DEF BankSpec

\* Rows, aliases and runs have the values their columns and code give them.
THEOREM BankType == BankSpec => []BankTypeOK
<1>1. BankInv => BankTypeOK
  BY DEF BankInv
<1> QED
  BY BankInvariant, <1>1, PTL

\* Whatever runs at once and whatever aborts: two reports of one surface are
\* never one row, a merge stays within key and window, two reports of a transfer
\* with one key are settleable once at most, and they are one row when no other
\* transfer is near.  It does not keep apart two transfers of one key within the
\* window.
THEOREM BankIdentityHolds == BankSpec => []IdentityWithinWindow
<1>1. BankInv => IdentityWithinWindow
  BY DEF BankInv
<1> QED
  BY BankInvariant, <1>1, PTL

\* A row that was stored and an alias that was attached are never changed.
RowsAreForGood ==
  [][\A r \in Reports : /\ bankRow[r] # "none" => bankRow'[r] # "none"
                        /\ alias[r] # NoRow => alias'[r] = alias[r]]_bankVars

\* Stored evidence is for good: no later report changes a row or moves an alias.
THEOREM BankRowsStay == BankSpec => RowsAreForGood
<1>1. BankInv /\ [BankNext]_bankVars =>
        [\A r \in Reports : /\ bankRow[r] # "none" => bankRow'[r] # "none"
                            /\ alias[r] # NoRow => alias'[r] = alias[r]]_bankVars
  BY RowsStay DEF BankInv
<1> QED
  BY BankInvariant, <1>1, PTL DEF BankSpec, RowsAreForGood

-----------------------------------------------------------------------------
(* Reconciliation.  The walk through a window skips no transfer that the     *)
(* provider listed before it began, whatever is listed meanwhile: positions  *)
(* only grow, so what was on an earlier page stays there or moves on.  What  *)
(* is listed later is younger than the overlap.                              *)

Ahead(c, t) == {u \in InWindow(c) : Before(u, t)}
Position(c, t) == Cardinality(Ahead(c, t))

\* What the walk owes: the transfers that are older than the next window.
OldEnough(c) == {t \in Listed : stamp[t] # -1 /\ c.from <= stamp[t] /\ stamp[t] < c.to - Overlap}

ListIsFinite ==
  /\ IsFiniteSet(published)
  /\ \A t \in published : stamp[t] # -1
  /\ \A t \in Listed : stamp[t] <= clock

ListedInTime == \A t \in Listed \ published : stamp[t] # -1 => clock - stamp[t] <= PublishDelay

CursorIsPast ==
  /\ cursor.from <= clock /\ cursor.to <= clock /\ cursor.page <= cursor.gen + 1
  /\ cursor.gen = 0 => cursor = NoCursor /\ epoch = 0

BatchesAreFenced ==
  \A b \in Reconcilers :
    /\ batch[b].to <= clock /\ batch[b].page \subseteq published
    /\ batch[b].at # "idle" =>
         /\ batch[b].cursor.gen # 0 /\ batch[b].cursor.gen <= cursor.gen
         /\ batch[b].cursor.gen = cursor.gen => CursorHeld(b)

\* The pages before the cursor's left nothing behind.
WalkedSoFar ==
  \A t \in OldEnough(cursor) : t \in scanned \/ (cursor.page - 1) * PerPage <= Position(cursor, t)

\* Nor does the page a batch has read, once it is applied.
CoveredBy(b) == IF batch[b].at = "fetched" THEN scanned \cup batch[b].page ELSE scanned
PageLeavesNothing ==
  \A b \in Reconcilers :
    (batch[b].at \in {"fetched", "applied"} /\ CursorHeld(b)) =>
      \A t \in OldEnough(cursor) :
        t \in CoveredBy(b) \/ (batch[b].page # {} /\ cursor.page * PerPage <= Position(cursor, t))

RecoveryInv ==
  /\ RecoveryTypeOK /\ ListIsFinite /\ ListedInTime /\ CursorIsPast
  /\ BatchesAreFenced /\ WalkedSoFar /\ PageLeavesNothing /\ NothingSlipsBetweenWindows

-----------------------------------------------------------------------------
LEMMA BeforeIsAnOrder ==
  ASSUME RecoveryTypeOK
  PROVE  /\ \A t \in Listed : ~Before(t, t)
         /\ \A s, t, u \in Listed : Before(s, t) /\ Before(t, u) => Before(s, u)
         /\ \A s, t \in Listed : s = t \/ Before(s, t) \/ Before(t, s)
<1>1. \A t \in Listed : stamp[t] \in Int /\ t \in Nat
  BY RecoveryAssumption DEF RecoveryTypeOK, Times
<1> QED
  BY <1>1 DEF Before

\* A non-empty family of subsets of a finite set has one that is least.
LEMMA LeastSubset ==
  ASSUME NEW S, IsFiniteSet(S), NEW K, K \subseteq SUBSET S, K # {}
  PROVE  \E s \in K : \A t \in K : t \subseteq s => t = s
<1>1. PICK s \in K : \A t \in K : ~(<<t, s>> \in StrictSubsetOrdering(S))
  BY FS_StrictSubsetOrderingWellFounded, FS_FiniteSubsetsOfFinite, WFMin
<1>2. ASSUME NEW t \in K, t \subseteq s, t # s
      PROVE  FALSE
  <2>1. <<t, s>> \in StrictSubsetOrdering(S)
    BY <1>2 DEF StrictSubsetOrdering
  <2> QED
    BY <1>1, <2>1
<1> QED
  BY <1>2

LEMMA AheadIsFinite ==
  ASSUME RecoveryTypeOK, ListIsFinite, NEW c, NEW t
  PROVE  IsFiniteSet(Ahead(c, t)) /\ Position(c, t) \in Nat
<1>1. Ahead(c, t) \subseteq published
  BY DEF Ahead, InWindow
<1> QED
  BY <1>1, FS_Subset, FS_CardinalityType DEF ListIsFinite, Position

\* Whoever has somebody ahead has somebody right ahead.
LEMMA RightAhead ==
  ASSUME RecoveryTypeOK, ListIsFinite, NEW c, NEW t \in InWindow(c), Ahead(c, t) # {}
  PROVE  \E u \in InWindow(c) : /\ Ahead(c, u) \subseteq Ahead(c, t)
                                 /\ u \in Ahead(c, t) /\ u \notin Ahead(c, u)
                                 /\ Ahead(c, t) = Ahead(c, u) \cup {u}
<1>0. InWindow(c) \subseteq Listed
  BY DEF InWindow, RecoveryTypeOK
<1> DEFINE Beyond(u) == Ahead(c, t) \ (Ahead(c, u) \cup {u})
           K == {Beyond(u) : u \in Ahead(c, t)}
<1>1. IsFiniteSet(Ahead(c, t)) /\ K \subseteq SUBSET Ahead(c, t) /\ K # {}
  BY AheadIsFinite
<1>2. PICK k \in K : \A l \in K : l \subseteq k => l = k
  <2> HIDE DEF K
  <2> QED
    BY <1>1, LeastSubset
<1>3. PICK u \in Ahead(c, t) : k = Beyond(u)
  OBVIOUS
<1>4. \A w \in Ahead(c, t) : w \in InWindow(c) /\ w \in Listed /\ Before(w, t)
  BY <1>0 DEF Ahead
<1>5. Ahead(c, u) \subseteq Ahead(c, t) /\ u \notin Ahead(c, u)
  BY <1>0, <1>4, BeforeIsAnOrder DEF Ahead
<1>6. ASSUME NEW w \in Beyond(u) PROVE FALSE
  <2>1. w \in Ahead(c, t) /\ w \notin Ahead(c, u) /\ w # u
    OBVIOUS
  <2>2. Before(u, w)
    BY <1>0, <1>3, <1>4, <2>1, BeforeIsAnOrder DEF Ahead
  <2>3. \A x \in Ahead(c, u) \cup {u} : x \in Ahead(c, w)
    BY <1>0, <1>3, <1>4, <2>1, <2>2, BeforeIsAnOrder DEF Ahead
  <2>4. Beyond(w) \subseteq Beyond(u) /\ w \notin Beyond(w) /\ Beyond(w) \in K
    BY <2>1, <2>3
  <2> HIDE DEF Beyond, K
  <2> QED
    BY <1>2, <1>3, <1>6, <2>4
<1> QED
  BY <1>3, <1>4, <1>5, <1>6

\* No position before an occupied one is empty.
LEMMA PositionsAreFilled ==
  ASSUME RecoveryTypeOK, ListIsFinite, NEW c, NEW t \in InWindow(c),
         NEW m \in Nat, m <= Position(c, t)
  PROVE  \E u \in InWindow(c) : Position(c, u) = m
<1> DEFINE K == {Ahead(c, u) : u \in {w \in InWindow(c) : m <= Position(c, w)}}
<1>1. IsFiniteSet(published) /\ K \subseteq SUBSET published /\ K # {}
  BY DEF ListIsFinite, Ahead, InWindow
<1>2. PICK k \in K : \A l \in K : l \subseteq k => l = k
  <2> HIDE DEF K
  <2> QED
    BY <1>1, LeastSubset
<1>3. PICK u \in InWindow(c) : k = Ahead(c, u) /\ m <= Position(c, u)
  OBVIOUS
<1>4. ASSUME Position(c, u) # m PROVE FALSE
  <2>1. Position(c, u) \in Nat /\ m < Position(c, u)
    BY <1>3, <1>4, AheadIsFinite
  <2>2. Ahead(c, u) # {}
    BY <2>1, FS_EmptySet DEF Position
  <2>3. PICK v \in InWindow(c) : /\ Ahead(c, v) \subseteq Ahead(c, u)
                                 /\ v \in Ahead(c, u) /\ v \notin Ahead(c, v)
                                 /\ Ahead(c, u) = Ahead(c, v) \cup {v}
    BY <2>2, RightAhead
  <2>4. IsFiniteSet(Ahead(c, v)) /\ Position(c, v) \in Nat
    BY AheadIsFinite
  <2>5. Position(c, u) = Position(c, v) + 1
    BY <2>3, <2>4, FS_AddElement DEF Position
  <2>6. Ahead(c, v) \in K
    BY <2>1, <2>4, <2>5
  <2> HIDE DEF K
  <2> QED
    BY <1>2, <1>3, <2>3, <2>6
<1> QED
  BY <1>4

LEMMA PageMembers ==
  ASSUME NEW c
  PROVE  PageOf(c) = {t \in InWindow(c) : /\ (c.page - 1) * PerPage <= Position(c, t)
                                          /\ Position(c, t) < c.page * PerPage}
  BY DEF PageOf, Position, Ahead

LEMMA FirstOfPage ==
  ASSUME NEW c \in Cursors
  PROVE  /\ (c.page - 1) * PerPage \in Nat /\ c.page * PerPage \in Nat
         /\ (c.page - 1) * PerPage < c.page * PerPage
<1>1. c.page - 1 \in Nat /\ c.page \in Nat /\ PerPage \in Nat \ {0}
  BY RecoveryAssumption DEF Cursors
<1>2. c.page * PerPage = (c.page - 1) * PerPage + PerPage
  BY <1>1
<1> QED
  BY <1>1, <1>2

-----------------------------------------------------------------------------
\* What every step leaves as it was.
LEMMA ListsGrow ==
  ASSUME RecoveryInv, RecoveryNext
  PROVE  /\ clock <= clock' /\ clock' \in Times
         /\ published \subseteq published' /\ scanned \subseteq scanned'
         /\ \A t \in Listed : stamp[t] # -1 => stamp'[t] = stamp[t]
         /\ \A t \in Listed : stamp'[t] # stamp[t] =>
              stamp'[t] = clock /\ clock' = clock /\ t \notin published
<1> USE DEF RecoveryInv
<1>1. CASE Tick
  BY <1>1, RecoveryAssumption DEF Tick, RecoveryTypeOK, Times
<1>2. ASSUME NEW t \in Listed, Transfer(t) \/ Publish(t)
      PROVE  /\ clock' = clock /\ published \subseteq published' /\ scanned' = scanned
             /\ \A u \in Listed : stamp[u] # -1 => stamp'[u] = stamp[u]
             /\ \A u \in Listed : stamp'[u] # stamp[u] => stamp'[u] = clock /\ u \notin published
  BY <1>2 DEF Transfer, Publish, RecoveryTypeOK, ListIsFinite
<1>3. ASSUME NEW b \in Reconcilers,
             \/ StartBatch(b) \/ Fetch(b) \/ FetchFails(b) \/ ApplyPage(b) \/ ApplyFails(b)
             \/ AdvancePage(b) \/ CompleteWindow(b) \/ BatchCrashes(b) \/ LockLost(b)
      PROVE  UNCHANGED <<clock, stamp, published>> /\ scanned \subseteq scanned'
  BY <1>3 DEF StartBatch, Fetch, FetchFails, ApplyPage, ApplyFails, AdvancePage, CompleteWindow,
              BatchCrashes, LockLost
<1>4. clock \in Times /\ clock <= clock
  BY RecoveryAssumption DEF RecoveryTypeOK, Times
<1> QED
  BY <1>1, <1>2, <1>3, <1>4 DEF RecoveryNext

\* The cursor moves on in three ways.
FirstWindow == /\ cursor.gen = 0
               /\ \E from \in 0..clock :
                    cursor' = [from |-> from, to |-> clock, page |-> 1, gen |-> 1] /\ epoch' = from
NextPage(b) == /\ batch[b].at = "applied" /\ batch[b].page # {} /\ CursorHeld(b)
               /\ cursor.gen < MaxGeneration /\ epoch' = epoch
               /\ cursor' = [cursor EXCEPT !.page = @ + 1, !.gen = @ + 1]
NextWindow(b) == /\ batch[b].at = "applied" /\ batch[b].page = {} /\ CursorHeld(b)
                 /\ cursor.gen < MaxGeneration /\ epoch' = epoch
                 /\ \E from \in Times :
                      /\ from = 0 \/ from <= cursor.to - Overlap
                      /\ from <= clock
                      /\ cursor' = [from |-> from, to |-> batch[b].to, page |-> 1,
                                    gen |-> cursor.gen + 1]

LEMMA CursorMoves ==
  ASSUME RecoveryInv, RecoveryNext
  PROVE  \/ UNCHANGED <<cursor, epoch>>
         \/ UNCHANGED <<clock, stamp, published, scanned>>
              /\ (FirstWindow \/ \E b \in Reconcilers : NextPage(b) \/ NextWindow(b))
<1> DEFINE Goal == \/ UNCHANGED <<cursor, epoch>>
                   \/ UNCHANGED <<clock, stamp, published, scanned>>
                        /\ (FirstWindow \/ \E b \in Reconcilers : NextPage(b) \/ NextWindow(b))
<1> USE DEF RecoveryInv
<1>0. clock \in Nat /\ Overlap \in Nat /\ clock <= MaxClock /\ MaxClock \in Nat /\ cursor \in Cursors
  BY RecoveryAssumption DEF RecoveryTypeOK, Times
<1>1. ASSUME NEW b \in Reconcilers, StartBatch(b) PROVE Goal
  <2>1. CASE cursor.gen = 0
    <3>1. PICK oldest \in 0..clock :
            LET proposed == Larger(0, clock - Overlap) IN
            /\ cursor' = [from |-> Smaller(oldest, proposed), to |-> clock, page |-> 1, gen |-> 1]
            /\ epoch' = Smaller(oldest, proposed)
      BY <1>1, <2>1 DEF StartBatch
    <3>2. Smaller(oldest, Larger(0, clock - Overlap)) \in 0..clock
      BY <1>0 DEF Smaller, Larger
    <3>3. UNCHANGED <<clock, stamp, published, scanned>>
      BY <1>1 DEF StartBatch
    <3> QED
      BY <2>1, <3>1, <3>2, <3>3 DEF FirstWindow
  <2> QED
    BY <1>1, <2>1 DEF StartBatch
<1>2. ASSUME NEW b \in Reconcilers, AdvancePage(b) PROVE Goal
  <2>1. CASE CursorHeld(b)
    <3>1. NextPage(b) /\ UNCHANGED <<clock, stamp, published, scanned>>
      BY <1>2, <2>1 DEF AdvancePage, NextPage
    <3> QED
      BY <3>1
  <2> QED
    BY <1>2, <2>1 DEF AdvancePage
<1>3. ASSUME NEW b \in Reconcilers, CompleteWindow(b) PROVE Goal
  <2>1. CASE CursorHeld(b)
    <3>1. PICK oldest \in 0..clock :
            cursor' = [from |-> Smaller(OverlapFrom(batch[b].cursor), oldest), to |-> batch[b].to,
                       page |-> 1, gen |-> cursor.gen + 1]
      BY <1>3, <2>1 DEF CompleteWindow
    <3>2. batch[b].cursor = cursor /\ cursor.to \in Nat
      BY <1>0, <2>1 DEF CursorHeld, Cursors, Times
    <3>3. OverlapFrom(batch[b].cursor) \in Nat
          /\ (OverlapFrom(batch[b].cursor) = 0 \/ OverlapFrom(batch[b].cursor) = cursor.to - Overlap)
      BY <1>0, <3>2 DEF OverlapFrom, Larger
    <3> DEFINE from == Smaller(OverlapFrom(batch[b].cursor), oldest)
    <3>4. from \in Nat /\ from <= clock /\ (from = 0 \/ from <= cursor.to - Overlap)
      BY <1>0, <3>2, <3>3 DEF Smaller
    <3>5. from \in Times
      BY <1>0, <3>4 DEF Times
    <3>6. UNCHANGED <<clock, stamp, published, scanned, epoch>>
          /\ batch[b].at = "applied" /\ batch[b].page = {} /\ cursor.gen < MaxGeneration
      BY <1>3 DEF CompleteWindow
    <3> HIDE DEF from
    <3>7. NextWindow(b)
      BY <2>1, <3>1, <3>4, <3>5, <3>6 DEF NextWindow, from
    <3> QED
      BY <3>6, <3>7
  <2> QED
    BY <1>3, <2>1 DEF CompleteWindow
<1> QED
  BY <1>1, <1>2, <1>3 DEF RecoveryNext, Tick, Transfer, Publish, Fetch, FetchFails, ApplyPage,
                          ApplyFails, BatchCrashes, LockLost

BatchRow == [at : {"idle", "claimed", "fetched", "applied"}, cursor : Cursors, to : Times,
             page : SUBSET Listed, locked : BOOLEAN]

LEMMA RecoveryTypeStep ==
  ASSUME RecoveryInv, RecoveryNext
  PROVE  RecoveryTypeOK'
<1> USE DEF RecoveryInv, RecoveryTypeOK
<1>0. /\ MaxClock \in Nat /\ MaxGeneration \in Nat \ {0} /\ NoCursor \in Cursors
      /\ clock \in Times /\ Times \subseteq Int /\ 0 \in Times
  BY RecoveryAssumption DEF NoCursor, Cursors, Times
<1>1. clock' \in Times
  BY ListsGrow
<1>2. stamp' \in [Listed -> Times \cup {-1}]
  BY DEF RecoveryNext, Tick, Transfer, Publish, StartBatch, Fetch, FetchFails, ApplyPage, ApplyFails,
         AdvancePage, CompleteWindow, BatchCrashes, LockLost
<1>3. published' \subseteq Listed
  BY DEF RecoveryNext, Tick, Transfer, Publish, StartBatch, Fetch, FetchFails, ApplyPage, ApplyFails,
         AdvancePage, CompleteWindow, BatchCrashes, LockLost
<1>4. cursor' \in Cursors /\ epoch' \in Times
  <2>1. ASSUME FirstWindow PROVE cursor' \in Cursors /\ epoch' \in Times
    <3>1. PICK from \in 0..clock :
            cursor' = [from |-> from, to |-> clock, page |-> 1, gen |-> 1] /\ epoch' = from
      BY <2>1 DEF FirstWindow
    <3>2. from \in Times /\ 1 \in 0..MaxGeneration
      BY <1>0 DEF Times
    <3> QED
      BY <1>0, <3>1, <3>2 DEF Cursors
  <2>2. ASSUME NEW b \in Reconcilers, NextPage(b) PROVE cursor' \in Cursors /\ epoch' \in Times
    <3>1. cursor.page <= cursor.gen + 1 /\ cursor.gen < MaxGeneration
      BY <2>2 DEF NextPage, CursorIsPast
    <3>2. cursor.page + 1 \in 1..(MaxGeneration + 1) /\ cursor.gen + 1 \in 0..MaxGeneration
      BY <1>0, <3>1 DEF Cursors
    <3> QED
      BY <2>2, <3>2 DEF NextPage, Cursors
  <2>3. ASSUME NEW b \in Reconcilers, NextWindow(b) PROVE cursor' \in Cursors /\ epoch' \in Times
    BY <1>0, <2>3 DEF NextWindow, Cursors
  <2> QED
    BY <2>1, <2>2, <2>3, CursorMoves
<1>5. batch' \in [Reconcilers -> [at : {"idle", "claimed", "fetched", "applied"},
                                 cursor : Cursors, to : Times,
                                 page : SUBSET Listed, locked : BOOLEAN]]
  <2>1. NoBatch \in BatchRow
    BY <1>0 DEF NoBatch, BatchRow
  <2>2. ASSUME NEW b \in Reconcilers, StartBatch(b) PROVE batch' \in [Reconcilers -> BatchRow]
    BY <1>0, <1>4, <2>2 DEF StartBatch, BatchRow
  <2>3. ASSUME NEW b \in Reconcilers, Fetch(b) PROVE batch' \in [Reconcilers -> BatchRow]
    <3>1. PageOf(batch[b].cursor) \subseteq Listed
      BY DEF PageOf, InWindow
    <3> QED
      BY <2>3, <3>1 DEF Fetch, BatchRow
  <2>4. ASSUME NEW b \in Reconcilers, ApplyPage(b) \/ LockLost(b)
        PROVE batch' \in [Reconcilers -> BatchRow]
    <3>1. batch' = [batch EXCEPT ![b].at = "applied"] \/ batch' = [batch EXCEPT ![b].locked = FALSE]
      BY <2>4 DEF ApplyPage, LockLost
    <3>2. batch \in [Reconcilers -> BatchRow]
      BY DEF BatchRow
    <3>3. \A row \in BatchRow : [row EXCEPT !.at = "applied"] \in BatchRow
                               /\ [row EXCEPT !.locked = FALSE] \in BatchRow
      BY DEF BatchRow
    <3>4. \E row \in BatchRow : batch' = [batch EXCEPT ![b] = row]
      BY <3>1, <3>2, <3>3
    <3> QED
      BY <3>2, <3>4
  <2>5. ASSUME NEW b \in Reconcilers, batch' = [batch EXCEPT ![b] = NoBatch]
        PROVE batch' \in [Reconcilers -> BatchRow]
    BY <2>1, <2>5 DEF BatchRow
  <2> QED
    BY <2>2, <2>3, <2>4, <2>5
       DEF RecoveryNext, Tick, Transfer, Publish, FetchFails, ApplyFails, AdvancePage, CompleteWindow,
           BatchCrashes, BatchRow
<1>6. scanned' \subseteq published'
  <2>1. \A b \in Reconcilers : batch[b].page \subseteq published
    BY DEF BatchesAreFenced
  <2> QED
    BY <2>1 DEF RecoveryNext, Tick, Transfer, Publish, StartBatch, Fetch, FetchFails, ApplyPage,
                ApplyFails, AdvancePage, CompleteWindow, BatchCrashes, LockLost
<1> QED
  BY <1>1, <1>2, <1>3, <1>4, <1>5, <1>6

\* While the window stays, nobody moves forward in it, and nobody new is due.
LEMMA PositionsGrow ==
  ASSUME RecoveryInv, RecoveryNext, NEW t \in Listed, t \in OldEnough(cursor)',
         cursor'.from = cursor.from, cursor'.to = cursor.to, RecoveryTypeOK', ListIsFinite'
  PROVE  t \in OldEnough(cursor) /\ Position(cursor, t) <= Position(cursor, t)'
<1>0. RecoveryTypeOK /\ ListIsFinite /\ cursor.to <= clock
  BY DEF RecoveryInv, CursorIsPast
<1>1. cursor.to \in Int /\ clock \in Int /\ Overlap \in Nat
  BY <1>0, RecoveryAssumption DEF RecoveryTypeOK, Cursors, Times
<1>2. stamp'[t] # -1 /\ cursor.from <= stamp'[t] /\ stamp'[t] < cursor.to - Overlap
  BY DEF OldEnough
<1>3. stamp'[t] = stamp[t]
  BY <1>0, <1>1, <1>2, ListsGrow
<1>4. t \in OldEnough(cursor)
  BY <1>2, <1>3 DEF OldEnough
<1>5. \A u \in published : stamp'[u] = stamp[u] /\ u \in published'
  BY <1>0, ListsGrow DEF ListIsFinite, RecoveryTypeOK
<1>6. Ahead(cursor, t) \subseteq Ahead(cursor, t)'
  BY <1>3, <1>5 DEF Ahead, InWindow, Before
<1>7. IsFiniteSet(Ahead(cursor, t)')
  <2>1. IsFiniteSet(published') /\ Ahead(cursor, t)' \subseteq published'
    BY DEF ListIsFinite, Ahead, InWindow
  <2> QED
    BY <2>1, FS_Subset
<1>8. Position(cursor, t) = Cardinality(Ahead(cursor, t))
      /\ Position(cursor, t)' = Cardinality(Ahead(cursor, t)')
  BY DEF Position
<1> QED
  BY <1>4, <1>6, <1>7, <1>8, FS_Subset

LEMMA ListsStep ==
  ASSUME RecoveryInv, RecoveryNext, RecoveryTypeOK'
  PROVE  ListIsFinite' /\ ListedInTime'
<1> USE DEF RecoveryInv
<1>0. clock \in Int /\ clock' \in Int /\ PublishDelay \in Int
      /\ \A t \in Listed : stamp[t] \in Int /\ stamp'[t] \in Int
  BY RecoveryAssumption DEF RecoveryTypeOK, Times
<1>1. IsFiniteSet(published')
  <2>1. published' = published \/ \E t \in Listed : published' = published \cup {t}
    BY DEF RecoveryNext, Tick, Transfer, Publish, StartBatch, Fetch, FetchFails, ApplyPage,
           ApplyFails, AdvancePage, CompleteWindow, BatchCrashes, LockLost
  <2> QED
    BY <2>1, FS_AddElement DEF ListIsFinite
<1>2. \A t \in published' : stamp'[t] # -1
  <2>1. published' = published \/ \E t \in Listed : published' = published \cup {t} /\ stamp[t] # -1
    BY DEF RecoveryNext, Tick, Transfer, Publish, StartBatch, Fetch, FetchFails, ApplyPage,
           ApplyFails, AdvancePage, CompleteWindow, BatchCrashes, LockLost
  <2> QED
    BY <2>1, ListsGrow DEF ListIsFinite, RecoveryTypeOK
<1>3. \A t \in Listed : stamp'[t] <= clock'
  BY <1>0, ListsGrow DEF ListIsFinite
<1>4. ListedInTime'
  <2>1. CASE Tick
    BY <1>0, <2>1 DEF Tick, ListedInTime
  <2>2. CASE ~Tick
    <3>1. clock' = clock
      BY <2>2 DEF RecoveryNext, Transfer, Publish, StartBatch, Fetch, FetchFails, ApplyPage,
                  ApplyFails, AdvancePage, CompleteWindow, BatchCrashes, LockLost
    <3>2. PublishDelay >= 0
      BY RecoveryAssumption
    <3> QED
      BY <1>0, <3>1, <3>2, ListsGrow DEF ListedInTime
  <2> QED
    BY <2>1, <2>2
<1> QED
  BY <1>1, <1>2, <1>3, <1>4 DEF ListIsFinite

LEMMA CursorStep ==
  ASSUME RecoveryInv, RecoveryNext, RecoveryTypeOK'
  PROVE  CursorIsPast'
<1> USE DEF RecoveryInv
<1>0. clock \in Int /\ clock' \in Int /\ clock <= clock' /\ cursor \in Cursors
  BY RecoveryAssumption, ListsGrow DEF RecoveryTypeOK, Times
<1>1. CASE UNCHANGED <<cursor, epoch>>
  BY <1>0, <1>1 DEF CursorIsPast, Cursors, Times
<1>2. CASE FirstWindow
  <2>1. PICK from \in 0..clock :
          cursor' = [from |-> from, to |-> clock, page |-> 1, gen |-> 1] /\ epoch' = from
    BY <1>2 DEF FirstWindow
  <2> QED
    BY <1>0, <2>1 DEF CursorIsPast
<1>3. ASSUME NEW b \in Reconcilers, NextPage(b) PROVE CursorIsPast'
  BY <1>0, <1>3 DEF NextPage, CursorIsPast, Cursors, Times
<1>4. ASSUME NEW b \in Reconcilers, NextWindow(b) PROVE CursorIsPast'
  <2>1. batch[b].to <= clock /\ batch[b].to \in Int /\ cursor.gen \in Nat
    BY <1>0, RecoveryAssumption DEF BatchesAreFenced, RecoveryTypeOK, Times, Cursors
  <2> QED
    BY <1>0, <1>4, <2>1 DEF NextWindow, CursorIsPast, Times
<1> QED
  BY <1>1, <1>2, <1>3, <1>4, CursorMoves

\* A batch begins, reads, applies, loses its lock, or is over.
Begins(b) == /\ batch'[b].at = "claimed" /\ batch'[b].cursor = cursor' /\ batch'[b].to = clock
             /\ batch'[b].page = {} /\ cursor'.gen # 0
Reads(b) == /\ batch[b].at = "claimed" /\ batch'[b].at = "fetched"
            /\ batch'[b].page = PageOf(batch[b].cursor)
            /\ batch'[b].cursor = batch[b].cursor /\ batch'[b].to = batch[b].to
            /\ UNCHANGED <<clock, stamp, published, scanned, cursor>>
AppliesPage(b) == /\ batch[b].at = "fetched" /\ batch'[b].at = "applied"
              /\ batch'[b].page = batch[b].page /\ scanned' = scanned \cup batch[b].page
              /\ batch'[b].cursor = batch[b].cursor /\ batch'[b].to = batch[b].to
              /\ UNCHANGED <<clock, stamp, published, cursor>>
StaysAt(b) == /\ batch'[b].at = batch[b].at /\ batch'[b].page = batch[b].page
           /\ batch'[b].cursor = batch[b].cursor /\ batch'[b].to = batch[b].to

LEMMA BatchMoves ==
  ASSUME RecoveryInv, RecoveryNext, NEW b \in Reconcilers
  PROVE  StaysAt(b) \/ Begins(b) \/ Reads(b) \/ AppliesPage(b) \/ batch'[b] = NoBatch
<1>0. batch \in [Reconcilers -> BatchRow] /\ cursor \in Cursors
  BY DEF RecoveryInv, RecoveryTypeOK, BatchRow
<1>1. CASE batch'[b] = batch[b]
  BY <1>1 DEF StaysAt
<1>2. CASE StartBatch(b)
  <2>1. cursor'.gen # 0
    BY <1>2 DEF StartBatch
  <2> QED
    BY <1>0, <1>2, <2>1 DEF StartBatch, Begins
<1>3. CASE Fetch(b)
  BY <1>0, <1>3 DEF Fetch, Reads, BatchRow
<1>4. CASE ApplyPage(b)
  BY <1>0, <1>4 DEF ApplyPage, AppliesPage, BatchRow
<1>5. CASE LockLost(b)
  BY <1>0, <1>5 DEF LockLost, StaysAt, BatchRow
<1>6. CASE \/ FetchFails(b) \/ ApplyFails(b) \/ AdvancePage(b) \/ CompleteWindow(b) \/ BatchCrashes(b)
  BY <1>0, <1>6 DEF FetchFails, ApplyFails, AdvancePage, CompleteWindow, BatchCrashes
<1>7. ASSUME NEW o \in Reconcilers, o # b,
             \/ StartBatch(o) \/ Fetch(o) \/ FetchFails(o) \/ ApplyPage(o) \/ ApplyFails(o)
             \/ AdvancePage(o) \/ CompleteWindow(o) \/ BatchCrashes(o) \/ LockLost(o)
      PROVE  batch'[b] = batch[b]
  BY <1>0, <1>7 DEF StartBatch, Fetch, FetchFails, ApplyPage, ApplyFails, AdvancePage, CompleteWindow,
                    BatchCrashes, LockLost
<1>8. CASE Tick \/ \E t \in Listed : Transfer(t) \/ Publish(t)
  BY <1>8 DEF Tick, Transfer, Publish, StaysAt
<1> QED
  BY <1>1, <1>2, <1>3, <1>4, <1>5, <1>6, <1>7, <1>8 DEF RecoveryNext

LEMMA FenceStep ==
  ASSUME RecoveryInv, RecoveryNext, RecoveryTypeOK'
  PROVE  BatchesAreFenced'
<1> USE DEF RecoveryInv
<1>0. /\ clock \in Int /\ clock' \in Int /\ clock <= clock' /\ published \subseteq published'
      /\ 0 <= clock' /\ cursor.gen \in Int
      /\ \A b \in Reconcilers : batch[b].to \in Int /\ batch[b].cursor.gen \in Int
  BY RecoveryAssumption, ListsGrow DEF RecoveryTypeOK, Times, Cursors
<1>1. cursor' = cursor \/ cursor'.gen = cursor.gen + 1
  <2>1. ASSUME NEW b \in Reconcilers, NextPage(b) PROVE cursor'.gen = cursor.gen + 1
    BY <2>1 DEF NextPage, RecoveryTypeOK, Cursors
  <2>2. ASSUME NEW b \in Reconcilers, NextWindow(b) PROVE cursor'.gen = cursor.gen + 1
    BY <2>2 DEF NextWindow
  <2>3. FirstWindow => cursor'.gen = cursor.gen + 1
    BY DEF FirstWindow
  <2> QED
    BY <2>1, <2>2, <2>3, CursorMoves
<1>2. SUFFICES ASSUME NEW b \in Reconcilers
               PROVE  /\ batch'[b].to <= clock' /\ batch'[b].page \subseteq published'
                      /\ batch'[b].at # "idle" =>
                           /\ batch'[b].cursor.gen # 0 /\ batch'[b].cursor.gen <= cursor'.gen
                           /\ batch'[b].cursor.gen = cursor'.gen => batch'[b].cursor = cursor'
  BY DEF BatchesAreFenced, CursorHeld
<1>3. CASE StaysAt(b)
  BY <1>0, <1>1, <1>3 DEF StaysAt, BatchesAreFenced, CursorHeld
<1>4. CASE batch'[b] = NoBatch
  BY <1>0, <1>4 DEF NoBatch
<1>5. CASE Begins(b)
  <2>1. cursor'.gen \in Int
    BY DEF RecoveryTypeOK, Cursors
  <2> QED
    BY <1>0, <1>5, <2>1 DEF Begins
<1>6. CASE Reads(b)
  <2>1. PageOf(batch[b].cursor) \subseteq published
    BY DEF PageOf, InWindow
  <2> QED
    BY <1>0, <1>6, <2>1 DEF Reads, BatchesAreFenced, CursorHeld
<1>7. CASE AppliesPage(b)
  BY <1>0, <1>7 DEF AppliesPage, BatchesAreFenced, CursorHeld
<1> QED
  BY <1>3, <1>4, <1>5, <1>6, <1>7, BatchMoves

\* What is due was listed before the window began.
LEMMA DueIsListed ==
  ASSUME RecoveryTypeOK, ListIsFinite, ListedInTime, CursorIsPast, NEW t \in OldEnough(cursor)
  PROVE  t \in InWindow(cursor) /\ Position(cursor, t) \in Nat
<1>1. /\ clock \in Int /\ cursor.to \in Int /\ stamp[t] \in Int /\ t \in Listed
      /\ Overlap \in Int /\ PublishDelay \in Int /\ PublishDelay <= Overlap /\ 0 <= Overlap
  BY RecoveryAssumption DEF RecoveryTypeOK, Times, Cursors, OldEnough
<1>2. t \in published
  BY <1>1 DEF ListedInTime, CursorIsPast, OldEnough
<1> QED
  BY <1>1, <1>2, AheadIsFinite DEF InWindow, OldEnough

LEMMA WalkStep ==
  ASSUME RecoveryInv, RecoveryNext, RecoveryTypeOK', ListIsFinite', ListedInTime', CursorIsPast'
  PROVE  WalkedSoFar'
<1> SUFFICES ASSUME NEW t \in Listed, t \in OldEnough(cursor)', t \notin scanned'
             PROVE  (cursor'.page - 1) * PerPage <= Position(cursor, t)'
  BY DEF WalkedSoFar, OldEnough
<1>0. /\ RecoveryTypeOK /\ ListIsFinite /\ WalkedSoFar /\ PageLeavesNothing
      /\ cursor \in Cursors /\ cursor' \in Cursors /\ t \notin scanned
  BY ListsGrow DEF RecoveryInv, RecoveryTypeOK
<1>1. Position(cursor, t)' \in Nat
  <2>1. IsFiniteSet(published') /\ Ahead(cursor, t)' \subseteq published'
    BY DEF ListIsFinite, Ahead, InWindow
  <2>2. Position(cursor, t)' = Cardinality(Ahead(cursor, t)')
    BY DEF Position
  <2> QED
    BY <2>1, <2>2, FS_Subset, FS_CardinalityType
<1>2. CASE cursor'.page = 1
  <2>1. (cursor'.page - 1) * PerPage = 0
    BY <1>2, RecoveryAssumption
  <2> QED
    BY <1>1, <2>1
<1>3. CASE cursor' = cursor
  <2>1. t \in OldEnough(cursor) /\ Position(cursor, t) <= Position(cursor, t)'
    BY <1>3, PositionsGrow
  <2>2. (cursor.page - 1) * PerPage <= Position(cursor, t)
    BY <1>0, <2>1 DEF WalkedSoFar
  <2>3. Position(cursor, t) \in Nat /\ (cursor.page - 1) * PerPage \in Nat
    BY <1>0, AheadIsFinite, FirstOfPage
  <2> DEFINE first == (cursor.page - 1) * PerPage
  <2>4. (cursor'.page - 1) * PerPage = first
    BY <1>3
  <2> HIDE DEF first
  <2> QED
    BY <1>1, <2>1, <2>2, <2>3, <2>4 DEF first
<1>4. ASSUME NEW b \in Reconcilers, NextPage(b)
      PROVE  (cursor'.page - 1) * PerPage <= Position(cursor, t)'
  <2>1. /\ batch[b].at = "applied" /\ CursorHeld(b) /\ cursor'.page - 1 = cursor.page
        /\ cursor'.from = cursor.from /\ cursor'.to = cursor.to
    BY <1>0, <1>4 DEF NextPage, Cursors
  <2>2. t \in OldEnough(cursor) /\ Position(cursor, t) <= Position(cursor, t)'
    BY <2>1, PositionsGrow
  <2>3. cursor.page * PerPage <= Position(cursor, t)
    BY <1>0, <2>1, <2>2 DEF PageLeavesNothing, CoveredBy
  <2>4. Position(cursor, t) \in Nat /\ cursor.page * PerPage \in Nat
    BY <1>0, AheadIsFinite, FirstOfPage
  <2> DEFINE first == cursor.page * PerPage
  <2>5. (cursor'.page - 1) * PerPage = first
    BY <2>1
  <2> HIDE DEF first
  <2> QED
    BY <1>1, <2>2, <2>3, <2>4, <2>5 DEF first
<1>5. ASSUME NEW b \in Reconcilers, NextWindow(b) PROVE cursor'.page = 1
  BY <1>5 DEF NextWindow
<1>6. FirstWindow => cursor'.page = 1
  BY DEF FirstWindow
<1> QED
  BY <1>2, <1>3, <1>4, <1>5, <1>6, CursorMoves

LEMMA PageStep ==
  ASSUME RecoveryInv, RecoveryNext, RecoveryTypeOK', ListIsFinite', ListedInTime', CursorIsPast'
  PROVE  PageLeavesNothing'
<1> SUFFICES ASSUME NEW b \in Reconcilers, batch'[b].at \in {"fetched", "applied"},
                    batch'[b].cursor = cursor',
                    NEW t \in Listed, t \in OldEnough(cursor)', t \notin CoveredBy(b)'
             PROVE  batch'[b].page # {} /\ cursor'.page * PerPage <= Position(cursor, t)'
  BY DEF PageLeavesNothing, OldEnough, CursorHeld
<1>0. /\ RecoveryTypeOK /\ ListIsFinite /\ ListedInTime /\ CursorIsPast
      /\ WalkedSoFar /\ PageLeavesNothing /\ BatchesAreFenced
      /\ cursor \in Cursors /\ scanned \subseteq scanned'
  BY ListsGrow DEF RecoveryInv, RecoveryTypeOK
<1>1. batch'[b].cursor = batch[b].cursor /\ batch[b].at # "idle"
      /\ (StaysAt(b) \/ Reads(b) \/ AppliesPage(b))
  BY BatchMoves DEF StaysAt, Begins, Reads, AppliesPage, NoBatch
<1>2. cursor' = cursor
  <2>1. batch[b].cursor.gen <= cursor.gen /\ cursor'.gen <= cursor.gen /\ cursor.gen \in Int
    BY <1>0, <1>1 DEF BatchesAreFenced, Cursors
  <2>2. ASSUME NEW o \in Reconcilers, NextPage(o) PROVE FALSE
    BY <1>0, <2>1, <2>2 DEF NextPage, Cursors
  <2>3. ASSUME NEW o \in Reconcilers, NextWindow(o) PROVE FALSE
    BY <2>1, <2>3 DEF NextWindow
  <2>4. ~FirstWindow
    BY <2>1 DEF FirstWindow
  <2> QED
    BY <2>2, <2>3, <2>4, CursorMoves
<1>3. CursorHeld(b)
  BY <1>1, <1>2 DEF CursorHeld
<1>4. t \in OldEnough(cursor) /\ Position(cursor, t) <= Position(cursor, t)'
  BY <1>2, PositionsGrow
<1>5. batch'[b].page # {} /\ cursor.page * PerPage <= Position(cursor, t)
  <2>1. CASE StaysAt(b)
    BY <1>0, <1>3, <1>4, <2>1 DEF StaysAt, CoveredBy, PageLeavesNothing
  <2>2. CASE AppliesPage(b)
    <3>1. t \notin CoveredBy(b)
      BY <1>0, <2>2 DEF AppliesPage, CoveredBy
    <3> QED
      BY <1>3, <1>4, <1>0, <2>2, <3>1 DEF AppliesPage, PageLeavesNothing
  <2>3. CASE Reads(b)
    <3>1. /\ t \notin scanned /\ batch'[b].page = PageOf(cursor)
          /\ t \notin PageOf(cursor)
      BY <1>3, <2>3 DEF Reads, CoveredBy, CursorHeld
    <3>2. t \in InWindow(cursor) /\ Position(cursor, t) \in Nat
      BY <1>0, <1>4, DueIsListed
    <3>3. (cursor.page - 1) * PerPage <= Position(cursor, t)
      BY <1>0, <1>4, <3>1 DEF WalkedSoFar
    <3>4. (cursor.page - 1) * PerPage \in Nat
      BY <1>0, FirstOfPage
    <3>5. PICK u \in InWindow(cursor) : Position(cursor, u) = (cursor.page - 1) * PerPage
      BY <1>0, <3>2, <3>3, <3>4, PositionsAreFilled
    <3> DEFINE first == (cursor.page - 1) * PerPage
               next == cursor.page * PerPage
    <3>6. first \in Nat /\ next \in Nat /\ first < next
      BY <1>0, FirstOfPage
    <3>7. PageOf(cursor) = {w \in InWindow(cursor) : first <= Position(cursor, w) /\ Position(cursor, w) < next}
      BY PageMembers
    <3>8. first <= Position(cursor, t) /\ Position(cursor, u) = first
      BY <3>3, <3>5
    <3> HIDE DEF first, next
    <3>9. u \in PageOf(cursor)
      BY <3>5, <3>6, <3>7, <3>8
    <3>10. next <= Position(cursor, t)
      BY <3>1, <3>2, <3>6, <3>7, <3>8
    <3> QED
      BY <3>1, <3>9, <3>10 DEF next
  <2> QED
    BY <1>1, <2>1, <2>2, <2>3
<1>6. Position(cursor, t)' \in Nat /\ Position(cursor, t) \in Nat /\ cursor.page * PerPage \in Nat
  <2>1. IsFiniteSet(published') /\ Ahead(cursor, t)' \subseteq published'
    BY DEF ListIsFinite, Ahead, InWindow
  <2>2. Position(cursor, t)' = Cardinality(Ahead(cursor, t)')
    BY DEF Position
  <2> QED
    BY <1>0, <2>1, <2>2, FS_Subset, FS_CardinalityType, AheadIsFinite, FirstOfPage
<1> DEFINE next == cursor.page * PerPage
<1>7. cursor'.page * PerPage = next /\ next \in Nat /\ next <= Position(cursor, t)
  BY <1>2, <1>5, <1>6
<1> HIDE DEF next
<1> QED
  BY <1>4, <1>5, <1>6, <1>7

LEMMA SlipStep ==
  ASSUME RecoveryInv, RecoveryNext
  PROVE  NothingSlipsBetweenWindows'
<1> SUFFICES ASSUME NEW t \in Listed, stamp'[t] >= epoch', stamp'[t] # -1, stamp'[t] < cursor'.from
             PROVE  t \in scanned'
  BY DEF NothingSlipsBetweenWindows
<1>0. /\ RecoveryTypeOK /\ CursorIsPast /\ NothingSlipsBetweenWindows /\ PageLeavesNothing
      /\ scanned \subseteq scanned'
  BY ListsGrow DEF RecoveryInv
<1>1. /\ clock \in Int /\ cursor.from \in Int /\ cursor.to \in Int /\ Overlap \in Nat
      /\ stamp[t] \in Int /\ cursor.from <= clock /\ (stamp[t] = -1 \/ stamp[t] >= 0)
  BY <1>0, RecoveryAssumption DEF RecoveryTypeOK, Times, Cursors, CursorIsPast
<1>2. CASE cursor'.from = cursor.from /\ epoch' = epoch
  <2>1. stamp'[t] = stamp[t]
    BY <1>1, <1>2, ListsGrow
  <2> QED
    BY <1>0, <1>2, <2>1 DEF NothingSlipsBetweenWindows
<1>3. CASE FirstWindow
  <2>1. cursor'.from = epoch' /\ epoch' \in Int
    BY <1>3, <1>1 DEF FirstWindow
  <2>2. stamp'[t] \in Int
    BY <1>1, ListsGrow
  <2> QED
    BY <2>1, <2>2
<1>4. ASSUME NEW b \in Reconcilers, NextWindow(b), stamp' = stamp PROVE t \in scanned'
  <2>1. stamp[t] < cursor.to - Overlap /\ epoch' = epoch
    BY <1>1, <1>4 DEF NextWindow, Times
  <2>2. CASE stamp[t] < cursor.from
    BY <1>0, <1>4, <2>1, <2>2 DEF NothingSlipsBetweenWindows
  <2>3. CASE stamp[t] >= cursor.from
    <3>1. t \in OldEnough(cursor)
      BY <1>4, <2>1, <2>3 DEF OldEnough
    <3> QED
      BY <1>0, <1>4, <3>1 DEF NextWindow, PageLeavesNothing, CoveredBy
  <2> QED
    BY <1>1, <2>2, <2>3
<1>5. ASSUME NEW b \in Reconcilers, NextPage(b) PROVE cursor'.from = cursor.from /\ epoch' = epoch
  BY <1>0, <1>5 DEF NextPage, RecoveryTypeOK, Cursors
<1> QED
  BY <1>2, <1>3, <1>4, <1>5, CursorMoves

\* Recovery keeps its fences, and walks every window without a gap.
THEOREM RecoveryInvariant == RecoverySpec => []RecoveryInv
<1>1. RecoveryInit => RecoveryInv
  <2> USE RecoveryAssumption
  <2> SUFFICES ASSUME RecoveryInit PROVE RecoveryInv
    OBVIOUS
  <2>1. RecoveryTypeOK
    BY DEF RecoveryInit, RecoveryTypeOK, NoCursor, NoBatch, Cursors, Times
  <2>2. ListIsFinite /\ ListedInTime /\ CursorIsPast
    BY FS_EmptySet DEF RecoveryInit, ListIsFinite, ListedInTime, CursorIsPast, NoCursor
  <2>3. BatchesAreFenced /\ PageLeavesNothing
    BY DEF RecoveryInit, BatchesAreFenced, PageLeavesNothing, NoBatch
  <2>4. WalkedSoFar /\ NothingSlipsBetweenWindows
    BY DEF RecoveryInit, WalkedSoFar, OldEnough, NothingSlipsBetweenWindows
  <2> QED
    BY <2>1, <2>2, <2>3, <2>4 DEF RecoveryInv
<1>2. RecoveryInv /\ [RecoveryNext]_recoveryVars => RecoveryInv'
  <2>1. ASSUME RecoveryInv, RecoveryNext PROVE RecoveryInv'
    BY <2>1, RecoveryTypeStep, ListsStep, CursorStep, FenceStep, WalkStep, PageStep, SlipStep
       DEF RecoveryInv
  <2>2. ASSUME RecoveryInv, UNCHANGED recoveryVars PROVE RecoveryInv'
    <3> USE <2>2 DEF recoveryVars, RecoveryInv
    <3>1. RecoveryTypeOK'
      BY DEF RecoveryTypeOK
    <3>2. ListIsFinite' /\ ListedInTime' /\ CursorIsPast' /\ BatchesAreFenced'
      BY DEF ListIsFinite, ListedInTime, CursorIsPast, BatchesAreFenced, CursorHeld
    <3>3. WalkedSoFar' /\ PageLeavesNothing' /\ NothingSlipsBetweenWindows'
      BY DEF WalkedSoFar, PageLeavesNothing, NothingSlipsBetweenWindows, OldEnough, CoveredBy, CursorHeld, Position,
             Ahead, InWindow, Before
    <3> QED
      BY <3>1, <3>2, <3>3
  <2> QED
    BY <2>1, <2>2
<1> QED
  BY <1>1, <1>2, PTL DEF RecoverySpec

\* Whatever happened since the first window began and lies before the current
\* one was handed to the payment pipeline, for any page size, overlap and delay.
THEOREM NothingSlips == RecoverySpec => []NothingSlipsBetweenWindows
<1>1. RecoveryInv => NothingSlipsBetweenWindows
  BY DEF RecoveryInv
<1> QED
  BY RecoveryInvariant, <1>1, PTL

-----------------------------------------------------------------------------
(* The inbox.  A handler that succeeded is recorded before its run reports,   *)
(* and each report is fenced by the claim it ends.                           *)

\* Attempts and claims are counted within the generations of the row.
CountsFollowClaims ==
  \A e \in InboxEvents :
    /\ inbox[e].attempts <= inbox[e].gen
    /\ inbox[e].status # "pruned" => ownClaims[e] <= inbox[e].gen

\* A run works on an event, which is stored for good when it is a payment, and
\* one that succeeded has applied it.
RunsAreOfRows ==
  \A r \in InboxRuns : irun[r].at # "idle" =>
    /\ irun[r].event \in InboxEvents
    /\ irun[r].event \in Payments => inbox[irun[r].event].status \notin {"absent", "pruned"}
    /\ irun[r].at = "succeeded" => irun[r].event \in applied

InboxInv == InboxTypeOK /\ CountsFollowClaims /\ RunsAreOfRows /\ EvidenceIsKept

-----------------------------------------------------------------------------
(* Types and counts *)

\* Payments are not updates.
LEMMA SourcesApart == \A e \in Payments : e \in InboxEvents /\ e \notin Updates
  BY InboxAssumption DEF InboxEvents

LEMMA InitInbox == InboxInit => InboxInv
  BY InboxAssumption DEF InboxInit, InboxInv, InboxTypeOK, CountsFollowClaims, RunsAreOfRows,
     EvidenceIsKept, NoRowYet, Without, NoClaim, InboxStatuses, InboxEvents

RowType == [status : InboxStatuses, gen : 0..MaxClaims, owner : Owners \cup {NoOwner},
            attempts : 0..MaxClaims, lapsed : BOOLEAN, redacted : BOOLEAN]

LEMMA RowsHaveType ==
  ASSUME InboxTypeOK
  PROVE  inbox \in [InboxEvents -> RowType]
  BY DEF InboxTypeOK, RowType

\* What the writes make of a row.
LEMMA RowWrites ==
  ASSUME NEW row \in RowType
  PROVE  /\ \A s \in InboxStatuses :
              LET new == Released(row, s) IN
              /\ new \in RowType /\ new.status = s /\ new.gen = row.gen
              /\ new.attempts = row.attempts /\ new.redacted = row.redacted
         /\ LET new == Refunded(row) IN
              /\ new \in RowType /\ new.status = row.status /\ new.gen = row.gen
              /\ new.attempts <= row.attempts /\ new.redacted = row.redacted
         /\ LET new == Redacted(row) IN
              /\ new \in RowType /\ new.status = row.status /\ new.gen = row.gen
              /\ new.attempts = row.attempts /\ new.redacted
         /\ row.gen < MaxClaims =>
              LET new == Renewed(row) IN
              /\ new \in RowType /\ new.status = "RETRY" /\ new.gen = row.gen + 1
              /\ new.attempts = row.attempts /\ new.redacted = row.redacted
<1> USE InboxAssumption DEF RowType
<1>1. ASSUME NEW s \in InboxStatuses
      PROVE  LET new == Released(row, s) IN
              /\ new \in RowType /\ new.status = s /\ new.gen = row.gen
              /\ new.attempts = row.attempts /\ new.redacted = row.redacted
  BY DEF Released
<1>2. LET new == Refunded(row) IN
        /\ new \in RowType /\ new.status = row.status /\ new.gen = row.gen
        /\ new.attempts <= row.attempts /\ new.redacted = row.redacted
  BY DEF Refunded
<1>3. LET new == Redacted(row) IN
        /\ new \in RowType /\ new.status = row.status /\ new.gen = row.gen
        /\ new.attempts = row.attempts /\ new.redacted
  BY DEF Redacted
<1>4. row.gen < MaxClaims =>
        LET new == Renewed(row) IN
        /\ new \in RowType /\ new.status = "RETRY" /\ new.gen = row.gen + 1
        /\ new.attempts = row.attempts /\ new.redacted = row.redacted
  <2> DEFINE free == Released(row, "RETRY")
  <2>1. /\ free \in RowType /\ free.status = "RETRY" /\ free.gen = row.gen
        /\ free.attempts = row.attempts /\ free.redacted = row.redacted
    BY <1>1 DEF InboxStatuses
  <2>2. Renewed(row) = [free EXCEPT !.gen = free.gen + 1]
    BY DEF Renewed
  <2> HIDE DEF free
  <2> QED
    BY <2>1, <2>2
<1> QED
  BY <1>1, <1>2, <1>3, <1>4

\* A claimed row is at most one attempt and one generation further.
LEMMA TakenRow ==
  ASSUME NEW row \in RowType, NEW r \in InboxRuns, row.gen < MaxClaims, row.attempts <= row.gen
  PROVE  LET new == Taken(row, r) IN
         /\ new \in RowType /\ new.status = "PROCESSING" /\ new.gen = row.gen + 1
         /\ new.attempts = row.attempts + 1 /\ new.redacted = row.redacted
<1>1. OwnerOfRun[r] \in Owners \cup {NoOwner}
  BY DEF Owners
<1> QED
  BY <1>1, InboxAssumption DEF Taken, RowType, InboxStatuses

\* What a report of run r may make of the row it ends the claim of.
IsReportOf(r, old, new) ==
  /\ new \in RowType
  /\ new.gen = old.gen /\ new.attempts <= old.attempts
  /\ new.status \in {"RETRY", "PROCESSED", "DEAD"}
  /\ new.status = "PROCESSED" => irun[r].at = "succeeded"
  /\ new.redacted = old.redacted \/ irun[r].event \in Updates

Report(r) == Throttle(r) \/ MarkProcessed(r) \/ MarkRetry(r) \/ MarkDead(r)

\* A report changes the row of its run's event and that one only, behind the
\* fence, and ends the run.
LEMMA ReportStep ==
  ASSUME InboxTypeOK, RunsAreOfRows, NEW r \in InboxRuns, Report(r)
  PROVE  /\ irun' = [irun EXCEPT ![r] = NoClaim] /\ irun[r].event \in InboxEvents
         /\ UNCHANGED <<applied, ownClaims>>
         /\ \/ inbox' = inbox
            \/ /\ Holds(r)
               /\ \E new \in RowType : /\ IsReportOf(r, inbox[irun[r].event], new)
                                       /\ inbox' = [inbox EXCEPT ![irun[r].event] = new]
<1> DEFINE e == irun[r].event
<1>1. /\ irun' = [irun EXCEPT ![r] = NoClaim]
      /\ UNCHANGED <<applied, ownClaims>> /\ irun[r].at # "idle"
  BY DEF Report, Throttle, MarkProcessed, MarkRetry, MarkDead, EndRun
<1>2. e \in InboxEvents /\ inbox[e] \in RowType
  BY <1>1, RowsHaveType DEF RunsAreOfRows
<1>3. \A s \in {"RETRY", "PROCESSED", "DEAD"} :
        LET new == Released(inbox[e], s) IN
        /\ new \in RowType /\ new.status = s /\ new.gen = inbox[e].gen
        /\ new.attempts = inbox[e].attempts /\ new.redacted = inbox[e].redacted
  BY <1>2, RowWrites DEF InboxStatuses
<1>4. \A s \in {"PROCESSED", "DEAD"} :
        LET new == Settled(e, s) IN
        /\ new \in RowType /\ new.status = s /\ new.gen = inbox[e].gen
        /\ new.attempts = inbox[e].attempts /\ (new.redacted = inbox[e].redacted \/ e \in Updates)
  <2> SUFFICES ASSUME NEW s \in {"PROCESSED", "DEAD"}
               PROVE  LET new == Settled(e, s) IN
                      /\ new \in RowType /\ new.status = s /\ new.gen = inbox[e].gen
                      /\ new.attempts = inbox[e].attempts
                      /\ (new.redacted = inbox[e].redacted \/ e \in Updates)
    OBVIOUS
  <2>1. CASE e \in Updates
    <3> DEFINE free == Released(inbox[e], s)
    <3>1. free \in RowType /\ free.status = s /\ free.gen = inbox[e].gen /\ free.attempts = inbox[e].attempts
      BY <1>3
    <3>2. Settled(e, s) = Redacted(free)
      BY <2>1 DEF Settled
    <3> HIDE DEF free
    <3> QED
      BY <2>1, <3>1, <3>2, RowWrites
  <2>2. CASE e \notin Updates
    BY <1>3, <2>2 DEF Settled
  <2> QED
    BY <2>1, <2>2
<1>5. LET new == Refunded(Released(inbox[e], "RETRY")) IN
        /\ new \in RowType /\ new.status = "RETRY" /\ new.gen = inbox[e].gen
        /\ new.attempts <= inbox[e].attempts /\ new.redacted = inbox[e].redacted
  <2> DEFINE free == Released(inbox[e], "RETRY")
  <2>1. /\ free \in RowType /\ free.status = "RETRY" /\ free.gen = inbox[e].gen
        /\ free.attempts = inbox[e].attempts /\ free.redacted = inbox[e].redacted
    BY <1>3
  <2> HIDE DEF free
  <2>2. /\ Refunded(free) \in RowType /\ Refunded(free).status = "RETRY"
        /\ Refunded(free).gen = inbox[e].gen
        /\ Refunded(free).attempts <= inbox[e].attempts
        /\ Refunded(free).redacted = inbox[e].redacted
    BY <2>1, RowWrites
  <2> QED
    BY <2>2 DEF free
<1>6. ASSUME NEW new \in RowType, IsReportOf(r, inbox[e], new), inbox' # inbox, Holds(r),
             inbox' = [inbox EXCEPT ![e] = new]
      PROVE  Holds(r) /\ \E x \in RowType : IsReportOf(r, inbox[e], x) /\ inbox' = [inbox EXCEPT ![e] = x]
  BY <1>6
<1> SUFFICES ASSUME inbox' # inbox
             PROVE  Holds(r) /\ \E new \in RowType : IsReportOf(r, inbox[e], new)
                                                     /\ inbox' = [inbox EXCEPT ![e] = new]
  BY <1>1, <1>2
<1>7. CASE Throttle(r)
  <2>1. Holds(r) /\ inbox' = [inbox EXCEPT ![e] = Refunded(Released(inbox[e], "RETRY"))]
    BY <1>7 DEF Throttle
  <2>2. IsReportOf(r, inbox[e], Refunded(Released(inbox[e], "RETRY")))
    BY <1>5 DEF IsReportOf
  <2> QED
    BY <1>5, <1>6, <2>1, <2>2
<1>8. CASE MarkProcessed(r)
  <2>1. Holds(r) /\ inbox' = [inbox EXCEPT ![e] = Settled(e, "PROCESSED")]
    BY <1>8 DEF MarkProcessed
  <2>2. IsReportOf(r, inbox[e], Settled(e, "PROCESSED"))
    <3>1. irun[r].at = "succeeded" /\ inbox[e].attempts \in Nat
      BY <1>2, <1>8 DEF MarkProcessed, RowType
    <3> QED
      BY <1>4, <3>1 DEF IsReportOf
  <2> QED
    BY <1>4, <1>6, <2>1, <2>2
<1>9. CASE MarkRetry(r)
  <2>1. Holds(r) /\ inbox' = [inbox EXCEPT ![e] = Released(inbox[e], "RETRY")]
    BY <1>9 DEF MarkRetry
  <2>2. IsReportOf(r, inbox[e], Released(inbox[e], "RETRY"))
    BY <1>2, <1>3 DEF IsReportOf, RowType
  <2> QED
    BY <1>3, <1>6, <2>1, <2>2
<1>10. CASE MarkDead(r)
  <2>1. Holds(r) /\ inbox' = [inbox EXCEPT ![e] = Settled(e, "DEAD")]
    BY <1>10 DEF MarkDead
  <2>2. IsReportOf(r, inbox[e], Settled(e, "DEAD"))
    BY <1>2, <1>4 DEF IsReportOf, RowType
  <2> QED
    BY <1>4, <1>6, <2>1, <2>2
<1> QED
  BY <1>7, <1>8, <1>9, <1>10 DEF Report

\* The rows of other events, and the runs other than the one that acts.
LEMMA NextInboxType ==
  ASSUME InboxTypeOK, CountsFollowClaims, RunsAreOfRows, [InboxNext]_inboxVars
  PROVE  InboxTypeOK' /\ CountsFollowClaims'
<1> DEFINE Goal == InboxTypeOK' /\ CountsFollowClaims'
<1>0. CASE UNCHANGED inboxVars
  BY <1>0 DEF inboxVars, InboxTypeOK, CountsFollowClaims
<1> USE InboxAssumption DEF InboxStatuses
\* One row gets a new content.
<1>a. ASSUME NEW e \in InboxEvents, NEW new \in RowType, inbox' = [inbox EXCEPT ![e] = new],
             new.attempts <= new.gen, new.status # "pruned" => ownClaims'[e] <= new.gen,
             \A f \in InboxEvents \ {e} : ownClaims'[f] = ownClaims[f],
             ownClaims' \in [InboxEvents -> 0..MaxClaims],
             applied' = applied,
             irun' \in [InboxRuns ->
               [at : {"idle", "claimed", "succeeded", "failed"}, event : InboxEvents \cup {NoEvent},
                gen : 0..MaxClaims, attempts : 0..MaxClaims]]
      PROVE  Goal
  <2>1. \A f \in InboxEvents : inbox'[f] = IF f = e THEN new ELSE inbox[f]
    BY <1>a DEF InboxTypeOK
  <2>2. inbox' \in [InboxEvents -> RowType]
    BY <1>a DEF InboxTypeOK, RowType
  <2> QED
    BY <1>a, <2>1, <2>2 DEF InboxTypeOK, CountsFollowClaims, RowType
<1>b. \A e \in InboxEvents : inbox[e] \in RowType /\ inbox[e].attempts <= inbox[e].gen
  BY DEF InboxTypeOK, RowType, CountsFollowClaims
<1>1. ASSUME NEW e \in InboxEvents, AcceptEvent(e) PROVE Goal
  BY <1>1, <1>a, <1>b DEF AcceptEvent, InboxTypeOK, CountsFollowClaims, RowType
<1>2. ASSUME NEW e \in InboxEvents, LeaseLapses(e) PROVE Goal
  BY <1>2, <1>a, <1>b DEF LeaseLapses, InboxTypeOK, CountsFollowClaims, RowType
<1>3. ASSUME NEW e \in InboxEvents, RecoverInbox(e) PROVE Goal
  <2>1. inbox' = [inbox EXCEPT ![e] = Renewed(inbox[e])] /\ UNCHANGED <<irun, applied, ownClaims>>
    BY <1>3 DEF RecoverInbox
  <2>2. inbox[e].gen < MaxClaims /\ ownClaims[e] <= inbox[e].gen /\ inbox[e].gen \in Nat
        /\ inbox[e].attempts \in Nat /\ ownClaims[e] \in Nat
    BY <1>3, <1>b DEF CountsFollowClaims, RecoverInbox, RowType, InboxTypeOK
  <2>3. /\ Renewed(inbox[e]) \in RowType /\ Renewed(inbox[e]).gen = inbox[e].gen + 1
        /\ Renewed(inbox[e]).attempts = inbox[e].attempts
    BY <1>b, <2>2, RowWrites
  <2>4. Renewed(inbox[e]).attempts <= Renewed(inbox[e]).gen /\ ownClaims[e] <= Renewed(inbox[e]).gen
    BY <1>b, <2>2, <2>3
  <2> QED
    BY <1>a, <2>1, <2>3, <2>4 DEF InboxTypeOK
<1>4. ASSUME NEW e \in InboxEvents, Sanitize(e) PROVE Goal
  <2>1. inbox' = [inbox EXCEPT ![e] = Redacted(inbox[e])] /\ UNCHANGED <<irun, applied, ownClaims>>
    BY <1>4 DEF Sanitize
  <2>2. inbox[e].status # "pruned" /\ ownClaims[e] <= inbox[e].gen
    BY <1>4 DEF Sanitize, CountsFollowClaims
  <2>3. /\ Redacted(inbox[e]) \in RowType /\ Redacted(inbox[e]).gen = inbox[e].gen
        /\ Redacted(inbox[e]).attempts = inbox[e].attempts
    BY <1>b, RowWrites
  <2> QED
    BY <1>a, <1>b, <2>1, <2>2, <2>3 DEF InboxTypeOK
<1>5. ASSUME NEW e \in InboxEvents, Prune(e) PROVE Goal
  <2>1. PrunedRow \in RowType /\ PrunedRow.attempts <= PrunedRow.gen /\ PrunedRow.status = "pruned"
    BY DEF PrunedRow, Without, RowType
  <2> QED
    BY <1>5, <1>a, <2>1 DEF Prune, InboxTypeOK
<1>6. ASSUME NEW r \in InboxRuns, NEW e \in InboxEvents, ClaimEvent(r, e) PROVE Goal
  <2>1. inbox[e].status # "pruned" /\ inbox[e].gen < MaxClaims /\ inbox[e].gen \in Nat /\ inbox[e].attempts \in Nat
    BY <1>6, <1>b DEF ClaimEvent, Due, RowType
  <2>2. /\ Taken(inbox[e], r) \in RowType /\ Taken(inbox[e], r).gen = inbox[e].gen + 1
        /\ Taken(inbox[e], r).attempts = inbox[e].attempts + 1
    BY <1>b, <2>1, TakenRow
  <2>3. /\ ownClaims' \in [InboxEvents -> 0..MaxClaims] /\ ownClaims'[e] <= inbox[e].gen + 1
        /\ \A f \in InboxEvents \ {e} : ownClaims'[f] = ownClaims[f]
    BY <1>6, <1>b, <2>1 DEF ClaimEvent, InboxTypeOK, CountsFollowClaims
  <2>4. irun' \in [InboxRuns ->
               [at : {"idle", "claimed", "succeeded", "failed"}, event : InboxEvents \cup {NoEvent},
                gen : 0..MaxClaims, attempts : 0..MaxClaims]]
    <3>1. inbox[e].gen + 1 \in 0 .. MaxClaims /\ inbox[e].attempts + 1 \in 0 .. MaxClaims
      BY <1>b, <2>1
    <3> QED
      BY <1>6, <3>1 DEF ClaimEvent, InboxTypeOK
  <2>5. inbox' = [inbox EXCEPT ![e] = Taken(inbox[e], r)] /\ applied' = applied
    BY <1>6 DEF ClaimEvent
  <2>6. Taken(inbox[e], r).attempts <= Taken(inbox[e], r).gen /\ ownClaims'[e] <= Taken(inbox[e], r).gen
    BY <1>b, <2>1, <2>2, <2>3
  <2> QED
    BY <1>a, <2>2, <2>3, <2>4, <2>5, <2>6
<1>7. ASSUME NEW r \in InboxRuns, Report(r) PROVE Goal
  <2>1. irun' \in [InboxRuns ->
               [at : {"idle", "claimed", "succeeded", "failed"}, event : InboxEvents \cup {NoEvent},
                gen : 0..MaxClaims, attempts : 0..MaxClaims]]
    BY <1>7, ReportStep DEF InboxTypeOK, NoClaim
  <2>2. CASE inbox' = inbox
    BY <1>7, <2>1, <2>2, ReportStep DEF InboxTypeOK, CountsFollowClaims
  <2>3. ASSUME Holds(r), NEW new \in RowType, IsReportOf(r, inbox[irun[r].event], new),
               inbox' = [inbox EXCEPT ![irun[r].event] = new]
        PROVE  Goal
    <3>1. irun[r].event \in InboxEvents /\ inbox[irun[r].event].status # "pruned"
      BY <1>7, <2>3, ReportStep DEF Holds
    <3>2. new.attempts <= new.gen /\ ownClaims[irun[r].event] <= new.gen
      BY <1>b, <2>3, <3>1 DEF IsReportOf, CountsFollowClaims, RowType
    <3>3. UNCHANGED <<applied, ownClaims>> /\ ownClaims \in [InboxEvents -> 0..MaxClaims]
      BY <1>7, ReportStep DEF InboxTypeOK
    <3> QED
      BY <1>a, <2>1, <2>3, <3>1, <3>2, <3>3
  <2> QED
    BY <1>7, <2>2, <2>3, ReportStep
<1>8. ASSUME NEW r \in InboxRuns, HandlerSucceeds(r) PROVE Goal
  BY <1>8 DEF HandlerSucceeds, RunsAreOfRows, InboxTypeOK, CountsFollowClaims
<1>9. ASSUME NEW r \in InboxRuns, HandlerFails(r) PROVE Goal
  BY <1>9 DEF HandlerFails, InboxTypeOK, CountsFollowClaims
<1>10. ASSUME NEW r \in InboxRuns, RunCrashes(r) PROVE Goal
  BY <1>10 DEF RunCrashes, EndRun, NoClaim, InboxTypeOK, CountsFollowClaims
<1> HIDE DEF Goal
<1>11. Goal
  BY <1>0, <1>1, <1>2, <1>3, <1>4, <1>5, <1>6, <1>7, <1>8, <1>9, <1>10
     DEF InboxNext, Goal, Report
<1> QED
  BY <1>11 DEF Goal

-----------------------------------------------------------------------------
(* Evidence and claims *)

\* What a step can do to the row of a payment: it becomes PROCESSED only by the
\* report of a run that succeeded, and it is neither removed nor redacted.
LEMMA PaymentRowStep ==
  ASSUME InboxTypeOK, RunsAreOfRows, [InboxNext]_inboxVars, NEW e \in Payments
  PROVE  /\ \/ inbox'[e].status = inbox[e].status
            \/ inbox'[e].status \in {"RETRY", "PROCESSING", "DEAD"}
            \/ inbox'[e].status = "PROCESSED" /\ e \in applied
         /\ inbox'[e].redacted = inbox[e].redacted
<1> DEFINE Goal == /\ \/ inbox'[e].status = inbox[e].status
                      \/ inbox'[e].status \in {"RETRY", "PROCESSING", "DEAD"}
                      \/ inbox'[e].status = "PROCESSED" /\ e \in applied
                   /\ inbox'[e].redacted = inbox[e].redacted
<1> USE SourcesApart DEF InboxTypeOK
<1>0. ASSUME inbox' = inbox PROVE Goal
  BY <1>0
<1>1. ASSUME NEW f \in InboxEvents, AcceptEvent(f) \/ LeaseLapses(f) PROVE Goal
  BY <1>1 DEF AcceptEvent, LeaseLapses
<1>2. ASSUME NEW f \in InboxEvents, RecoverInbox(f) PROVE Goal
  <2>1. /\ inbox' = [inbox EXCEPT ![f] = Renewed(inbox[f])]
        /\ inbox[f] \in RowType /\ inbox[f].gen < MaxClaims
    BY <1>2, RowsHaveType DEF RecoverInbox
  <2> QED
    BY <2>1, RowWrites
<1>3. ASSUME NEW f \in InboxEvents, Sanitize(f) \/ Prune(f) PROVE Goal
  BY <1>3 DEF Sanitize, Prune, Prunable
<1>4. ASSUME NEW r \in InboxRuns, NEW f \in InboxEvents, ClaimEvent(r, f) PROVE Goal
  BY <1>4 DEF ClaimEvent, Taken
<1>5. ASSUME NEW r \in InboxRuns, Report(r) PROVE Goal
  <2>1. CASE inbox' = inbox
    BY <1>0, <2>1
  <2>2. ASSUME NEW new \in RowType, IsReportOf(r, inbox[irun[r].event], new),
               inbox' = [inbox EXCEPT ![irun[r].event] = new], irun[r].event = e
        PROVE  Goal
    BY <2>2 DEF IsReportOf, RunsAreOfRows
  <2> QED
    BY <1>5, <2>1, <2>2, ReportStep
<1>6. \/ inbox' = inbox
      \/ \E f \in InboxEvents : AcceptEvent(f) \/ LeaseLapses(f) \/ RecoverInbox(f) \/ Sanitize(f) \/ Prune(f)
      \/ \E r \in InboxRuns : (\E f \in InboxEvents : ClaimEvent(r, f)) \/ Report(r)
  BY DEF InboxNext, inboxVars, HandlerSucceeds, HandlerFails, RunCrashes, Report
<1> HIDE DEF Goal, InboxTypeOK
<1>7. Goal
  BY <1>0, <1>1, <1>2, <1>3, <1>4, <1>5, <1>6
<1> QED
  BY <1>7 DEF Goal

\* What a step can do to a run.
LEMMA RunOfRowStep ==
  ASSUME InboxTypeOK, RunsAreOfRows, [InboxNext]_inboxVars, NEW r \in InboxRuns
  PROVE  \/ irun'[r] = irun[r]
         \/ irun'[r] = NoClaim
         \/ /\ irun[r].at # "idle" /\ irun'[r].event = irun[r].event
            /\ irun'[r].at = "succeeded" => irun[r].event \in applied'
         \/ \E e \in InboxEvents : ClaimEvent(r, e)
<1> USE DEF InboxTypeOK
<1>1. CASE UNCHANGED irun
  BY <1>1
<1>2. ASSUME NEW q \in InboxRuns,
             Throttle(q) \/ MarkProcessed(q) \/ MarkRetry(q) \/ MarkDead(q) \/ RunCrashes(q)
      PROVE  irun'[r] = irun[r] \/ irun'[r] = NoClaim
  <2>1. irun' = [irun EXCEPT ![q] = NoClaim]
    BY <1>2 DEF Throttle, MarkProcessed, MarkRetry, MarkDead, RunCrashes, EndRun
  <2> QED
    BY <2>1
<1>3. ASSUME NEW q \in InboxRuns, HandlerSucceeds(q) \/ HandlerFails(q)
      PROVE  \/ irun'[r] = irun[r]
             \/ /\ irun[r].at # "idle" /\ irun'[r].event = irun[r].event
                /\ irun'[r].at = "succeeded" => irun[r].event \in applied'
  BY <1>3 DEF HandlerSucceeds, HandlerFails
<1>4. ASSUME NEW q \in InboxRuns, q # r, NEW e \in InboxEvents, ClaimEvent(q, e)
      PROVE  irun'[r] = irun[r]
  BY <1>4 DEF ClaimEvent
<1> QED
  BY <1>1, <1>2, <1>3, <1>4 DEF InboxNext, inboxVars, AcceptEvent, LeaseLapses, RecoverInbox,
     Sanitize, Prune

\* Nothing applied is forgotten.
LEMMA AppliedStays == [InboxNext]_inboxVars => applied \subseteq applied'
  BY DEF InboxNext, inboxVars, AcceptEvent, LeaseLapses, RecoverInbox, Sanitize, Prune, ClaimEvent,
         Throttle, HandlerSucceeds, HandlerFails, MarkProcessed, MarkRetry, MarkDead, RunCrashes

LEMMA RunsStep ==
  ASSUME InboxTypeOK, RunsAreOfRows, [InboxNext]_inboxVars
  PROVE  RunsAreOfRows'
<1> SUFFICES ASSUME NEW r \in InboxRuns, irun'[r].at # "idle"
             PROVE  /\ irun'[r].event \in InboxEvents
                    /\ irun'[r].event \in Payments =>
                         inbox'[irun'[r].event].status \notin {"absent", "pruned"}
                    /\ irun'[r].at = "succeeded" => irun'[r].event \in applied'
  BY DEF RunsAreOfRows
<1>1. \A e \in Payments : inbox[e].status \notin {"absent", "pruned"} =>
                          inbox'[e].status \notin {"absent", "pruned"}
  BY PaymentRowStep
<1>2. CASE irun'[r] = irun[r]
  BY <1>1, <1>2, AppliedStays DEF RunsAreOfRows
<1>3. CASE irun'[r] = NoClaim
  BY <1>3 DEF NoClaim
<1>4. CASE /\ irun[r].at # "idle" /\ irun'[r].event = irun[r].event
           /\ irun'[r].at = "succeeded" => irun[r].event \in applied'
  BY <1>1, <1>4 DEF RunsAreOfRows
<1>5. ASSUME NEW e \in InboxEvents, ClaimEvent(r, e)
      PROVE  irun'[r].event = e /\ irun'[r].at = "claimed" /\ inbox'[e].status = "PROCESSING"
  BY <1>5 DEF ClaimEvent, Taken, InboxTypeOK
<1> QED
  BY <1>2, <1>3, <1>4, <1>5, RunOfRowStep

LEMMA EvidenceStep ==
  ASSUME InboxTypeOK, RunsAreOfRows, EvidenceIsKept, [InboxNext]_inboxVars
  PROVE  EvidenceIsKept'
<1> SUFFICES ASSUME NEW e \in Payments
             PROVE  /\ inbox'[e].status = "PROCESSED" => e \in applied'
                    /\ e \in applied' => inbox'[e].status \notin {"absent", "pruned"}
                    /\ ~inbox'[e].redacted
  BY DEF EvidenceIsKept
<1>1. inbox'[e].status = "PROCESSED" => e \in applied'
  BY PaymentRowStep, AppliedStays DEF EvidenceIsKept
<1>2. ~inbox'[e].redacted
  BY PaymentRowStep DEF EvidenceIsKept
<1>3. CASE e \in applied
  BY <1>1, <1>2, <1>3, PaymentRowStep DEF EvidenceIsKept
<1>4. CASE e \notin applied /\ e \in applied'
  <2>1. PICK r \in InboxRuns : HandlerSucceeds(r) /\ irun[r].event = e
    BY <1>4 DEF InboxNext, inboxVars, AcceptEvent, LeaseLapses, RecoverInbox, Sanitize, Prune,
         ClaimEvent, Throttle, HandlerSucceeds, HandlerFails, MarkProcessed, MarkRetry, MarkDead,
         RunCrashes
  <2>2. inbox[e].status \notin {"absent", "pruned"} /\ inbox' = inbox
    BY <2>1 DEF HandlerSucceeds, RunsAreOfRows
  <2> QED
    BY <1>1, <1>2, <2>2
<1> QED
  BY <1>1, <1>2, <1>3, <1>4

\* A claim whose lease runs is ended by a report that passes the fence.
LEMMA ClaimFenceStep ==
  ASSUME InboxTypeOK, RunsAreOfRows, [InboxNext]_inboxVars
  PROVE  FreshLeaseIsRespected
<1> SUFFICES ASSUME NEW e \in InboxEvents, inbox[e].status = "PROCESSING", ~inbox[e].lapsed,
                    inbox'[e].status # "PROCESSING"
             PROVE  \E r \in InboxRuns : /\ irun[r].event = e
                                         /\ irun[r].gen = inbox[e].gen
                                         /\ irun'[r] = NoClaim
  BY DEF FreshLeaseIsRespected
<1> USE DEF InboxTypeOK
<1>1. ASSUME NEW r \in InboxRuns, Throttle(r) \/ MarkProcessed(r) \/ MarkRetry(r) \/ MarkDead(r)
      PROVE  irun[r].event = e /\ irun[r].gen = inbox[e].gen /\ irun'[r] = NoClaim
  <2>1. irun'[r] = NoClaim
    BY <1>1 DEF Throttle, MarkProcessed, MarkRetry, MarkDead, EndRun
  <2>2. inbox' # inbox
    OBVIOUS
  <2>3. Holds(r)
    BY <1>1, <2>2 DEF Throttle, MarkProcessed, MarkRetry, MarkDead
  <2>4. \A f \in InboxEvents \ {irun[r].event} : inbox'[f] = inbox[f]
    BY <1>1 DEF Throttle, MarkProcessed, MarkRetry, MarkDead
  <2>5. irun[r].event = e
    BY <2>4
  <2> QED
    BY <2>1, <2>3, <2>5 DEF Holds
<1>2. ASSUME NEW f \in InboxEvents,
             AcceptEvent(f) \/ LeaseLapses(f) \/ Sanitize(f)
      PROVE  FALSE
  BY <1>2 DEF AcceptEvent, LeaseLapses, Sanitize, Redacted
<1>3. ASSUME NEW f \in InboxEvents, RecoverInbox(f) \/ Prune(f) PROVE FALSE
  <2>1. inbox[f].status # "PROCESSING" /\ \A g \in InboxEvents \ {f} : inbox'[g] = inbox[g]
    BY <1>3 DEF RecoverInbox, Prune, Prunable
  <2> QED
    BY <2>1
<1>4. ASSUME NEW r \in InboxRuns, NEW f \in InboxEvents, ClaimEvent(r, f) PROVE FALSE
  BY <1>4 DEF ClaimEvent, Taken
<1>5. CASE UNCHANGED inbox
  BY <1>5
<1> QED
  BY <1>1, <1>2, <1>3, <1>4, <1>5 DEF InboxNext, inboxVars, HandlerSucceeds, HandlerFails, RunCrashes

-----------------------------------------------------------------------------
(* The theorems *)

\* The invariant the theorems below rest on.
THEOREM InboxInvariant == InboxSpec => []InboxInv
<1>1. InboxInv /\ [InboxNext]_inboxVars => InboxInv'
  BY NextInboxType, RunsStep, EvidenceStep DEF InboxInv
<1> QED
  BY InitInbox, <1>1, PTL DEF InboxSpec

\* Rows and runs have the values their columns and the lanes give them.
THEOREM InboxType == InboxSpec => []InboxTypeOK
<1>1. InboxInv => InboxTypeOK
  BY DEF InboxInv
<1> QED
  BY InboxInvariant, <1>1, PTL

\* A payment event is PROCESSED only with its evidence applied, and its row
\* stays, unredacted, whatever is pruned, recovered or reported late.
THEOREM InboxEvidence == InboxSpec => []EvidenceIsKept
<1>1. InboxInv => EvidenceIsKept
  BY DEF InboxInv
<1> QED
  BY InboxInvariant, <1>1, PTL

\* No step takes evidence away, nor a claim from the run whose lease runs.
THEOREM InboxClaims == InboxSpec => ClaimsKeepEvidence
<1>1. InboxInv /\ [InboxNext]_inboxVars => [EvidenceIsKept' /\ FreshLeaseIsRespected]_inboxVars
  BY EvidenceStep, ClaimFenceStep DEF InboxInv
<1> QED
  BY InboxInvariant, <1>1, PTL DEF InboxSpec, ClaimsKeepEvidence

-----------------------------------------------------------------------------
(* Requests of the workbook.  A request is recorded in the transaction that  *)
(* acts on it, and what is recorded is never acted on again; the rows of the *)
(* tab may be anything.                                                     *)

SheetRow == [id : SheetIds \cup {NoSheetId}, body : Bodies \cup {Malformed}, shown : Outcomes]
RequestRow == [body : Bodies \cup {Malformed}, status : Outcomes]
PassRow == [at : {"idle", "requests", "rejecting", "tab", "write"},
            read : Seq(SheetRow), outcomes : [SheetIds -> Outcomes]]

SheetRows ==
  /\ rows \in Seq(SheetRow) /\ request \in [SheetIds -> RequestRow]
  /\ sheetPass \in [SheetPasses -> PassRow]
  /\ target \in [status : {"AVAILABLE", "RESERVED", "COMPROMISED"}, version : 1 .. MaxTarget]
  /\ effects \subseteq [id : SheetIds, body : Bodies, at : 1 .. MaxTarget]
  /\ edits \in 0 .. MaxEdits

\* A pass at a request is at one that has an id, and the tab is never cut.
PassesAreAtRequests ==
  \A p \in SheetPasses :
    /\ sheetPass[p].at = "requests" /\ sheetPass[p].read # <<>> => Row(p).id \in SheetIds
    /\ sheetPass[p].at = "rejecting" => sheetPass[p].read # <<>> /\ Row(p).id \in SheetIds
    /\ sheetPass[p].at = "write" => Len(sheetPass[p].read) <= Len(rows)

SheetInv == SheetRows /\ PassesAreAtRequests /\ EffectsAreRecorded

\* A set of naturals has a least one.
LEMMA LeastNumber ==
  ASSUME NEW S, S \subseteq Nat, S # {}
  PROVE  \E n \in S : \A m \in S : n <= m
<1>1. PICK k \in S : TRUE
  OBVIOUS
<1> DEFINE Z == 1 .. k
           F == {1 .. n : n \in {m \in S : m <= k}}
<1>2. F \subseteq SUBSET Z /\ F # {}
  BY <1>1
<1>3. IsFiniteSet(Z)
  BY <1>1, FS_Interval
<1>4. PICK X \in F : \A Y \in F : Y \subseteq X => Y = X
  <2> HIDE DEF F, Z
  <2> QED
    BY <1>2, <1>3, LeastSubset
<1>5. PICK n \in S : n <= k /\ X = 1 .. n
  BY <1>4
<1>6. ASSUME NEW m \in S, m < n PROVE FALSE
  <2>1. 1 .. m \in F /\ 1 .. m \subseteq X
    BY <1>5, <1>6
  <2>2. 1 .. m = 1 .. n
    BY <1>4, <1>5, <2>1
  <2>3. n \in 1 .. m
    BY <1>6, <2>2
  <2> QED
    BY <1>6, <2>3
<1> QED
  BY <1>5, <1>6

LEMMA ParsedRows ==
  ASSUME NEW read \in Seq(SheetRow)
  PROVE  /\ Parsed(read) \in Seq(SheetRow)
         /\ Parsed(read) # <<>> => Head(Parsed(read)).id \in SheetIds
<1>1. CASE \A i \in DOMAIN read : read[i].id = NoSheetId
  BY <1>1 DEF Parsed
<1>2. ASSUME NEW k \in DOMAIN read, read[k].id # NoSheetId
      PROVE  /\ Parsed(read) \in Seq(SheetRow)
             /\ Parsed(read) # <<>> => Head(Parsed(read)).id \in SheetIds
  <2> DEFINE S == {i \in DOMAIN read : read[i].id # NoSheetId}
             First(i) == read[i].id # NoSheetId /\ \A j \in 1 .. i - 1 : read[j].id = NoSheetId
             first == CHOOSE i \in DOMAIN read : First(i)
  <2>1. DOMAIN read = 1 .. Len(read) /\ Len(read) \in Nat
    OBVIOUS
  <2>2. PICK n \in S : \A m \in S : n <= m
    <3>1. S \subseteq Nat /\ S # {}
      BY <1>2, <2>1
    <3> HIDE DEF S
    <3> QED
      BY <3>1, LeastNumber
  <2>3. n \in DOMAIN read /\ First(n)
    BY <2>1, <2>2
  <2>4. first \in 1 .. Len(read) /\ First(first)
    BY <2>1, <2>3
  <2>5. Parsed(read) = SubSeq(read, first, Len(read))
    BY <1>2 DEF Parsed
  <2>6. read[first] \in SheetRow /\ read[first].id # NoSheetId
    BY <2>1, <2>4
  <2> HIDE DEF first
  <2>7. SubSeq(read, first, Len(read)) \in Seq(SheetRow) /\ Head(SubSeq(read, first, Len(read))) = read[first]
    BY <2>1, <2>4
  <2> QED
    BY <2>5, <2>6, <2>7 DEF SheetRow
<1> QED
  BY <1>1, <1>2

\* What a pass turns to, and what the owner makes of the tab.
LEMMA PassWrites ==
  ASSUME SheetInv, NEW p \in SheetPasses,
         NEW state \in PassRow, sheetPass' = [sheetPass EXCEPT ![p] = state]
  PROVE  /\ sheetPass' \in [SheetPasses -> PassRow] /\ sheetPass'[p] = state
         /\ \A q \in SheetPasses : q # p => sheetPass'[q] = sheetPass[q]
  BY DEF SheetInv, SheetRows

LEMMA SheetInitInv == SheetInit => SheetInv
<1> SUFFICES ASSUME SheetInit PROVE SheetInv
  OBVIOUS
<1> USE SheetAssumption DEF SheetInit, NothingRequested
<1>1. rows \in Seq(SheetRow)
  <2>1. PICK q \in Injection(1 .. Cardinality(SheetIds), SheetIds), body \in [SheetIds -> Bodies] :
          rows = [i \in DOMAIN q |-> [id |-> q[i], body |-> body[q[i]], shown |-> "none"]]
    BY DEF RowsAreTyped
  <2>2. Cardinality(SheetIds) \in Nat
    BY FS_CardinalityType
  <2>3. q \in [1 .. Cardinality(SheetIds) -> SheetIds]
    BY <2>1 DEF Injection
  <2>4. rows \in [1 .. Cardinality(SheetIds) -> SheetRow]
    BY <2>1, <2>3 DEF SheetRow, Outcomes
  <2> QED
    BY <2>2, <2>4
<1>2. Outside \in PassRow
  BY DEF Outside, PassRow, Outcomes
<1>3. SheetRows
  BY <1>1, <1>2 DEF SheetRows, RequestRow, NoRequest, Outcomes, Malformed
<1>4. PassesAreAtRequests
  BY DEF PassesAreAtRequests, Outside
<1> QED
  BY <1>3, <1>4 DEF SheetInv, EffectsAreRecorded

\* The owner edits the tab, which gets no shorter.
LEMMA EditStep ==
  ASSUME SheetInv,
         \/ \E q \in SheetIds, body \in Bodies : TypeRow(q, body)
         \/ \E i \in DOMAIN rows :
              \/ ClearRow(i)
              \/ \E body \in Bodies : RetypeRow(i, body)
              \/ \E j \in DOMAIN rows : SwapRows(i, j)
  PROVE  /\ rows' \in Seq(SheetRow) /\ Len(rows) <= Len(rows') /\ edits' \in 0 .. MaxEdits
         /\ UNCHANGED <<request, target, effects, sheetPass>>
<1> USE SheetAssumption DEF Edit, SheetInv, SheetRows
<1>1. ASSUME NEW q \in SheetIds, NEW body \in Bodies, TypeRow(q, body)
      PROVE  rows' \in Seq(SheetRow) /\ Len(rows) <= Len(rows')
  <2>1. [id |-> q, body |-> body, shown |-> "none"] \in SheetRow
    BY DEF SheetRow, Outcomes
  <2> QED
    BY <1>1, <2>1 DEF TypeRow
<1>2. ASSUME NEW tab \in Seq(SheetRow), NEW i \in DOMAIN tab, NEW row \in SheetRow
      PROVE  /\ [tab EXCEPT ![i] = row] \in Seq(SheetRow)
             /\ Len([tab EXCEPT ![i] = row]) = Len(tab)
             /\ DOMAIN [tab EXCEPT ![i] = row] = DOMAIN tab
  OBVIOUS
<1>3. ASSUME NEW i \in DOMAIN rows, ClearRow(i)
      PROVE  rows' \in Seq(SheetRow) /\ Len(rows) <= Len(rows')
  <2>1. [id |-> NoSheetId, body |-> Malformed, shown |-> "none"] \in SheetRow
    BY DEF SheetRow, Outcomes
  <2> QED
    BY <1>2, <1>3, <2>1 DEF ClearRow
<1>4. ASSUME NEW i \in DOMAIN rows, NEW body \in Bodies, RetypeRow(i, body)
      PROVE  rows' \in Seq(SheetRow) /\ Len(rows) <= Len(rows')
  <2>1. rows[i] \in SheetRow
    OBVIOUS
  <2>2. [rows[i] EXCEPT !.body = body] \in SheetRow
    BY <2>1 DEF SheetRow
  <2>3. rows' = [rows EXCEPT ![i] = [rows[i] EXCEPT !.body = body]]
    BY <1>4 DEF RetypeRow
  <2> QED
    BY <1>2, <2>2, <2>3
<1>5. ASSUME NEW i \in DOMAIN rows, NEW j \in DOMAIN rows, SwapRows(i, j)
      PROVE  rows' \in Seq(SheetRow) /\ Len(rows) <= Len(rows')
  <2>1. rows[i] \in SheetRow /\ rows[j] \in SheetRow
    OBVIOUS
  <2>2. rows' = [rows EXCEPT ![i] = rows[j], ![j] = rows[i]]
    BY <1>5 DEF SwapRows
  <2> DEFINE one == [rows EXCEPT ![i] = rows[j]]
             two == [one EXCEPT ![j] = rows[i]]
  <2>3. one \in Seq(SheetRow) /\ Len(one) = Len(rows) /\ DOMAIN one = DOMAIN rows
    BY <1>2, <2>1
  <2>4. rows' = two
    BY <2>2
  <2>5. two \in Seq(SheetRow) /\ Len(two) = Len(one)
    <3> HIDE DEF one
    <3> QED
      BY <1>2, <2>1, <2>3
  <2> HIDE DEF one, two
  <2> QED
    BY <2>3, <2>4, <2>5
<1>6. UNCHANGED <<request, target, effects, sheetPass>> /\ edits' \in 0 .. MaxEdits
  <2>1. \/ \E q \in SheetIds, body \in Bodies : TypeRow(q, body)
        \/ \E i \in DOMAIN rows : ClearRow(i)
        \/ \E i \in DOMAIN rows, body \in Bodies : RetypeRow(i, body)
        \/ \E i, j \in DOMAIN rows : SwapRows(i, j)
    OBVIOUS
  <2>2. edits < MaxEdits /\ edits' = edits + 1 /\ UNCHANGED <<request, target, effects, sheetPass>>
    BY <2>1 DEF TypeRow, ClearRow, RetypeRow, SwapRows
  <2> QED
    BY <2>2
<1> QED
  BY <1>1, <1>3, <1>4, <1>5, <1>6

\* The transaction of a request that is not recorded.
LEMMA ExecuteRecords ==
  ASSUME SheetInv, NEW q \in SheetIds, NEW body \in Bodies, ~IsRecorded(q), Execute(q, body)
  PROVE  /\ request' \in [SheetIds -> RequestRow] /\ request'[q].status # "none"
         /\ \A k \in SheetIds : k # q => request'[k] = request[k]
         /\ target' \in [status : {"AVAILABLE", "RESERVED", "COMPROMISED"}, version : 1 .. MaxTarget]
         /\ effects' \subseteq [id : SheetIds, body : Bodies, at : 1 .. MaxTarget]
         /\ EffectsAreRecorded'
<1> USE SheetAssumption DEF SheetInv, SheetRows
<1>0. ASSUME NEW e \in effects PROVE e.id \in SheetIds /\ e.id # q
  <2>1. e \in [id : SheetIds, body : Bodies, at : 1 .. MaxTarget]
    OBVIOUS
  <2>2. request[e.id] = [body |-> e.body, status |-> "SUCCEEDED"]
    BY DEF EffectsAreRecorded
  <2>3. request[e.id].status = "SUCCEEDED"
    BY <2>2
  <2>4. request[q].status = "none"
    BY DEF IsRecorded
  <2> QED
    BY <2>1, <2>3, <2>4
<1>1. Verdict(body) \in Outcomes \ {"none"}
  BY DEF Verdict, Outcomes
<1>2. /\ request' = [request EXCEPT ![q] = [body |-> body, status |-> Verdict(body)]]
      /\ request' \in [SheetIds -> RequestRow]
  BY <1>1 DEF Execute, RequestRow
<1>3. CASE ~IsEffective(body)
  <2>1. UNCHANGED <<target, effects>>
    BY <1>3 DEF Execute
  <2> QED
    BY <1>0, <1>1, <1>2, <2>1 DEF EffectsAreRecorded
<1>4. CASE IsEffective(body)
  <2> DEFINE e == [id |-> q, body |-> body, at |-> target.version]
  <2>1. /\ target.version < MaxTarget /\ effects' = effects \cup {e}
        /\ target' = [status |-> IF body.action = "UPDATE_SAFE_NOTE" THEN target.status
                                 ELSE Wanted(body.action),
                      version |-> target.version + 1]
    BY <1>4 DEF Execute
  <2>2. target.version \in 1 .. MaxTarget
    OBVIOUS
  <2>3. target' \in [status : {"AVAILABLE", "RESERVED", "COMPROMISED"}, version : 1 .. MaxTarget]
    <3>1. target.status \in {"AVAILABLE", "RESERVED", "COMPROMISED"}
      OBVIOUS
    <3>2. Wanted(body.action) \in {"AVAILABLE", "COMPROMISED"}
      BY DEF Wanted
    <3>3. target.version + 1 \in 1 .. MaxTarget
      BY <2>1, <2>2
    <3> QED
      BY <2>1, <3>1, <3>2, <3>3
  <2>4. Verdict(body) = "SUCCEEDED" /\ body.version = target.version
    <3>1. Verdict(body) = "SUCCEEDED"
      BY <1>4 DEF IsEffective
    <3>2. CASE body.action # "FOREIGN" /\ body.version # target.version
      BY <3>1, <3>2 DEF Verdict
    <3>3. CASE body.action = "FOREIGN"
      BY <3>1, <3>3 DEF Verdict
    <3> QED
      BY <3>1, <3>2, <3>3
  <2>6. EffectsAreRecorded'
    <3>1. /\ request'[q] = [body |-> body, status |-> "SUCCEEDED"]
          /\ \A k \in SheetIds : k # q => request'[k] = request[k]
      BY <1>2, <2>4
    <3>2. e.id = q /\ e.body = body /\ e.at = body.version
      BY <2>4
    <3> HIDE DEF e
    <3> QED
      BY <1>0, <2>1, <3>1, <3>2 DEF EffectsAreRecorded
  <2> QED
    BY <1>1, <1>2, <2>1, <2>2, <2>3, <2>6
<1> QED
  BY <1>3, <1>4

\* What is recorded stays as it is.
Kept == \A q \in SheetIds : request[q].status # "none" => request'[q] = request[q]

\* A pass takes the next row, after a transaction or without one.
LEMMA DoneStep ==
  ASSUME SheetInv, NEW p \in SheetPasses, sheetPass[p].read # <<>>, Done(p), UNCHANGED rows
  PROVE  sheetPass' \in [SheetPasses -> PassRow] /\ PassesAreAtRequests'
<1> DEFINE rest == Parsed(Tail(sheetPass[p].read))
           state == [sheetPass[p] EXCEPT !.at = "requests", !.read = rest]
<1>1. sheetPass[p] \in PassRow
  BY DEF SheetInv, SheetRows
<1>2. Tail(sheetPass[p].read) \in Seq(SheetRow)
  BY <1>1 DEF PassRow
<1>3. rest \in Seq(SheetRow) /\ (rest # <<>> => Head(rest).id \in SheetIds)
  BY <1>2, ParsedRows
<1>4. sheetPass' = [sheetPass EXCEPT ![p] = state]
  BY DEF Done, Goes
<1> HIDE DEF rest
<1>5. state \in PassRow /\ state.at = "requests" /\ state.read = rest
  BY <1>1, <1>3 DEF PassRow
<1> HIDE DEF state
<1>6. /\ sheetPass' \in [SheetPasses -> PassRow] /\ sheetPass'[p] = state
      /\ \A q \in SheetPasses : q # p => sheetPass'[q] = sheetPass[q]
  BY <1>4, <1>5, PassWrites
<1> QED
  BY <1>3, <1>5, <1>6 DEF SheetInv, PassesAreAtRequests, Row

\* A pass goes on without touching the database or the tab.
LEMMA PassStep ==
  ASSUME SheetInv, NEW p \in SheetPasses,
         ReadRequests(p) \/ RowFails(p) \/ ReadSnapshot(p) \/ ReadTab(p) \/ PassFails(p)
  PROVE  /\ sheetPass' \in [SheetPasses -> PassRow] /\ PassesAreAtRequests'
         /\ UNCHANGED <<rows, request, target, effects, edits>>
<1>1. sheetPass[p] \in PassRow /\ rows \in Seq(SheetRow)
  BY DEF SheetInv, SheetRows
<1>2. Outside \in PassRow /\ Outside.at = "idle"
  BY DEF Outside, PassRow, Outcomes
<1>3. ASSUME NEW state \in PassRow, Goes(p, state), UNCHANGED rows,
             state.at = "requests" /\ state.read # <<>> => Head(state.read).id \in SheetIds,
             state.at = "rejecting" => state.read # <<>> /\ Head(state.read).id \in SheetIds,
             state.at = "write" => state.read = rows
      PROVE  sheetPass' \in [SheetPasses -> PassRow] /\ PassesAreAtRequests'
  <2>1. /\ sheetPass' \in [SheetPasses -> PassRow] /\ sheetPass'[p] = state
        /\ \A q \in SheetPasses : q # p => sheetPass'[q] = sheetPass[q]
    BY <1>3, PassWrites DEF Goes
  <2>2. rows' = rows /\ Len(rows) \in Nat
    BY <1>1, <1>3
  <2> QED
    BY <1>3, <2>1, <2>2 DEF SheetInv, PassesAreAtRequests, Row
<1>4. CASE ReadRequests(p)
  <2> DEFINE state == [Outside EXCEPT !.at = "requests", !.read = Parsed(rows)]
  <2>1. Parsed(rows) \in Seq(SheetRow) /\ (Parsed(rows) # <<>> => Head(Parsed(rows)).id \in SheetIds)
    BY <1>1, ParsedRows
  <2>2. state \in PassRow /\ state.at = "requests" /\ state.read = Parsed(rows)
    BY <1>2, <2>1 DEF PassRow, Outside
  <2>3. Goes(p, state) /\ UNCHANGED <<rows, request, target, effects, edits>>
    BY <1>4 DEF ReadRequests
  <2> HIDE DEF state
  <2> QED
    BY <1>3, <2>1, <2>2, <2>3
<1>5. CASE RowFails(p)
  <2> DEFINE state == [sheetPass[p] EXCEPT !.at = "rejecting"]
  <2>1. state \in PassRow /\ state.at = "rejecting" /\ state.read = sheetPass[p].read
    BY <1>1 DEF PassRow
  <2>2. Goes(p, state) /\ UNCHANGED <<rows, request, target, effects, edits>>
    BY <1>5 DEF RowFails
  <2>3. state.read # <<>> /\ Head(state.read).id \in SheetIds
    BY <1>5, <2>1 DEF RowFails, SheetInv, PassesAreAtRequests, Row
  <2> HIDE DEF state
  <2> QED
    BY <1>3, <2>1, <2>2, <2>3
<1>6. CASE ReadSnapshot(p)
  <2> DEFINE outcomes == [q \in SheetIds |-> request[q].status]
             state == [Outside EXCEPT !.at = "tab", !.outcomes = outcomes]
  <2>1. outcomes \in [SheetIds -> Outcomes]
    BY DEF SheetInv, SheetRows, RequestRow
  <2> HIDE DEF outcomes
  <2>2. state \in PassRow /\ state.at = "tab"
    BY <1>2, <2>1 DEF PassRow, Outside
  <2>3. Goes(p, state) /\ UNCHANGED <<rows, request, target, effects, edits>>
    BY <1>6 DEF ReadSnapshot, outcomes
  <2> HIDE DEF state
  <2> QED
    BY <1>3, <2>2, <2>3
<1>7. CASE ReadTab(p)
  <2> DEFINE state == [sheetPass[p] EXCEPT !.at = "write", !.read = rows]
  <2>1. state \in PassRow /\ state.at = "write" /\ state.read = rows
    BY <1>1 DEF PassRow
  <2>2. Goes(p, state) /\ UNCHANGED <<rows, request, target, effects, edits>>
    BY <1>7 DEF ReadTab
  <2> HIDE DEF state
  <2> QED
    BY <1>3, <2>1, <2>2
<1>8. CASE PassFails(p)
  BY <1>2, <1>3, <1>8 DEF PassFails
<1> QED
  BY <1>4, <1>5, <1>6, <1>7, <1>8

\* The transactions on a request: each records one that was not.
LEMMA RequestStep ==
  ASSUME SheetInv, NEW p \in SheetPasses,
         ProcessRow(p) \/ RowCommitsUnheard(p) \/ PersistRejectedSheetRow(p)
  PROVE  SheetInv' /\ Kept
<1> DEFINE q == Row(p).id
           body == Row(p).body
<1>1. sheetPass[p] \in PassRow /\ sheetPass[p].read # <<>> /\ q \in SheetIds
  BY DEF SheetInv, SheetRows, PassesAreAtRequests, ProcessRow, RowCommitsUnheard, PersistRejectedSheetRow
<1>2. Row(p) \in SheetRow
  BY <1>1 DEF PassRow, Row
<1>3. UNCHANGED <<rows, edits>>
  BY DEF ProcessRow, RowCommitsUnheard, PersistRejectedSheetRow
<1>4. sheetPass' \in [SheetPasses -> PassRow] /\ PassesAreAtRequests'
  <2>1. CASE ProcessRow(p) \/ PersistRejectedSheetRow(p)
    BY <1>1, <1>3, <2>1, DoneStep DEF ProcessRow, PersistRejectedSheetRow
  <2>2. CASE RowCommitsUnheard(p)
    <3> DEFINE state == [sheetPass[p] EXCEPT !.at = "rejecting"]
    <3>1. state \in PassRow /\ state.at = "rejecting" /\ state.read = sheetPass[p].read
      BY <1>1 DEF PassRow
    <3>2. sheetPass' = [sheetPass EXCEPT ![p] = state]
      BY <2>2 DEF RowCommitsUnheard, Goes
    <3> HIDE DEF state
    <3>3. /\ sheetPass' \in [SheetPasses -> PassRow] /\ sheetPass'[p] = state
          /\ \A k \in SheetPasses : k # p => sheetPass'[k] = sheetPass[k]
      BY <3>1, <3>2, PassWrites
    <3> QED
      BY <1>1, <1>3, <3>1, <3>3 DEF SheetInv, PassesAreAtRequests, Row
  <2> QED
    BY <2>1, <2>2
<1>5. CASE ~IsRecorded(q) /\ Execute(q, body) /\ body # Malformed
  <2>1. body \in Bodies
    BY <1>2, <1>5 DEF SheetRow
  <2> HIDE DEF q, body
  <2>2. /\ request' \in [SheetIds -> RequestRow]
        /\ \A k \in SheetIds : k # q => request'[k] = request[k]
        /\ target' \in [status : {"AVAILABLE", "RESERVED", "COMPROMISED"}, version : 1 .. MaxTarget]
        /\ effects' \subseteq [id : SheetIds, body : Bodies, at : 1 .. MaxTarget]
        /\ EffectsAreRecorded'
    BY <1>1, <1>5, <2>1, ExecuteRecords
  <2>3. SheetRows'
    BY <1>3, <1>4, <2>2 DEF SheetInv, SheetRows
  <2> QED
    BY <1>4, <1>5, <2>2, <2>3 DEF SheetInv, Kept, IsRecorded
<1>6. CASE PersistRejectedSheetRow(p) /\ ~IsRecorded(q)
  <2> DEFINE rejected == [body |-> Malformed, status |-> "REJECTED"]
  <2>1. request' = [request EXCEPT ![q] = rejected] /\ UNCHANGED <<target, effects>>
    BY <1>6 DEF PersistRejectedSheetRow
  <2>2. rejected \in RequestRow
    BY DEF RequestRow, Outcomes
  <2> HIDE DEF rejected, q
  <2>3. /\ request' \in [SheetIds -> RequestRow]
        /\ \A k \in SheetIds : k # q => request'[k] = request[k]
    BY <1>1, <2>1, <2>2 DEF SheetInv, SheetRows
  <2>4. ASSUME NEW e \in effects PROVE e.id \in SheetIds /\ e.id # q
    <3>1. e \in [id : SheetIds, body : Bodies, at : 1 .. MaxTarget]
      BY DEF SheetInv, SheetRows
    <3>2. request[e.id] = [body |-> e.body, status |-> "SUCCEEDED"]
      BY DEF SheetInv, EffectsAreRecorded
    <3>3. request[e.id].status = "SUCCEEDED"
      BY <3>2
    <3>4. request[q].status = "none"
      BY <1>6 DEF IsRecorded
    <3> QED
      BY <3>1, <3>3, <3>4
  <2>5. EffectsAreRecorded'
    BY <2>1, <2>3, <2>4 DEF SheetInv, EffectsAreRecorded
  <2>6. SheetRows'
    BY <1>3, <1>4, <2>1, <2>3 DEF SheetInv, SheetRows
  <2> QED
    BY <1>4, <1>6, <2>3, <2>5, <2>6 DEF SheetInv, Kept, IsRecorded
<1>7. CASE UNCHANGED <<request, target, effects>>
  BY <1>3, <1>4, <1>7 DEF SheetInv, SheetRows, Kept, EffectsAreRecorded
<1> QED
  BY <1>5, <1>6, <1>7 DEF ProcessRow, RowCommitsUnheard, PersistRejectedSheetRow

\* The projection writes statuses by position and appends the requests that had no row.
LEMMA WriteStep ==
  ASSUME SheetInv, NEW p \in SheetPasses, WriteTab(p)
  PROVE  SheetInv' /\ Kept
<1> DEFINE n == Len(sheetPass[p].read)
           m == Cardinality(Unlisted(p))
           length == IF n + m > Len(rows) THEN n + m ELSE Len(rows)
<1>1. /\ sheetPass[p] \in PassRow /\ rows \in Seq(SheetRow) /\ request \in [SheetIds -> RequestRow]
      /\ n <= Len(rows) /\ n \in Nat /\ Len(rows) \in Nat
  BY DEF SheetInv, SheetRows, PassesAreAtRequests, WriteTab, PassRow
<1>2. IsFiniteSet(Unlisted(p)) /\ m \in Nat
  <2>1. Unlisted(p) \subseteq SheetIds
    BY DEF Unlisted
  <2> QED
    BY <2>1, SheetAssumption, FS_Subset, FS_CardinalityType
<1>3. PICK q \in Injection(1 .. m, Unlisted(p)) :
        rows' = [i \in 1 .. length |->
          CASE i <= n -> [rows[i] EXCEPT !.shown = Cell(p, i)]
            [] i > n /\ i <= n + m ->
                 [id |-> q[i - n], body |-> request[q[i - n]].body,
                  shown |-> sheetPass[p].outcomes[q[i - n]]]
            [] OTHER -> rows[i]]
  BY DEF WriteTab
<1>4. q \in [1 .. m -> Unlisted(p)]
  BY <1>3 DEF Injection
<1> HIDE DEF n, m
<1>5. length \in Nat /\ Len(rows) <= length /\ n + m <= length
  BY <1>1, <1>2
<1>6. ASSUME NEW i \in 1 .. length, i <= n PROVE rows'[i] \in SheetRow
  <2>1. rows[i] \in SheetRow
    BY <1>1, <1>6
  <2>2. i \in 1 .. Len(sheetPass[p].read)
    BY <1>6 DEF n
  <2>3. sheetPass[p].read[i] \in SheetRow
    BY <1>1, <2>2 DEF PassRow
  <2>4. Cell(p, i) \in Outcomes
    BY <1>1, <2>3 DEF Cell, SheetRow, PassRow
  <2>5. [rows[i] EXCEPT !.shown = Cell(p, i)] \in SheetRow
    BY <2>1, <2>4 DEF SheetRow
  <2> QED
    BY <1>1, <1>3, <1>6, <2>5
<1>7. ASSUME NEW i \in 1 .. length, i > n, i <= n + m PROVE rows'[i] \in SheetRow
  <2>1. i - n \in 1 .. m
    BY <1>1, <1>2, <1>5, <1>7
  <2>2. q[i - n] \in Unlisted(p)
    BY <1>4, <2>1
  <2>3. q[i - n] \in SheetIds
    BY <2>2 DEF Unlisted
  <2>4. request[q[i - n]].body \in Bodies \cup {Malformed} /\ sheetPass[p].outcomes[q[i - n]] \in Outcomes
    BY <1>1, <2>3 DEF RequestRow, PassRow
  <2>5. rows'[i] = [id |-> q[i - n], body |-> request[q[i - n]].body,
                    shown |-> sheetPass[p].outcomes[q[i - n]]]
    BY <1>1, <1>2, <1>3, <1>5, <1>7
  <2> QED
    BY <2>3, <2>4, <2>5 DEF SheetRow
<1>8. ASSUME NEW i \in 1 .. length, i > n + m PROVE rows'[i] \in SheetRow
  <2>1. rows'[i] = rows[i] /\ i \in 1 .. Len(rows)
    BY <1>1, <1>2, <1>3, <1>5, <1>8
  <2> QED
    BY <1>1, <2>1
<1>9. rows' \in Seq(SheetRow) /\ Len(rows') = length
  <2> HIDE DEF length
  <2>1. rows' \in [1 .. length -> SheetRow]
    <3>1. \A i \in 1 .. length : rows'[i] \in SheetRow
      BY <1>1, <1>2, <1>5, <1>6, <1>7, <1>8
    <3> QED
      BY <1>3, <3>1
  <2> QED
    BY <1>5, <2>1
<1>10. Goes(p, Outside) /\ UNCHANGED <<request, target, effects, edits>>
  BY DEF WriteTab
<1>11. Outside \in PassRow /\ Outside.at = "idle"
  BY DEF Outside, PassRow, Outcomes
<1>12. /\ sheetPass' \in [SheetPasses -> PassRow] /\ sheetPass'[p] = Outside
       /\ \A k \in SheetPasses : k # p => sheetPass'[k] = sheetPass[k]
  BY <1>10, <1>11, PassWrites DEF Goes
<1>13. PassesAreAtRequests'
  <2> HIDE DEF length
  <2>1. ASSUME NEW k \in SheetPasses PROVE Len(sheetPass[k].read) \in Nat
    BY DEF SheetInv, SheetRows, PassRow
  <2> QED
    BY <1>1, <1>5, <1>9, <1>11, <1>12, <2>1 DEF SheetInv, PassesAreAtRequests, Row
<1> QED
  BY <1>9, <1>10, <1>12, <1>13 DEF SheetInv, SheetRows, EffectsAreRecorded, Kept

LEMMA SheetStep ==
  ASSUME SheetInv, SheetNext
  PROVE  SheetInv' /\ Kept
<1>1. CASE \/ \E q \in SheetIds, body \in Bodies : TypeRow(q, body)
           \/ \E i \in DOMAIN rows :
                \/ ClearRow(i)
                \/ \E body \in Bodies : RetypeRow(i, body)
                \/ \E j \in DOMAIN rows : SwapRows(i, j)
  <2>1. /\ rows' \in Seq(SheetRow) /\ Len(rows) <= Len(rows') /\ edits' \in 0 .. MaxEdits
        /\ UNCHANGED <<request, target, effects, sheetPass>>
    BY <1>1, EditStep
  <2>2. PassesAreAtRequests'
    <3>1. ASSUME NEW k \in SheetPasses PROVE Len(sheetPass[k].read) \in Nat
      BY DEF SheetInv, SheetRows, PassRow
    <3>2. Len(rows) \in Nat /\ Len(rows') \in Nat
      BY <2>1 DEF SheetInv, SheetRows
    <3> QED
      BY <2>1, <3>1, <3>2 DEF SheetInv, PassesAreAtRequests, Row
  <2> QED
    BY <2>1, <2>2 DEF SheetInv, SheetRows, EffectsAreRecorded, Kept
<1>2. CASE MoveTarget
  <2>1. target.version \in 1 .. MaxTarget /\ MaxTarget \in Nat
    BY SheetAssumption DEF SheetInv, SheetRows
  <2>2. /\ target' \in [status : {"AVAILABLE", "RESERVED", "COMPROMISED"}, version : 1 .. MaxTarget]
        /\ UNCHANGED <<rows, request, effects, sheetPass, edits>>
    BY <1>2, <2>1 DEF MoveTarget
  <2> QED
    BY <2>2 DEF SheetInv, SheetRows, PassesAreAtRequests, Row, EffectsAreRecorded, Kept
<1>3. ASSUME NEW p \in SheetPasses,
             ReadRequests(p) \/ RowFails(p) \/ ReadSnapshot(p) \/ ReadTab(p) \/ PassFails(p)
      PROVE  SheetInv' /\ Kept
  BY <1>3, PassStep DEF SheetInv, SheetRows, EffectsAreRecorded, Kept
<1> QED
  BY <1>1, <1>2, <1>3, RequestStep, WriteStep DEF SheetNext

\* Requests are recorded with what they did, whatever the tab says.
THEOREM SheetInvariant == SheetSpec => []SheetInv
<1>1. SheetInv /\ [SheetNext]_sheetVars => SheetInv'
  <2>1. SheetInv /\ UNCHANGED sheetVars => SheetInv'
    BY DEF sheetVars, SheetInv, SheetRows, PassesAreAtRequests, Row, EffectsAreRecorded
  <2> QED
    BY <2>1, SheetStep
<1> QED
  BY SheetInitInv, <1>1, PTL DEF SheetSpec

\* However a row is read, retyped, sorted, failed half-way or processed by two
\* passes, its request changes the asset once at most, and its outcome stays.
THEOREM SheetActsOnce == SheetSpec => RequestsActOnce
<1>1. SheetInv /\ [SheetNext]_sheetVars =>
        [/\ EffectsAreRecorded'
         /\ \A q \in SheetIds : request[q].status # "none" => request'[q] = request[q]]_sheetVars
  BY SheetStep DEF SheetInv, Kept
<1> QED
  BY SheetInvariant, <1>1, PTL DEF SheetSpec, RequestsActOnce
=============================================================================
