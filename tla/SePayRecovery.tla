--------------------------- MODULE SePayRecovery ---------------------------
(*************************************************************************)
(* Reconciliation with the bank's own list of transfers: the recovery job  *)
(* (modules/payments/recovery.ts), its fenced page cursor and the walk      *)
(* through a window (reconciliation.ts), started by the worker or by a     *)
(* customer's "check payment" (check-now.ts), never both at once.          *)
(*                                                                       *)
(* Seconds are ticks of one clock.  The provider lists a transfer of the    *)
(* window in the order of its date, and may list it late, by PublishDelay   *)
(* at most.                                                              *)
(*************************************************************************)
EXTENDS Integers, FiniteSets

CONSTANTS Listed,        \* transfers, by provider order among equal dates
          Reconcilers,   \* processes that may run a recovery batch
          Overlap,       \* SEPAY_RECOVERY_OVERLAP_SECONDS
          PublishDelay,  \* how late the provider may list a transfer
          PerPage,       \* min(batchSize, 100)
          MaxClock, MaxGeneration   \* bounds

ASSUME RecoveryAssumption ==
  /\ Listed \subseteq Nat
  /\ Overlap \in Nat
  /\ PublishDelay \in 0..Overlap
  /\ PerPage \in Nat \ {0}
  /\ MaxClock \in Nat
  /\ MaxGeneration \in Nat \ {0}

VARIABLES clock,
          stamp,       \* transfer -> transacted_at, or -1 before it happens
          published,   \* transfers the provider lists
          scanned,     \* transfers given to applyPaymentEvidence
          cursor,      \* sepay_reconciliation_cursor
          epoch,       \* where the first window began
          batch        \* reconciler -> its recovery batch

recoveryVars == <<clock, stamp, published, scanned, cursor, epoch, batch>>

Times == 0..MaxClock
NoCursor == [from |-> 0, to |-> 0, page |-> 1, gen |-> 0]
NoBatch == [at |-> "idle", cursor |-> NoCursor, to |-> 0, page |-> {}, locked |-> FALSE]
Cursors == [from : Times, to : Times, page : 1..(MaxGeneration + 1), gen : 0..MaxGeneration]

RecoveryTypeOK ==
  /\ clock \in Times
  /\ stamp \in [Listed -> Times \cup {-1}]
  /\ published \subseteq Listed
  /\ scanned \subseteq published
  /\ cursor \in Cursors
  /\ epoch \in Times
  /\ batch \in [Reconcilers -> [at : {"idle", "claimed", "fetched", "applied"},
                                cursor : Cursors, to : Times,
                                page : SUBSET Listed, locked : BOOLEAN]]

RecoveryInit ==
  /\ clock = 0
  /\ stamp = [t \in Listed |-> -1]
  /\ published = {}
  /\ scanned = {}
  /\ cursor = NoCursor
  /\ epoch = 0
  /\ batch = [b \in Reconcilers |-> NoBatch]

Larger(a, b) == IF a > b THEN a ELSE b
Smaller(a, b) == IF a < b THEN a ELSE b

-----------------------------------------------------------------------------
(* Time passes, unless a transfer must be listed first.                     *)
Tick ==
  /\ clock < MaxClock
  /\ \A t \in Listed \ published : stamp[t] = -1 \/ clock - stamp[t] < PublishDelay
  /\ clock' = clock + 1
  /\ UNCHANGED <<stamp, published, scanned, cursor, epoch, batch>>

Transfer(t) ==
  /\ stamp[t] = -1
  /\ stamp' = [stamp EXCEPT ![t] = clock]
  /\ UNCHANGED <<clock, published, scanned, cursor, epoch, batch>>

Publish(t) ==
  /\ stamp[t] # -1
  /\ t \notin published
  /\ published' = published \cup {t}
  /\ UNCHANGED <<clock, stamp, scanned, cursor, epoch, batch>>

-----------------------------------------------------------------------------

(* recoverSePayBatch takes the advisory lock and claims the cursor: a stored  *)
(* window is kept, and the proposal only starts the very first one.          *)
StartBatch(b) ==
  LET proposed == Larger(0, clock - Overlap) IN
  /\ batch[b].at = "idle"
  /\ \A o \in Reconcilers : ~batch[o].locked
  /\ \/ /\ cursor.gen # 0
        /\ UNCHANGED <<cursor, epoch>>
     \/ /\ cursor.gen = 0
        /\ \E oldest \in 0..clock :
             /\ cursor' = [from |-> Smaller(oldest, proposed), to |-> clock,
                           page |-> 1, gen |-> 1]
             /\ epoch' = Smaller(oldest, proposed)
  /\ batch' = [batch EXCEPT ![b] =
       [at |-> "claimed", cursor |-> cursor', to |-> clock, page |-> {}, locked |-> TRUE]]
  /\ UNCHANGED <<clock, stamp, published, scanned>>

\* listTransactions: one page of the window, in the order of the dates.
InWindow(c) == {t \in published : stamp[t] >= c.from /\ stamp[t] <= c.to}
Before(u, t) == stamp[u] < stamp[t] \/ (stamp[u] = stamp[t] /\ u < t)
PageOf(c) ==
  {t \in InWindow(c) :
     LET position == Cardinality({u \in InWindow(c) : Before(u, t)})
     IN (c.page - 1) * PerPage <= position /\ position < c.page * PerPage}

Fetch(b) ==
  /\ batch[b].at = "claimed"
  /\ batch' = [batch EXCEPT ![b].at = "fetched", ![b].page = PageOf(batch[b].cursor)]
  /\ UNCHANGED <<clock, stamp, published, scanned, cursor, epoch>>

(* The provider fails or asks to come back later: the cursor stays.          *)
FetchFails(b) ==
  /\ batch[b].at = "claimed"
  /\ batch' = [batch EXCEPT ![b] = NoBatch]
  /\ UNCHANGED <<clock, stamp, published, scanned, cursor, epoch>>

(* Every transfer of the page goes through applyPaymentEvidence ...          *)
ApplyPage(b) ==
  /\ batch[b].at = "fetched"
  /\ scanned' = scanned \cup batch[b].page
  /\ batch' = [batch EXCEPT ![b].at = "applied"]
  /\ UNCHANGED <<clock, stamp, published, cursor, epoch>>

(* ... or one of them fails: those before it are applied, the cursor stays.  *)
ApplyFails(b) ==
  /\ batch[b].at = "fetched"
  /\ \E bad \in batch[b].page :
       scanned' = scanned \cup {t \in batch[b].page : Before(t, bad)}
  /\ batch' = [batch EXCEPT ![b] = NoBatch]
  /\ UNCHANGED <<clock, stamp, published, cursor, epoch>>

\* Both cursor writes demand the window, page and generation that were claimed.
CursorHeld(b) == cursor = batch[b].cursor

(* advancePage after a page with transfers on it.                            *)
AdvancePage(b) ==
  /\ batch[b].at = "applied"
  /\ batch[b].page # {}
  /\ cursor.gen < MaxGeneration
  /\ cursor' = IF CursorHeld(b) THEN [cursor EXCEPT !.page = @ + 1, !.gen = @ + 1]
               ELSE cursor
  /\ batch' = [batch EXCEPT ![b] = NoBatch]
  /\ UNCHANGED <<clock, stamp, published, scanned, epoch>>

\* Mutant of OverlapFrom: windows that only touch.
WindowEnd(c) == c.to

OverlapFrom(c) == Larger(0, c.to - Overlap)

(* completeWindow after an empty page: the next window overlaps this one and  *)
(* reaches back to the oldest intent still waited on.                        *)
CompleteWindow(b) ==
  /\ batch[b].at = "applied"
  /\ batch[b].page = {}
  /\ cursor.gen < MaxGeneration
  /\ \E oldest \in 0..clock :
       cursor' = IF CursorHeld(b)
                 THEN [from |-> Smaller(OverlapFrom(batch[b].cursor), oldest), to |-> batch[b].to,
                       page |-> 1, gen |-> cursor.gen + 1]
                 ELSE cursor
  /\ batch' = [batch EXCEPT ![b] = NoBatch]
  /\ UNCHANGED <<clock, stamp, published, scanned, epoch>>

(* The process stops.                                                       *)
BatchCrashes(b) ==
  /\ batch[b].at # "idle"
  /\ batch' = [batch EXCEPT ![b] = NoBatch]
  /\ UNCHANGED <<clock, stamp, published, scanned, cursor, epoch>>

(* The connection that holds the advisory lock drops; the batch works on      *)
(* through the pool.                                                        *)
LockLost(b) ==
  /\ batch[b].locked
  /\ batch' = [batch EXCEPT ![b].locked = FALSE]
  /\ UNCHANGED <<clock, stamp, published, scanned, cursor, epoch>>

RecoveryNext ==
  \/ Tick
  \/ \E t \in Listed : Transfer(t) \/ Publish(t)
  \/ \E b \in Reconcilers :
       \/ StartBatch(b) \/ Fetch(b) \/ FetchFails(b) \/ ApplyPage(b) \/ ApplyFails(b)
       \/ AdvancePage(b) \/ CompleteWindow(b) \/ BatchCrashes(b) \/ LockLost(b)

RecoverySpec == RecoveryInit /\ [][RecoveryNext]_recoveryVars

-----------------------------------------------------------------------------
(* No transfer slips between two windows: whatever happened since the first   *)
(* window began and lies before the current one has been handed to the        *)
(* payment pipeline, although pages are fetched at different times, the       *)
(* provider lists transfers late, batches fail and two may overlap when the   *)
(* lock is lost.                                                             *)
NothingSlipsBetweenWindows ==
  \A t \in Listed :
    (stamp[t] >= epoch /\ stamp[t] # -1 /\ stamp[t] < cursor.from) => t \in scanned
=============================================================================
