---------------------------- MODULE OutboxProofs ----------------------------
(***************************************************************************)
(* The fence of the outbox, for every number of events, processes, drains  *)
(* and retries.  The two facts that make it work are that generations of   *)
(* concurrent claims of one row are distinct (ClaimsDistinct) and that a   *)
(* settled row has no owner (SettledUnowned), so no run passes the fence.  *)
(***************************************************************************)
EXTENDS Outbox, FiniteSetTheorems, TLAPS

\* A drain at work holds an emitted event, claimed at a generation of that row.
ClaimsReal ==
  \A d \in Drains : Active(d) =>
    /\ occurred[held[d]] > 0
    /\ heldGen[d] \in 1..gen[held[d]]

ClaimsDistinct ==
  \A c, d \in Drains :
    c # d /\ Active(c) /\ Active(d) /\ held[c] = held[d] => heldGen[c] # heldGen[d]

\* A decision is that of its run, but for the one the catch makes.
VerdictsRecorded ==
  \A d \in Drains : phase[d] = "deciding" =>
    /\ verdict[d] \in Verdicts
    /\ verdict[d] # "THROWN" =>
         [event |-> held[d], gen |-> heldGen[d], verdict |-> verdict[d]] \in ran

\* Where the fence still lets the catch through, its run is one to count.
CatchCounts ==
  \A d \in Drains : phase[d] = "deciding" /\ verdict[d] = "THROWN" /\ Holds(d) =>
    \E r \in CountableRuns(held[d]) : r.gen = heldGen[d]

RunsOccurred == \A r \in ran : occurred[r.event] > 0

SettledUnowned ==
  \A e \in Events : Settled(e) =>
    /\ owner[e] = None
    /\ occurred[e] > 0
    /\ ~(published[e] /\ dead[e])

DispositionClosesDead == \A e \in Events : disposition[e] # None => dead[e] /\ ~published[e]

BudgetLeft == \A e \in Events : ~dead[e] => attempts[e] < MaxAttempts

IInv ==
  /\ TypeOK
  /\ ClaimsReal
  /\ ClaimsDistinct
  /\ VerdictsRecorded
  /\ RunsOccurred
  /\ SettledUnowned
  /\ DispositionClosesDead
  /\ BudgetLeft
  /\ SettledByLatestRun
  /\ DeadLetterHasCause

-----------------------------------------------------------------------------
(* Type correctness *)

LEMMA InitType == Init => TypeOK
  BY OutboxConstants DEF Init, TypeOK, Active

LocalsTyped ==
  /\ phase \in [Drains -> {"idle", "polling", "handling", "deciding"}]
  /\ cutoff \in [Drains -> Nat]
  /\ budget \in [Drains -> Nat]
  /\ held \in [Drains -> Events \cup {None}]
  /\ \A d \in Drains : Active(d) => held[d] \in Events
  /\ heldGen \in [Drains -> Nat]
  /\ verdict \in [Drains -> Verdicts \cup {None}]
  /\ setbacks \in Nat

\* A write leaves the locals well typed, whether it is answered or throws.
LEMMA WriteTyped ==
  ASSUME TypeOK, NEW d \in Drains
  PROVE  /\ BackToPolling(d) /\ UNCHANGED setbacks => LocalsTyped'
         /\ WriteFails(d) => LocalsTyped'
         /\ Written(d) => LocalsTyped'
<1> USE DEF TypeOK, LocalsTyped, Active
<1>1. BackToPolling(d) /\ UNCHANGED setbacks => LocalsTyped'
  BY DEF BackToPolling
<1>2. WriteFails(d) => LocalsTyped'
  <2>1. CASE WriteFails(d) /\ InTry(d)
    BY <2>1 DEF WriteFails, Setback, Verdicts, HandlerVerdicts
  <2>2. CASE WriteFails(d) /\ ~InTry(d)
    BY <2>2 DEF WriteFails, Setback, LeaveDrain
  <2> QED
    BY <2>1, <2>2
<1> QED
  BY <1>1, <1>2 DEF Written

LEMMA NextType == TypeOK /\ [Next]_vars => TypeOK'
<1> SUFFICES ASSUME TypeOK, [Next]_vars PROVE TypeOK'
  OBVIOUS
<1> USE OutboxConstants
      DEF TypeOK, Active, rowVars, adminVars, drainVars, envVars, faultVars, LeaveDrain, Setback
<1>1. CASE UNCHANGED vars
  BY <1>1 DEF vars
<1>2. ASSUME NEW d \in Drains, BeginDrain(d) PROVE TypeOK'
  BY <1>2 DEF BeginDrain
<1>3. ASSUME NEW d \in Drains, NEW e \in Events, ClaimDueOutboxBatch(d, e) PROVE TypeOK'
  <2>1. budget[d] - 1 \in Nat
    BY <1>3 DEF ClaimDueOutboxBatch
  <2>2. OwnerOf[d] \in Workers
    OBVIOUS
  <2> QED BY <1>3, <2>1, <2>2 DEF ClaimDueOutboxBatch, NextGeneration
<1>4. ASSUME NEW d \in Drains, EndDrain(d) PROVE TypeOK'
  BY <1>4 DEF EndDrain
<1>5. ASSUME NEW d \in Drains, NEW v \in Verdicts, Handle(d, v) PROVE TypeOK'
  <2>1. held[d] \in Events
    BY <1>5 DEF Handle
  <2> QED BY <1>5, <2>1 DEF Handle, Run
<1>6. ASSUME NEW d \in Drains, MarkOutboxPublished(d) PROVE TypeOK'
  <2>1. LocalsTyped' /\ UNCHANGED unwritten
    BY <1>6, WriteTyped DEF MarkOutboxPublished, Written
  <2> QED
    BY <1>6, <2>1 DEF MarkOutboxPublished, ReleaseClaim, LocalsTyped
<1>7. ASSUME NEW d \in Drains, RecordOutboxFailure(d) PROVE TypeOK'
  <2>1. LocalsTyped' /\ UNCHANGED unwritten
    BY <1>7, WriteTyped DEF RecordOutboxFailure, Written
  <2> QED
    BY <1>7, <2>1 DEF RecordOutboxFailure, ReleaseClaim, LocalsTyped
<1>8. ASSUME NEW d \in Drains, DropStaleResult(d) PROVE TypeOK'
  <2>1. LocalsTyped' /\ UNCHANGED unwritten
    BY <1>8, WriteTyped DEF DropStaleResult, Written
  <2> QED
    BY <1>8, <2>1 DEF DropStaleResult, LocalsTyped
<1>9. ASSUME NEW e \in Events, EnqueueOutboxEvent(e) PROVE TypeOK'
  BY <1>9 DEF EnqueueOutboxEvent
<1>10. ASSUME NEW e \in Events, LeaseLapses(e) PROVE TypeOK'
  BY <1>10 DEF LeaseLapses
<1>11. ASSUME NEW e \in Events, BackoffElapses(e) PROVE TypeOK'
  BY <1>11 DEF BackoffElapses
<1>12. ASSUME NEW e \in Events, NEW c \in Codes, NEW r \in Requests,
              DispositionTerminalOutboxEvent(e, c, r)
       PROVE TypeOK'
  BY <1>12 DEF DispositionTerminalOutboxEvent
<1>13. ASSUME NEW w \in Workers, Crash(w) PROVE TypeOK'
  BY <1>13 DEF Crash
<1>14. ASSUME NEW d \in Drains, ClaimThrows(d) PROVE TypeOK'
  BY <1>14 DEF ClaimThrows
<1>15. ASSUME NEW d \in Drains, DecisionIsNotWritten(d) PROVE TypeOK'
  <2>1. LocalsTyped'
    BY <1>15, WriteTyped DEF DecisionIsNotWritten
  <2> QED
    BY <1>15, <2>1 DEF DecisionIsNotWritten, LocalsTyped
<1> QED
  BY <1>1, <1>2, <1>3, <1>4, <1>5, <1>6, <1>7, <1>8, <1>9, <1>10, <1>11, <1>12, <1>13, <1>14, <1>15
     DEF Next, DrainStep
-----------------------------------------------------------------------------
(* The inductive invariant *)

LEMMA InitInv == Init => IInv
<1> SUFFICES ASSUME Init PROVE IInv
  OBVIOUS
<1>1. TypeOK
  BY InitType
<1>2. \A d \in Drains : ~Active(d)
  BY DEF Init, Active
<1>3. \A e \in Events : ~Settled(e)
  BY DEF Init, Settled
<1> QED
  BY <1>1, <1>2, <1>3, OutboxConstants
     DEF IInv, ClaimsReal, ClaimsDistinct, VerdictsRecorded, RunsOccurred, SettledUnowned,
         DispositionClosesDead, BudgetLeft, SettledByLatestRun, DeadLetterHasCause, Init, Active, Settled

\* A run that passes the fence works on an unsettled row.
LEMMA HolderUnsettled ==
  ASSUME IInv, NEW d \in Drains, held[d] \in Events, Holds(d)
  PROVE  ~published[held[d]] /\ ~dead[held[d]]
<1>1. OwnerOf[d] \in Workers
  BY OutboxConstants
<1>2. owner[held[d]] # None
  BY <1>1, OutboxConstants DEF Holds
<1> QED
  BY <1>2 DEF IInv, SettledUnowned, Settled

\* A write that throws leaves the claims of the others alone, and its own is
\* given up or answered by the catch.
LEMMA FailedClaims ==
  ASSUME TypeOK, ClaimsReal, ClaimsDistinct, VerdictsRecorded, RunsOccurred,
         NEW d \in Drains, phase[d] = "deciding", WriteFails(d),
         UNCHANGED <<occurred, gen, ran>>
  PROVE  ClaimsReal' /\ ClaimsDistinct' /\ VerdictsRecorded' /\ RunsOccurred'
<1> USE DEF ClaimsReal, ClaimsDistinct, VerdictsRecorded, RunsOccurred, Active, TypeOK
<1>1. CASE InTry(d)
  BY <1>1 DEF WriteFails, Verdicts, HandlerVerdicts
<1>2. CASE ~InTry(d)
  BY <1>2 DEF WriteFails, LeaveDrain
<1> QED
  BY <1>1, <1>2

LEMMA WrittenClaims ==
  ASSUME TypeOK, ClaimsReal, ClaimsDistinct, VerdictsRecorded, RunsOccurred,
         NEW d \in Drains, phase[d] = "deciding", Written(d),
         UNCHANGED <<occurred, gen, ran>>
  PROVE  ClaimsReal' /\ ClaimsDistinct' /\ VerdictsRecorded' /\ RunsOccurred'
<1>1. CASE BackToPolling(d)
  BY <1>1 DEF BackToPolling, ClaimsReal, ClaimsDistinct, VerdictsRecorded, RunsOccurred, Active,
     TypeOK
<1> QED
  BY <1>1, FailedClaims DEF Written

LEMMA NextInv == IInv /\ [Next]_vars => IInv'
<1> SUFFICES ASSUME IInv, [Next]_vars PROVE IInv'
  OBVIOUS
<1>t. TypeOK /\ TypeOK'
  BY NextType DEF IInv
<1>i. /\ ClaimsReal /\ ClaimsDistinct /\ VerdictsRecorded /\ RunsOccurred
      /\ SettledUnowned /\ DispositionClosesDead /\ BudgetLeft /\ SettledByLatestRun /\ DeadLetterHasCause
  BY DEF IInv
<1> DEFINE Goal == /\ ClaimsReal /\ ClaimsDistinct /\ VerdictsRecorded /\ RunsOccurred
                   /\ SettledUnowned /\ DispositionClosesDead /\ BudgetLeft /\ SettledByLatestRun
                   /\ DeadLetterHasCause
<1> USE <1>t, <1>i, OutboxConstants
      DEF ClaimsReal, ClaimsDistinct, VerdictsRecorded, RunsOccurred, SettledUnowned,
          DispositionClosesDead, BudgetLeft, SettledByLatestRun, DeadLetterHasCause, Active, Settled,
          rowVars, adminVars, drainVars, envVars, faultVars, LeaveDrain
<1>1. ASSUME UNCHANGED vars PROVE Goal'
  BY <1>1 DEF vars, TypeOK
<1>2. ASSUME NEW d \in Drains, BeginDrain(d) PROVE Goal'
  BY <1>2 DEF BeginDrain, TypeOK
<1>3. ASSUME NEW d \in Drains, NEW e \in Events, ClaimDueOutboxBatch(d, e) PROVE Goal'
  <2> USE <1>3 DEF ClaimDueOutboxBatch, NextGeneration, Claimable, TypeOK
  <2>1. /\ gen[e] + 1 \in 1..gen'[e] /\ held'[d] = e /\ heldGen'[d] = gen'[e] /\ gen'[e] = gen[e] + 1
        /\ \A c \in Drains \ {d} : /\ held'[c] = held[c] /\ heldGen'[c] = heldGen[c]
                                  /\ phase'[c] = phase[c]
        /\ \A f \in Events \ {e} : gen'[f] = gen[f] /\ owner'[f] = owner[f]
        /\ ~Settled(e)
    OBVIOUS
  <2>2. ClaimsReal'
    BY <2>1
  <2>3. ClaimsDistinct'
    BY <2>1
  <2>4. VerdictsRecorded'
    BY <2>1
  <2>5. RunsOccurred' /\ BudgetLeft' /\ DispositionClosesDead'
    OBVIOUS
  <2>6. SettledUnowned'
    BY <2>1
  <2>7. SettledByLatestRun' /\ DeadLetterHasCause'
    BY <2>1
  <2> QED BY <2>2, <2>3, <2>4, <2>5, <2>6, <2>7
<1>4. ASSUME NEW d \in Drains, EndDrain(d) PROVE Goal'
  BY <1>4 DEF EndDrain, TypeOK
<1>5. ASSUME NEW d \in Drains, NEW v \in Verdicts, Handle(d, v) PROVE Goal'
  BY <1>5 DEF Handle, TypeOK
<1>6. ASSUME NEW d \in Drains, MarkOutboxPublished(d) PROVE Goal'
  <2>1. /\ held[d] \in Events /\ occurred[held[d]] > 0 /\ ~published[held[d]] /\ ~dead[held[d]]
        /\ [event |-> held[d], gen |-> gen[held[d]], verdict |-> "PUBLISHED"] \in ran
    BY <1>6, HolderUnsettled DEF MarkOutboxPublished, Holds, TypeOK
  <2>2. Written(d) /\ UNCHANGED <<occurred, dead, attempts, gen, adminVars, envVars>>
    BY <1>6 DEF MarkOutboxPublished
  <2>3. /\ published' = [published EXCEPT ![held[d]] = TRUE]
        /\ owner' = [owner EXCEPT ![held[d]] = None]
    BY <1>6 DEF MarkOutboxPublished, ReleaseClaim
  <2>4. ClaimsReal' /\ ClaimsDistinct' /\ VerdictsRecorded' /\ RunsOccurred'
    BY <1>6, <2>2, WrittenClaims DEF MarkOutboxPublished
  <2>5. SettledUnowned' /\ BudgetLeft' /\ DispositionClosesDead'
    BY <2>1, <2>2, <2>3 DEF TypeOK
  <2>6. SettledByLatestRun' /\ DeadLetterHasCause'
    BY <2>1, <2>2, <2>3 DEF TypeOK
  <2> QED
    BY <2>4, <2>5, <2>6
<1>7. ASSUME NEW d \in Drains, RecordOutboxFailure(d) PROVE Goal'
  <2> DEFINE e == held[d]
             v == verdict[d]
  <2>1. /\ e \in Events /\ occurred[e] > 0
        /\ ~published[e] /\ ~dead[e] /\ attempts[e] < MaxAttempts
    BY <1>7, HolderUnsettled DEF RecordOutboxFailure, TypeOK
  <2>2. attempts[e] \in Nat /\ dead[e] \in BOOLEAN
    BY <2>1 DEF TypeOK
  <2>3. /\ ran' = ran /\ gen' = gen /\ occurred' = occurred /\ published' = published
        /\ owner' = [owner EXCEPT ![e] = None]
        /\ Written(d)
    BY <1>7 DEF RecordOutboxFailure, ReleaseClaim
  <2>4. \A f \in Events \ {e} : attempts'[f] = attempts[f] /\ dead'[f] = dead[f]
    BY <1>7, <2>1 DEF RecordOutboxFailure, TypeOK
  <2>5. attempts'[e] = IF v # "RATE_LIMITED" THEN attempts[e] + 1 ELSE attempts[e]
    BY <1>7, <2>1 DEF RecordOutboxFailure, CountsTowardBudget, TypeOK
  <2>6. dead'[e] = (dead[e] \/ (CountsTowardBudget(v) /\ attempts[e] + 1 >= AttemptLimit(v)))
    BY <1>7, <2>1 DEF RecordOutboxFailure, TypeOK
  <2>7. dead'[e] <=> /\ v # "RATE_LIMITED"
                     /\ v = "TERMINAL_REVIEW" \/ attempts[e] + 1 >= MaxAttempts
    <3> HIDE DEF e, v
    <3>1. CASE v = "TERMINAL_REVIEW"
      <4>1. CountsTowardBudget(v) /\ attempts[e] + 1 >= AttemptLimit(v)
        BY ONLY <3>1, <2>2 DEF CountsTowardBudget, AttemptLimit
      <4> QED BY ONLY <3>1, <4>1, <2>6
    <3>2. CASE v # "TERMINAL_REVIEW"
      <4>1. AttemptLimit(v) = MaxAttempts
        BY ONLY <3>2 DEF AttemptLimit
      <4>2. CountsTowardBudget(v) <=> v # "RATE_LIMITED"
        BY ONLY DEF CountsTowardBudget
      <4> QED BY ONLY <3>2, <4>1, <4>2, <2>1, <2>6
    <3> QED BY ONLY <3>1, <3>2
  <2>8. v = "TERMINAL_REVIEW" => [event |-> e, gen |-> gen[e], verdict |-> v] \in ran
    BY <1>7 DEF RecordOutboxFailure, Holds
  <2> HIDE DEF e, v
  <2>9. dead'[e] => \/ attempts'[e] = MaxAttempts
                    \/ [event |-> e, gen |-> gen[e], verdict |-> "TERMINAL_REVIEW"] \in ran
    BY ONLY <2>1, <2>2, <2>5, <2>7, <2>8, OutboxConstants
  <2>10. ~dead'[e] => attempts'[e] < MaxAttempts
    BY ONLY <2>1, <2>2, <2>5, <2>7, OutboxConstants
  <2>11. ClaimsReal' /\ ClaimsDistinct' /\ VerdictsRecorded' /\ RunsOccurred'
    BY <1>7, <2>3, WrittenClaims DEF RecordOutboxFailure
  <2>12. SettledUnowned'
    BY <2>1, <2>3, <2>4 DEF TypeOK
  <2>13. BudgetLeft'
    BY <2>4, <2>10
  <2>15. DispositionClosesDead'
    BY <1>7, <2>1, <2>3, <2>4 DEF RecordOutboxFailure
  <2>14. SettledByLatestRun' /\ DeadLetterHasCause'
    BY <2>3, <2>4, <2>9
  <2> QED BY <2>11, <2>12, <2>13, <2>14, <2>15
<1>8. ASSUME NEW d \in Drains, DropStaleResult(d) PROVE Goal'
  BY <1>8, WrittenClaims DEF DropStaleResult, TypeOK
<1>9. ASSUME NEW e \in Events, EnqueueOutboxEvent(e) PROVE Goal'
  <2>1. \A f \in Events : occurred[f] > 0 => occurred'[f] > 0
    BY <1>9 DEF EnqueueOutboxEvent, TypeOK
  <2>2. \A r \in ran : r.event \in Events
    BY DEF TypeOK, Run
  <2> QED BY <1>9, <2>1, <2>2 DEF EnqueueOutboxEvent, TypeOK
<1>10. ASSUME NEW e \in Events, LeaseLapses(e) PROVE Goal'
  BY <1>10 DEF LeaseLapses, TypeOK
<1>11. ASSUME NEW e \in Events, BackoffElapses(e) PROVE Goal'
  BY <1>11 DEF BackoffElapses, TypeOK
<1>12. ASSUME NEW e \in Events, NEW c \in Codes, NEW r \in Requests,
              DispositionTerminalOutboxEvent(e, c, r)
       PROVE Goal'
  BY <1>12 DEF DispositionTerminalOutboxEvent, IsOrphan, TypeOK
<1>13. ASSUME NEW w \in Workers, Crash(w) PROVE Goal'
  BY <1>13 DEF Crash, TypeOK
<1>15. ASSUME NEW d \in Drains, ClaimThrows(d) PROVE Goal'
  BY <1>15 DEF ClaimThrows, TypeOK
<1>16. ASSUME NEW d \in Drains, DecisionIsNotWritten(d) PROVE Goal'
  <2>1. ClaimsReal' /\ ClaimsDistinct' /\ VerdictsRecorded' /\ RunsOccurred'
    BY <1>16, FailedClaims DEF DecisionIsNotWritten
  <2> QED
    BY <1>16, <2>1 DEF DecisionIsNotWritten
<1>14. Goal'
  BY <1>1, <1>2, <1>3, <1>4, <1>5, <1>6, <1>7, <1>8, <1>9, <1>10, <1>11, <1>12, <1>13, <1>15,
     <1>16 DEF Next, DrainStep
<1> QED
  BY <1>14 DEF IInv
-----------------------------------------------------------------------------
(* The catch                                                                   *)

\* Runs that may be counted are only added.
LEMMA CountableGrow ==
  ASSUME TypeOK, [Next]_vars, NEW e
  PROVE  /\ ran \subseteq ran' /\ unwritten \subseteq unwritten'
         /\ CountableRuns(e) \subseteq CountableRuns(e)'
<1>1. ran \subseteq ran' /\ unwritten \subseteq unwritten'
  BY DEF vars, rowVars, adminVars, drainVars, envVars, faultVars, Next, DrainStep, BeginDrain,
     ClaimDueOutboxBatch, EndDrain, Handle, MarkOutboxPublished, RecordOutboxFailure,
     DropStaleResult, Written, ClaimThrows, DecisionIsNotWritten, EnqueueOutboxEvent,
     LeaseLapses, BackoffElapses, DispositionTerminalOutboxEvent, Crash
<1> QED
  BY <1>1 DEF CountableRuns

\* A drain that keeps its claim and passes the fence afterwards passed it before.
LEMMA FenceNeverOpens ==
  ASSUME IInv, [Next]_vars, NEW d \in Drains, phase[d] = "deciding",
         held'[d] = held[d], heldGen'[d] = heldGen[d], Holds(d)'
  PROVE  Holds(d)
<1> DEFINE e == held[d]
<1>t. TypeOK /\ e \in Events /\ heldGen[d] \in 1..gen[e] /\ gen[e] \in Nat
  BY DEF IInv, TypeOK, ClaimsReal, Active
<1> HIDE DEF e
<1>n. OwnerOf[d] # None
  BY OutboxConstants
<1>h. ~published'[e] /\ owner'[e] = OwnerOf[d] /\ gen'[e] = heldGen[d] /\ held[d] = e
  BY DEF Holds, e
<1> SUFFICES ~published[e] /\ owner[e] = OwnerOf[d] /\ gen[e] = heldGen[d]
  BY <1>h DEF Holds
<1> USE <1>t, <1>n, <1>h DEF rowVars, adminVars, drainVars, envVars, faultVars
<1>1. ASSUME UNCHANGED <<published, owner, gen>>
      PROVE  ~published[e] /\ owner[e] = OwnerOf[d] /\ gen[e] = heldGen[d]
  BY <1>1
<1>2. ASSUME NEW c \in Drains, NEW f \in Events, ClaimDueOutboxBatch(c, f)
      PROVE  ~published[e] /\ owner[e] = OwnerOf[d] /\ gen[e] = heldGen[d]
  <2>1. /\ published' = published /\ gen' = [gen EXCEPT ![f] = gen[f] + 1]
        /\ owner' = [owner EXCEPT ![f] = OwnerOf[c]]
    BY <1>2 DEF ClaimDueOutboxBatch, NextGeneration
  <2>2. f # e
    BY <2>1 DEF TypeOK
  <2> QED
    BY <2>1, <2>2 DEF TypeOK
<1>3. ASSUME NEW c \in Drains, MarkOutboxPublished(c) \/ RecordOutboxFailure(c)
      PROVE  ~published[e] /\ owner[e] = OwnerOf[d] /\ gen[e] = heldGen[d]
  <2>1. /\ gen' = gen /\ owner' = [owner EXCEPT ![held[c]] = None]
        /\ published' = published \/ published' = [published EXCEPT ![held[c]] = TRUE]
    BY <1>3 DEF MarkOutboxPublished, RecordOutboxFailure, ReleaseClaim
  <2>2. held[c] # e
    BY <2>1 DEF TypeOK
  <2> QED
    BY <2>1, <2>2 DEF TypeOK
<1> QED
  BY <1>1, <1>2, <1>3 DEF vars, Next, DrainStep, BeginDrain, EndDrain, Handle, DropStaleResult,
     ClaimThrows, DecisionIsNotWritten, EnqueueOutboxEvent, LeaseLapses, BackoffElapses,
     DispositionTerminalOutboxEvent, Crash

LEMMA NextCatch ==
  ASSUME IInv, CatchCounts, [Next]_vars
  PROVE  CatchCounts'
<1> SUFFICES ASSUME NEW d \in Drains, phase'[d] = "deciding", verdict'[d] = "THROWN", Holds(d)'
             PROVE  \E r \in CountableRuns(held[d])' : r.gen = heldGen'[d]
  BY DEF CatchCounts
<1> DEFINE Goal == \E r \in CountableRuns(held[d])' : r.gen = heldGen'[d]
<1>t. TypeOK /\ TypeOK'
  BY NextType DEF IInv
<1> USE DEF rowVars, adminVars, drainVars, envVars, faultVars
\* A decision that was there before.
<1>1. ASSUME phase[d] = "deciding", verdict[d] = "THROWN", held'[d] = held[d], heldGen'[d] = heldGen[d]
      PROVE  Goal
  <2>1. Holds(d)
    BY <1>1, FenceNeverOpens
  <2>2. PICK r \in CountableRuns(held[d]) : r.gen = heldGen[d]
    BY <1>1, <2>1 DEF CatchCounts
  <2>3. r \in CountableRuns(held[d])'
    <3>1. r \in ran /\ r.event = held[d] /\ (r.verdict \notin {"PUBLISHED", "RATE_LIMITED"} \/ r \in unwritten)
      BY <2>2 DEF CountableRuns
    <3>2. ran \subseteq ran' /\ unwritten \subseteq unwritten'
      BY <1>t, CountableGrow
    <3> QED
      BY <1>1, <3>1, <3>2 DEF CountableRuns
  <2> QED
    BY <1>1, <2>2, <2>3
\* A step of another drain, or of none, leaves the locals of d alone.
<1>2. ASSUME NEW c \in Drains \ {d}, DrainStep(c) PROVE Goal
  <2> DEFINE Kept == /\ phase'[d] = phase[d] /\ verdict'[d] = verdict[d]
                     /\ held'[d] = held[d] /\ heldGen'[d] = heldGen[d]
  <2>1. ASSUME BackToPolling(c) \/ LeaveDrain(c) \/ WriteFails(c) PROVE Kept
    BY <1>t, <2>1 DEF BackToPolling, LeaveDrain, WriteFails, TypeOK
  <2>2. ASSUME \/ BeginDrain(c) \/ \E e \in Events : ClaimDueOutboxBatch(c, e)
               \/ \E v \in Verdicts : Handle(c, v)
        PROVE  Kept
    BY <1>t, <2>2 DEF BeginDrain, ClaimDueOutboxBatch, Handle, TypeOK
  <2>3. Kept
    BY <1>2, <2>1, <2>2 DEF DrainStep, EndDrain, MarkOutboxPublished, RecordOutboxFailure,
       DropStaleResult, ClaimThrows, DecisionIsNotWritten, Written
  <2> QED
    BY <1>1, <2>3
<1>3. ASSUME NEW w \in Workers, Crash(w) PROVE Goal
  <2>1. /\ phase'[d] = phase[d] /\ verdict'[d] = verdict[d]
        /\ held'[d] = held[d] /\ heldGen'[d] = heldGen[d]
    BY <1>t, <1>3 DEF Crash, TypeOK
  <2> QED
    BY <1>1, <2>1
<1>4. CASE UNCHANGED drainVars
  BY <1>1, <1>4
\* Its own steps: a handler that threw, and a write of its decision that did.
<1>5. ASSUME NEW v \in Verdicts, Handle(d, v) PROVE Goal
  <2> DEFINE own == [event |-> held[d], gen |-> heldGen[d], verdict |-> v]
  <2>1. v = "THROWN" /\ held'[d] = held[d] /\ heldGen'[d] = heldGen[d]
    BY <1>t, <1>5 DEF Handle, TypeOK
  <2>2. own \in ran' /\ own.event = held[d] /\ own.gen = heldGen[d] /\ own.verdict = "THROWN"
    BY <1>5, <2>1 DEF Handle
  <2> HIDE DEF own
  <2> QED
    BY <2>1, <2>2 DEF CountableRuns
<1>6. CASE MarkOutboxPublished(d) \/ RecordOutboxFailure(d) \/ DropStaleResult(d)
  <2>1. Written(d) /\ phase[d] = "deciding" /\ held[d] \in Events
    BY <1>t, <1>6 DEF MarkOutboxPublished, RecordOutboxFailure, DropStaleResult, TypeOK, Active
  <2>2. held'[d] = held[d] /\ heldGen'[d] = heldGen[d]
    BY <1>t, <2>1 DEF Written, BackToPolling, WriteFails, LeaveDrain, TypeOK
  <2>3. ~Holds(d)'
    <3>1. CASE DropStaleResult(d)
      BY <2>2, <3>1 DEF DropStaleResult, Holds
    <3>2. CASE MarkOutboxPublished(d) \/ RecordOutboxFailure(d)
      <4>1. owner'[held[d]] = None
        BY <1>t, <2>1, <3>2 DEF MarkOutboxPublished, RecordOutboxFailure, ReleaseClaim, TypeOK
      <4> QED
        BY <2>2, <4>1, OutboxConstants DEF Holds
    <3> QED
      BY <1>6, <3>1, <3>2
  <2> QED
    BY <2>3
<1>7. CASE DecisionIsNotWritten(d)
  <2>1. InTry(d) /\ held'[d] = held[d] /\ heldGen'[d] = heldGen[d] /\ verdict[d] # "THROWN"
    BY <1>t, <1>7 DEF DecisionIsNotWritten, WriteFails, LeaveDrain, InTry, TypeOK
  <2> DEFINE own == [event |-> held[d], gen |-> heldGen[d], verdict |-> verdict[d]]
  <2>2. own \in ran
    BY <1>7, <2>1 DEF DecisionIsNotWritten, IInv, VerdictsRecorded
  <2>3. own.event = held[d] /\ own.gen = heldGen[d]
    OBVIOUS
  <2> HIDE DEF own
  <2>4. own \in unwritten' /\ own \in ran'
    BY <1>7, <2>2, <2>3 DEF DecisionIsNotWritten
  <2> QED
    BY <2>1, <2>3, <2>4 DEF CountableRuns
<1>8. CASE BeginDrain(d) \/ EndDrain(d) \/ ClaimThrows(d) \/ \E e \in Events : ClaimDueOutboxBatch(d, e)
  BY <1>t, <1>8 DEF BeginDrain, EndDrain, ClaimThrows, ClaimDueOutboxBatch, LeaveDrain, TypeOK
<1>9. ASSUME NEW c \in Drains, DrainStep(c) PROVE Goal
  BY <1>2, <1>5, <1>6, <1>7, <1>8, <1>9 DEF DrainStep
<1> QED
  BY <1>3, <1>4, <1>9 DEF vars, Next, EnqueueOutboxEvent, LeaseLapses, BackoffElapses,
     DispositionTerminalOutboxEvent

-----------------------------------------------------------------------------
(* The attempts.  What is counted is bounded by the countable runs that are     *)
(* over: those of an earlier claim, or of the latest one once the row is         *)
(* released.                                                                    *)

PastRuns(e) ==
  {r \in CountableRuns(e) : r.gen < gen[e] \/ (r.gen = gen[e] /\ owner[e] = None)}

AttemptsArePast ==
  /\ IsFiniteSet(ran)
  /\ \A e \in Events : attempts[e] <= Cardinality(PastRuns(e))

LEMMA InitAttempts == Init => AttemptsArePast
<1> SUFFICES ASSUME Init PROVE AttemptsArePast
  OBVIOUS
<1>1. ran = {} /\ \A e \in Events : attempts[e] = 0 /\ PastRuns(e) = {}
  BY DEF Init, PastRuns, CountableRuns
<1> QED
  BY <1>1, FS_EmptySet DEF AttemptsArePast

\* What is over stays over.
LEMMA PastStays ==
  ASSUME TypeOK, [Next]_vars, NEW e \in Events
  PROVE  PastRuns(e) \subseteq PastRuns(e)'
<1> DEFINE Stays == \A n \in Nat :
             n < gen[e] \/ (n = gen[e] /\ owner[e] = None) =>
               n < gen'[e] \/ (n = gen'[e] /\ owner'[e] = None)
<1> USE DEF rowVars, adminVars, drainVars, envVars, faultVars
<1>t. \A r \in ran : r.gen \in Nat
  BY DEF TypeOK, Run
<1>1. ASSUME UNCHANGED <<gen, owner>> PROVE Stays
  BY <1>1
<1>2. ASSUME NEW d \in Drains, NEW f \in Events, ClaimDueOutboxBatch(d, f) PROVE Stays
  <2>1. gen' = [gen EXCEPT ![f] = gen[f] + 1] /\ owner' = [owner EXCEPT ![f] = OwnerOf[d]]
    BY <1>2 DEF ClaimDueOutboxBatch, NextGeneration
  <2>2. CASE e = f
    <3>1. gen'[e] = gen[e] + 1 /\ gen[e] \in Nat
      BY <2>1, <2>2 DEF TypeOK
    <3> QED
      BY <3>1
  <2>3. CASE e # f
    BY <2>1, <2>3 DEF TypeOK
  <2> QED
    BY <2>2, <2>3
<1>3. ASSUME NEW d \in Drains, MarkOutboxPublished(d) \/ RecordOutboxFailure(d) PROVE Stays
  <2>1. gen' = gen /\ owner' = [owner EXCEPT ![held[d]] = None]
    BY <1>3 DEF MarkOutboxPublished, RecordOutboxFailure, ReleaseClaim
  <2>2. owner'[e] = None \/ owner'[e] = owner[e]
    BY <2>1 DEF TypeOK
  <2> QED
    BY <2>1, <2>2
<1>4. Stays
  <2> HIDE DEF Stays
  <2> QED
    BY <1>1, <1>2, <1>3 DEF vars, Next, DrainStep, BeginDrain, EndDrain, Handle, DropStaleResult,
       ClaimThrows, DecisionIsNotWritten, EnqueueOutboxEvent, LeaseLapses, BackoffElapses,
       DispositionTerminalOutboxEvent, Crash
<1>5. CountableRuns(e) \subseteq CountableRuns(e)' /\ CountableRuns(e) \subseteq ran
  BY CountableGrow DEF CountableRuns
<1> QED
  BY <1>t, <1>4, <1>5 DEF PastRuns

LEMMA FiniteRuns ==
  ASSUME IsFiniteSet(ran), [Next]_vars
  PROVE  IsFiniteSet(ran')
<1> USE DEF rowVars, adminVars, drainVars, envVars, faultVars
<1>1. ASSUME NEW d \in Drains, NEW v \in Verdicts, Handle(d, v) PROVE IsFiniteSet(ran')
  <2>1. ran' = ran \cup {[event |-> held[d], gen |-> heldGen[d], verdict |-> v]}
    BY <1>1 DEF Handle
  <2> QED
    BY <2>1, FS_AddElement
<1>2. CASE ran' = ran
  BY <1>2
<1> QED
  BY <1>1, <1>2 DEF vars, Next, DrainStep, BeginDrain, ClaimDueOutboxBatch, EndDrain,
     MarkOutboxPublished, RecordOutboxFailure, DropStaleResult, ClaimThrows, DecisionIsNotWritten,
     EnqueueOutboxEvent, LeaseLapses, BackoffElapses, DispositionTerminalOutboxEvent, Crash

LEMMA NextAttempts ==
  ASSUME IInv, CatchCounts, AttemptsArePast, [Next]_vars
  PROVE  AttemptsArePast'
<1>t. TypeOK /\ TypeOK'
  BY NextType DEF IInv
<1>1. IsFiniteSet(ran')
  BY FiniteRuns DEF AttemptsArePast
<1>2. ASSUME NEW e \in Events
      PROVE  /\ IsFiniteSet(PastRuns(e)) /\ IsFiniteSet(PastRuns(e)')
             /\ Cardinality(PastRuns(e)) \in Nat /\ Cardinality(PastRuns(e)') \in Nat
             /\ Cardinality(PastRuns(e)) <= Cardinality(PastRuns(e)')
  <2>1. PastRuns(e) \subseteq ran /\ PastRuns(e)' \subseteq ran'
    BY DEF PastRuns, CountableRuns
  <2>2. IsFiniteSet(PastRuns(e)) /\ IsFiniteSet(PastRuns(e)')
    BY <1>1, <2>1, FS_Subset DEF AttemptsArePast
  <2>3. PastRuns(e) \subseteq PastRuns(e)'
    BY <1>t, PastStays
  <2>4. Cardinality(PastRuns(e)) <= Cardinality(PastRuns(e)')
    BY <2>2, <2>3, FS_Subset
  <2> QED
    BY <2>2, <2>4, FS_CardinalityType
<1>3. ASSUME NEW e \in Events, attempts'[e] = attempts[e]
      PROVE  attempts'[e] <= Cardinality(PastRuns(e)')
  <2>1. attempts[e] <= Cardinality(PastRuns(e)) /\ attempts[e] \in Nat
    BY <1>t DEF AttemptsArePast, TypeOK
  <2> QED
    BY <1>2, <1>3, <2>1
<1>4. ASSUME NEW d \in Drains, RecordOutboxFailure(d), NEW e \in Events
      PROVE  attempts'[e] <= Cardinality(PastRuns(e)')
  <2>1. /\ phase[d] = "deciding" /\ Holds(d) /\ verdict[d] # "PUBLISHED" /\ held[d] \in Events
        /\ attempts' = [attempts EXCEPT ![held[d]] = IF CountsTowardBudget(verdict[d]) THEN @ + 1 ELSE @]
        /\ owner' = [owner EXCEPT ![held[d]] = None] /\ ran' = ran /\ gen' = gen
    <3>1. phase[d] = "deciding" /\ Holds(d) /\ verdict[d] # "PUBLISHED" /\ ran' = ran /\ gen' = gen
      BY <1>4 DEF RecordOutboxFailure, envVars
    <3>2. attempts' = [attempts EXCEPT ![held[d]] = IF CountsTowardBudget(verdict[d]) THEN @ + 1 ELSE @]
      BY <1>4 DEF RecordOutboxFailure
    <3>3. owner' = [owner EXCEPT ![held[d]] = None]
      BY <1>4 DEF RecordOutboxFailure, ReleaseClaim
    <3>4. held[d] \in Events
      BY <1>t, <3>1 DEF TypeOK, Active
    <3> QED
      BY <3>1, <3>2, <3>3, <3>4
  <2>2. CASE e # held[d] \/ verdict[d] = "RATE_LIMITED"
    <3>1. attempts'[e] = attempts[e]
      BY <1>t, <2>1, <2>2 DEF CountsTowardBudget, TypeOK
    <3> QED
      BY <1>3, <3>1
  <2>3. CASE e = held[d] /\ verdict[d] # "RATE_LIMITED"
    <3>1. attempts'[e] = attempts[e] + 1
      BY <1>t, <2>1, <2>3 DEF CountsTowardBudget, TypeOK
    <3>2. \E r \in CountableRuns(e) : r.gen = gen[e]
      <4>1. CASE verdict[d] = "THROWN"
        BY <2>1, <2>3, <4>1 DEF CatchCounts, Holds
      <4>2. CASE verdict[d] # "THROWN"
        <5> DEFINE own == [event |-> e, gen |-> gen[e], verdict |-> verdict[d]]
        <5>1. own \in ran
          BY <2>1, <2>3, <4>2 DEF IInv, VerdictsRecorded, Holds
        <5>2. own.event = e /\ own.gen = gen[e] /\ own.verdict = verdict[d]
          OBVIOUS
        <5> HIDE DEF own
        <5> QED
          BY <2>1, <2>3, <5>1, <5>2 DEF CountableRuns
      <4> QED
        BY <4>1, <4>2
    <3>3. PICK rec \in CountableRuns(e) : rec.gen = gen[e]
      BY <3>2
    <3>4. owner'[e] = None /\ owner[e] # None
      <4>1. owner[e] = OwnerOf[d] /\ OwnerOf[d] \in Workers
        BY <2>1, <2>3, OutboxConstants DEF Holds
      <4>2. owner'[e] = None
        BY <1>t, <2>1, <2>3 DEF TypeOK
      <4> QED
        BY <4>1, <4>2, OutboxConstants
    <3>5. rec \in PastRuns(e)' /\ rec \notin PastRuns(e)
      <4>1. rec \in CountableRuns(e)' /\ gen[e] \in Nat
        BY <1>t, <3>3, CountableGrow DEF TypeOK
      <4>2. rec \in PastRuns(e)'
        BY <2>1, <3>3, <3>4, <4>1 DEF PastRuns
      <4>3. rec \notin PastRuns(e)
        BY <3>3, <3>4, <4>1 DEF PastRuns
      <4> QED
        BY <4>2, <4>3
    <3>6. PastRuns(e) \cup {rec} \subseteq PastRuns(e)'
      BY <1>t, <3>5, PastStays
    <3>7. Cardinality(PastRuns(e) \cup {rec}) = Cardinality(PastRuns(e)) + 1
      BY <1>2, <3>5, FS_AddElement
    <3>8. Cardinality(PastRuns(e) \cup {rec}) <= Cardinality(PastRuns(e)')
      BY <1>2, <3>6, FS_Subset
    <3>9. attempts[e] <= Cardinality(PastRuns(e)) /\ attempts[e] \in Nat
      BY <1>t DEF AttemptsArePast, TypeOK
    <3> QED
      BY <1>2, <3>1, <3>7, <3>8, <3>9
  <2> QED
    BY <2>2, <2>3
<1>5. CASE attempts' = attempts
  BY <1>1, <1>3, <1>5 DEF AttemptsArePast
<1>6. CASE \E d \in Drains : RecordOutboxFailure(d)
  BY <1>1, <1>4, <1>6 DEF AttemptsArePast
<1> QED
  BY <1>5, <1>6 DEF vars, rowVars, Next, DrainStep, BeginDrain, ClaimDueOutboxBatch, EndDrain, Handle,
     MarkOutboxPublished, DropStaleResult, ClaimThrows, DecisionIsNotWritten, EnqueueOutboxEvent,
     LeaseLapses, BackoffElapses, DispositionTerminalOutboxEvent, Crash

-----------------------------------------------------------------------------
(* Results *)

\* Every column and every local of a drain keeps its type, and a drain at work
\* holds an event.
THEOREM TypeCorrect == Spec => []TypeOK
<1>1. Init => TypeOK
  BY InitType
<1>2. TypeOK /\ [Next]_vars => TypeOK'
  BY NextType
<1> QED BY <1>1, <1>2, PTL DEF Spec

\* The strengthening that all results below rest on.
THEOREM Inductive == Spec => []IInv
<1>1. Init => IInv
  BY InitInv
<1>2. IInv /\ [Next]_vars => IInv'
  BY NextInv
<1> QED BY <1>1, <1>2, PTL DEF Spec

\* A published row was acked by the run that made its latest claim.
THEOREM FencedAck == Spec => []SettledByLatestRun
<1>1. IInv => SettledByLatestRun
  BY DEF IInv
<1> QED BY <1>1, Inductive, PTL

\* Two runs, also of one process, never both pass the fence for one row.
THEOREM ExclusiveHolder == Spec => []AtMostOneHolder
<1>1. IInv => AtMostOneHolder
  BY DEF IInv, ClaimsDistinct, AtMostOneHolder, Holds
<1> QED BY <1>1, Inductive, PTL

\* A dead letter was caused by a spent budget or by a verdict asking for review.
THEOREM CausedDeadLetter == Spec => []DeadLetterHasCause
<1>1. IInv => DeadLetterHasCause
  BY DEF IInv
<1> QED BY <1>1, Inductive, PTL

\* No step changes the delivery columns of a published or dead row.
THEOREM ImmutableEvidence == Spec => SettledRowsNeverChange
<1>1. IInv /\ [Next]_vars => [KeepsSettledRows]_vars
  <2> SUFFICES ASSUME IInv, Next PROVE KeepsSettledRows
    BY Zenon
  <2> USE DEF KeepsSettledRows, Settled, rowVars, adminVars, drainVars, envVars
  <2>t. TypeOK
    BY DEF IInv
  <2>1. ASSUME NEW d \in Drains, DrainStep(d) PROVE KeepsSettledRows
    <3>1. ASSUME NEW e \in Events, ClaimDueOutboxBatch(d, e) PROVE KeepsSettledRows
      BY <3>1, <2>t DEF ClaimDueOutboxBatch, NextGeneration, Claimable, TypeOK
    <3>2. CASE MarkOutboxPublished(d)
      BY <3>2, <2>t, HolderUnsettled, ZenonT(60) DEF MarkOutboxPublished, ReleaseClaim, TypeOK, Active
    <3>3. CASE RecordOutboxFailure(d)
      <4>1. held[d] \in Events /\ ~Settled(held[d])
        BY <3>3, <2>t, HolderUnsettled DEF RecordOutboxFailure, TypeOK, Active
      <4> QED BY <3>3, <4>1, <2>t DEF RecordOutboxFailure, ReleaseClaim, TypeOK
    <3>4. CASE \/ BeginDrain(d) \/ EndDrain(d) \/ DropStaleResult(d)
               \/ ClaimThrows(d) \/ DecisionIsNotWritten(d)
               \/ \E v \in Verdicts : Handle(d, v)
      BY <3>4 DEF BeginDrain, EndDrain, DropStaleResult, Handle, ClaimThrows, DecisionIsNotWritten
    <3> QED BY <2>1, <3>1, <3>2, <3>3, <3>4 DEF DrainStep
  <2>2. ASSUME NEW e \in Events,
               EnqueueOutboxEvent(e) \/ LeaseLapses(e) \/ BackoffElapses(e)
        PROVE KeepsSettledRows
    BY <2>2 DEF EnqueueOutboxEvent, LeaseLapses, BackoffElapses
  <2>3. ASSUME NEW e \in Events, NEW c \in Codes, NEW r \in Requests,
               DispositionTerminalOutboxEvent(e, c, r)
        PROVE KeepsSettledRows
    BY <2>3 DEF DispositionTerminalOutboxEvent
  <2>4. ASSUME NEW w \in Workers, Crash(w) PROVE KeepsSettledRows
    BY <2>4 DEF Crash
  <2> QED BY <2>1, <2>2, <2>3, <2>4 DEF Next
<1> QED BY <1>1, Inductive, PTL DEF Spec, SettledRowsNeverChange

\* Each counted attempt is a run of its own that failed, or whose decision could
\* not be written: no run is counted twice, and a stale result never is.
THEOREM CountedAttempts == Spec => []AttemptsAreRunsOfTheirOwn
<1>1. AttemptsArePast /\ TypeOK => AttemptsAreRunsOfTheirOwn
  <2> SUFFICES ASSUME AttemptsArePast, TypeOK, NEW e \in Events
               PROVE  attempts[e] <= Cardinality(CountableRuns(e))
    BY DEF AttemptsAreRunsOfTheirOwn
  <2>1. CountableRuns(e) \subseteq ran /\ PastRuns(e) \subseteq CountableRuns(e) /\ IsFiniteSet(ran)
    BY DEF CountableRuns, PastRuns, AttemptsArePast
  <2>2. IsFiniteSet(CountableRuns(e)) /\ IsFiniteSet(PastRuns(e))
    BY <2>1, FS_Subset
  <2>3. Cardinality(PastRuns(e)) <= Cardinality(CountableRuns(e))
    BY <2>1, <2>2, FS_Subset
  <2>4. Cardinality(PastRuns(e)) \in Nat /\ Cardinality(CountableRuns(e)) \in Nat
    BY <2>2, FS_CardinalityType
  <2>5. attempts[e] <= Cardinality(PastRuns(e)) /\ attempts[e] \in Nat
    BY DEF AttemptsArePast, TypeOK
  <2> QED
    BY <2>3, <2>4, <2>5
<1>2. IInv => TypeOK
  BY DEF IInv
<1>3. Init => CatchCounts
  BY DEF Init, CatchCounts
<1> QED
  BY <1>1, <1>2, <1>3, InitAttempts, NextCatch, NextAttempts, Inductive, PTL DEF Spec

-----------------------------------------------------------------------------
(* Refinement of the contract *)

StatusMap == [e \in Events |-> StatusOf(e)]
SucceededSet == {e \in Events : \E r \in ran : r.event = e /\ r.verdict = "PUBLISHED"}

\* A step that leaves an event's row alone leaves its status alone.
LEMMA SameRows ==
  ASSUME UNCHANGED <<occurred, published, dead, disposition>>
  PROVE  UNCHANGED StatusMap
  BY DEF StatusMap, StatusOf

LEMMA SameRuns == UNCHANGED ran => UNCHANGED SucceededSet
  BY DEF SucceededSet

\* If only event e changes status, from a to b, and no run is added, the step
\* is a Move of the contract.
LEMMA StatusMoves ==
  ASSUME NEW e \in Events, NEW a, NEW b,
         StatusOf(e) = a, StatusOf(e)' = b,
         \A f \in Events \ {e} : StatusOf(f)' = StatusOf(f),
         UNCHANGED ran
  PROVE  Contract!Move(e, a, b)
<1>1. StatusMap[e] = a
  BY DEF StatusMap
<1>2. StatusMap' = [StatusMap EXCEPT ![e] = b]
  BY DEF StatusMap
<1>3. UNCHANGED SucceededSet
  BY SameRuns
<1> QED BY <1>1, <1>2, <1>3 DEF Contract!Move, StatusMap, SucceededSet

\* The outbox implements what it promises: an event is published only after a
\* run succeeded on it, parked otherwise, and closed only by an operator.
THEOREM Refinement == Spec => ImplementsContract
<1> USE DEF Contract!ContractNext, Contract!contractVars
<1>1. Init => Contract!ContractInit
  BY DEF Init, Contract!ContractInit, StatusOf
<1>2. IInv /\ [Next]_vars => [Contract!ContractNext]_(Contract!contractVars)
  <2> SUFFICES ASSUME IInv, [Next]_vars
               PROVE  \/ UNCHANGED StatusMap /\ UNCHANGED SucceededSet
                      \/ Contract!ContractNext
    BY DEF StatusMap, SucceededSet
  <2>t. TypeOK /\ ClaimsReal /\ SettledUnowned /\ VerdictsRecorded /\ RunsOccurred
        /\ DispositionClosesDead
    BY DEF IInv
  <2> USE DEF rowVars, adminVars, drainVars, envVars
  <2>1. CASE UNCHANGED vars
    BY <2>1, SameRows, SameRuns DEF vars
  <2>2. ASSUME NEW d \in Drains,
               \/ BeginDrain(d) \/ EndDrain(d) \/ DropStaleResult(d)
               \/ ClaimThrows(d) \/ DecisionIsNotWritten(d)
        PROVE  UNCHANGED StatusMap /\ UNCHANGED SucceededSet
    BY <2>2, SameRows, SameRuns
       DEF BeginDrain, EndDrain, DropStaleResult, ClaimThrows, DecisionIsNotWritten
  <2>3. ASSUME NEW d \in Drains, NEW e \in Events, ClaimDueOutboxBatch(d, e)
        PROVE  UNCHANGED StatusMap /\ UNCHANGED SucceededSet
    BY <2>3, SameRows, SameRuns DEF ClaimDueOutboxBatch
  <2>4. ASSUME NEW d \in Drains, NEW v \in Verdicts, Handle(d, v)
        PROVE  \/ UNCHANGED StatusMap /\ UNCHANGED SucceededSet
               \/ Contract!ContractNext
    <3>1. UNCHANGED StatusMap
      BY <2>4, SameRows DEF Handle
    <3>2. held[d] \in Events /\ occurred[held[d]] > 0
      BY <2>4, <2>t DEF Handle, Active, TypeOK, ClaimsReal
    <3> PICK e \in Events : e = held[d]
      BY <3>2
    <3>3. CASE v = "PUBLISHED"
      <4> DEFINE rec == [event |-> e, gen |-> heldGen[d], verdict |-> v]
      <4>0. ran' = ran \cup {rec} /\ rec.event = e /\ rec.verdict = v
        BY <2>4 DEF Handle
      <4> HIDE DEF rec
      <4>1. SucceededSet' = SucceededSet \cup {e}
        BY <4>0, <3>2, <3>3 DEF SucceededSet
      <4>2. StatusMap[e] # "absent"
        BY <3>2 DEF StatusMap, StatusOf
      <4>3. Contract!Succeed(e)
        BY <3>1, <4>1, <4>2 DEF Contract!Succeed, StatusMap, SucceededSet
      <4> QED BY <4>3
    <3>4. CASE v # "PUBLISHED"
      <4> DEFINE rec == [event |-> held[d], gen |-> heldGen[d], verdict |-> v]
      <4>1. ran' = ran \cup {rec} /\ rec.verdict = v
        BY <2>4 DEF Handle
      <4> HIDE DEF rec
      <4>2. SucceededSet' = SucceededSet
        BY <3>4, <4>1 DEF SucceededSet
      <4> QED BY <3>1, <4>2
    <3> QED BY <3>3, <3>4
  <2>5. ASSUME NEW d \in Drains, MarkOutboxPublished(d)
        PROVE  Contract!ContractNext
    <3>0. held[d] \in Events
      BY <2>5, <2>t DEF MarkOutboxPublished, Active, TypeOK
    <3> PICK e \in Events : e = held[d]
      BY <3>0
    <3>1. e \in Events /\ occurred[e] > 0 /\ ~published[e] /\ ~dead[e]
      BY <2>5, <2>t, HolderUnsettled DEF MarkOutboxPublished, Active, TypeOK, ClaimsReal
    <3>2. /\ published' = [published EXCEPT ![e] = TRUE]
          /\ UNCHANGED <<occurred, dead, disposition, ran>>
      BY <2>5 DEF MarkOutboxPublished
    <3>3. StatusOf(e) = "pending" /\ StatusOf(e)' = "published"
      BY <3>1, <3>2, <2>t DEF StatusOf, TypeOK
    <3>4. \A f \in Events \ {e} : StatusOf(f)' = StatusOf(f)
      BY <3>2, <2>t DEF StatusOf, TypeOK
    <3>5. Contract!Move(e, "pending", "published")
      BY <3>1, <3>2, <3>3, <3>4, StatusMoves
    <3>6. e \in SucceededSet
      BY <2>5, <3>1, <2>t DEF MarkOutboxPublished, VerdictsRecorded, SucceededSet
    <3> QED BY <3>1, <3>5, <3>6 DEF Contract!Publish, SucceededSet
  <2>6. ASSUME NEW d \in Drains, RecordOutboxFailure(d)
        PROVE  \/ UNCHANGED StatusMap /\ UNCHANGED SucceededSet
               \/ Contract!ContractNext
    <3>0. held[d] \in Events
      BY <2>6, <2>t DEF RecordOutboxFailure, Active, TypeOK
    <3> PICK e \in Events : e = held[d]
      BY <3>0
    <3>1. e \in Events /\ occurred[e] > 0 /\ ~published[e] /\ ~dead[e]
      BY <2>6, <2>t, HolderUnsettled DEF RecordOutboxFailure, Active, TypeOK, ClaimsReal
    <3>2. UNCHANGED <<occurred, published, disposition, ran>>
      BY <2>6 DEF RecordOutboxFailure
    <3>3. \A f \in Events \ {e} : dead'[f] = dead[f]
      BY <2>6, <3>1, <2>t DEF RecordOutboxFailure, TypeOK
    <3>4. \A f \in Events \ {e} : StatusOf(f)' = StatusOf(f)
      BY <3>2, <3>3 DEF StatusOf
    <3>5. StatusOf(e) = "pending"
      BY <3>1 DEF StatusOf
    <3>6. disposition[e] = None
      BY <3>1, <2>t DEF DispositionClosesDead
    <3>7. CASE dead'[e]
      <4>1. StatusOf(e)' = "parked"
        BY <3>1, <3>2, <3>6, <3>7 DEF StatusOf
      <4>2. Contract!Move(e, "pending", "parked")
        BY <3>1, <3>2, <3>4, <3>5, <4>1, StatusMoves
      <4> QED BY <3>1, <4>2 DEF Contract!Park
    <3>8. CASE ~dead'[e]
      <4>1. StatusOf(e)' = "pending"
        BY <3>1, <3>2, <3>8 DEF StatusOf
      <4> QED BY <3>2, <3>4, <3>5, <4>1, SameRuns DEF StatusMap
    <3> QED BY <3>7, <3>8
  <2>7. ASSUME NEW e \in Events, EnqueueOutboxEvent(e)
        PROVE  Contract!ContractNext
    <3>1. ~Settled(e)
      BY <2>7, <2>t DEF EnqueueOutboxEvent, SettledUnowned, Settled
    <3>2. /\ occurred[e] = 0 /\ occurred'[e] > 0
          /\ \A f \in Events \ {e} : occurred'[f] = occurred[f]
          /\ UNCHANGED <<published, dead, disposition, ran>>
      BY <2>7, <2>t DEF EnqueueOutboxEvent, TypeOK
    <3>3. StatusOf(e) = "absent" /\ StatusOf(e)' = "pending"
      BY <3>1, <3>2 DEF StatusOf, Settled
    <3>4. \A f \in Events \ {e} : StatusOf(f)' = StatusOf(f)
      BY <3>2 DEF StatusOf
    <3>5. Contract!Move(e, "absent", "pending")
      BY <3>2, <3>3, <3>4, StatusMoves
    <3> QED BY <3>5 DEF Contract!Emit
  <2>8. ASSUME NEW e \in Events, LeaseLapses(e) \/ BackoffElapses(e)
        PROVE  UNCHANGED StatusMap /\ UNCHANGED SucceededSet
    BY <2>8, SameRows, SameRuns DEF LeaseLapses, BackoffElapses
  <2>9. ASSUME NEW e \in Events, NEW c \in Codes, NEW r \in Requests,
               DispositionTerminalOutboxEvent(e, c, r)
        PROVE  Contract!ContractNext
    <3>1. /\ dead[e] /\ ~published[e] /\ disposition[e] = None
          /\ disposition' = [disposition EXCEPT ![e] = c]
          /\ UNCHANGED <<occurred, published, dead, ran>>
      BY <2>9 DEF DispositionTerminalOutboxEvent, IsOrphan
    <3>2. occurred[e] > 0 /\ occurred[e] \in Nat
      BY <3>1, <2>t DEF SettledUnowned, Settled, TypeOK
    <3>3. disposition'[e] # None
      BY <3>1, <2>t, OutboxConstants DEF TypeOK
    <3>4. StatusOf(e) = "parked" /\ StatusOf(e)' = "closed"
      BY <3>1, <3>2, <3>3 DEF StatusOf
    <3>5. \A f \in Events \ {e} : StatusOf(f)' = StatusOf(f)
      BY <3>1, <2>t DEF StatusOf, TypeOK
    <3>6. Contract!Move(e, "parked", "closed")
      BY <3>1, <3>4, <3>5, StatusMoves
    <3> QED BY <3>6 DEF Contract!Close
  <2>10. ASSUME NEW w \in Workers, Crash(w)
         PROVE  UNCHANGED StatusMap /\ UNCHANGED SucceededSet
    BY <2>10, SameRows, SameRuns DEF Crash
  <2> QED
    BY <2>1, <2>2, <2>3, <2>4, <2>5, <2>6, <2>7, <2>8, <2>9, <2>10 DEF Next, DrainStep
<1> QED
  BY <1>1, <1>2, Inductive, PTL DEF Spec, ImplementsContract, Contract!ContractSpec
=============================================================================
