------------------------------- MODULE Outbox -------------------------------
(***************************************************************************)
(* The transactional outbox: rows of outbox_event, the drain cycle of the  *)
(* worker (claim, dispatch, ack or fail), the owner + generation fence on  *)
(* the row, and the operator's disposition of dead letters.                *)
(*                                                                         *)
(* A drain is one execution of drainOutboxOnce.  A worker process has one  *)
(* owner id but runs several drains at a time: the scheduler's tick and    *)
(* the NOTIFY callback both start one, and only the first is guarded       *)
(* against overlap (worker.ts).  Each statement is one atomic step, and    *)
(* everything else (a slow handler, a lapsed lease, a crash) interleaves.  *)
(* A statement may also throw, with or without its effect: inside the try  *)
(* that is answered by one more write, outside it the drain ends.          *)
(*                                                                         *)
(* Time is abstract: a lease is live until it lapses and a backoff runs    *)
(* until it elapses, each by a step of its own.                            *)
(***************************************************************************)
EXTENDS Naturals, FiniteSets

CONSTANTS
  Events,        \* outbox rows the producers may insert
  UnknownTypes,  \* those whose event_type this worker build does not know
  Workers,       \* worker processes (each start draws a fresh owner id)
  Drains,        \* slots for executions of drainOutboxOnce
  OwnerOf,       \* OwnerOf[d]: the process that runs drain d
  Requests,      \* disposition request ids
  Codes,         \* disposition codes
  MaxAttempts,   \* OUTBOX_MAX_ATTEMPTS
  BatchSize,     \* events one drain may claim
  MaxSetbacks    \* bound: leases that lapse under a running handler,
                 \*   RATE_LIMITED verdicts and statements that throw, together

None == "none"

ASSUME OutboxConstants ==
  /\ UnknownTypes \subseteq Events
  /\ OwnerOf \in [Drains -> Workers]
  /\ None \notin Workers \cup Requests \cup Codes \cup Events
  /\ MaxAttempts \in Nat \ {0}
  /\ BatchSize \in Nat \ {0}
  /\ MaxSetbacks \in Nat

VARIABLES
  (* columns of outbox_event, by event *)
  occurred,     \* position in occurred_at order, 0 before the insert
  published,    \* published_at is set
  dead,         \* dead_lettered_at is set
  attempts,     \* attempt_count
  gen,          \* claim_generation
  owner,        \* claimed_by
  lease,        \* claim_expires_at: "none", "live" or "lapsed"
  deferred,     \* next_attempt_at lies in the future
  disposition,  \* disposition_code
  request,      \* disposition_request_id
  (* local state of a drain *)
  phase,        \* "idle", "polling", "handling" or "deciding"
  cutoff,       \* occurrences the drain may see
  budget,       \* claims left
  held,         \* event in hand
  heldGen,      \* generation it was claimed at
  verdict,      \* decision of the handler
  (* environment *)
  alive,        \* processes that have not crashed
  clock,        \* number of events emitted
  ran,          \* history: every handler run, with its generation and verdict
  setbacks,     \* lapses under a running handler, backpressure, throws so far
  unwritten     \* history: the runs a write of whose decision threw without effect

rowVars   == <<occurred, published, dead, attempts, gen, owner, lease, deferred>>
adminVars == <<disposition, request>>
drainVars == <<phase, cutoff, budget, held, heldGen, verdict>>
envVars   == <<alive, clock, ran>>
faultVars == <<setbacks, unwritten>>
vars      == <<rowVars, adminVars, drainVars, envVars, faultVars>>

HandlerVerdicts == {"PUBLISHED", "RETRY", "RATE_LIMITED", "TERMINAL_REVIEW", "THROWN"}
Verdicts == HandlerVerdicts \cup {"UNKNOWN_EVENT"}
Run == [event : Events, gen : Nat, verdict : Verdicts]

\* The drain runs the handler or holds its decision.
Active(d) == phase[d] \in {"handling", "deciding"}

TypeOK ==
  /\ occurred \in [Events -> Nat]
  /\ published \in [Events -> BOOLEAN]
  /\ dead \in [Events -> BOOLEAN]
  /\ attempts \in [Events -> Nat]
  /\ gen \in [Events -> Nat]
  /\ owner \in [Events -> Workers \cup {None}]
  /\ lease \in [Events -> {"none", "live", "lapsed"}]
  /\ deferred \in [Events -> BOOLEAN]
  /\ disposition \in [Events -> Codes \cup {None}]
  /\ request \in [Events -> Requests \cup {None}]
  /\ phase \in [Drains -> {"idle", "polling", "handling", "deciding"}]
  /\ cutoff \in [Drains -> Nat]
  /\ budget \in [Drains -> Nat]
  /\ held \in [Drains -> Events \cup {None}]
  /\ \A d \in Drains : Active(d) => held[d] \in Events
  /\ heldGen \in [Drains -> Nat]
  /\ verdict \in [Drains -> Verdicts \cup {None}]
  /\ alive \subseteq Workers
  /\ clock \in Nat
  /\ ran \subseteq Run
  /\ setbacks \in Nat
  /\ unwritten \subseteq ran

Init ==
  /\ occurred = [e \in Events |-> 0]
  /\ published = [e \in Events |-> FALSE]
  /\ dead = [e \in Events |-> FALSE]
  /\ attempts = [e \in Events |-> 0]
  /\ gen = [e \in Events |-> 0]
  /\ owner = [e \in Events |-> None]
  /\ lease = [e \in Events |-> "none"]
  /\ deferred = [e \in Events |-> FALSE]
  /\ disposition = [e \in Events |-> None]
  /\ request = [e \in Events |-> None]
  /\ phase = [d \in Drains |-> "idle"]
  /\ cutoff = [d \in Drains |-> 0]
  /\ budget = [d \in Drains |-> 0]
  /\ held = [d \in Drains |-> None]
  /\ heldGen = [d \in Drains |-> 0]
  /\ verdict = [d \in Drains |-> None]
  /\ alive = Workers
  /\ clock = 0
  /\ ran = {}
  /\ setbacks = 0
  /\ unwritten = {}

-----------------------------------------------------------------------------
(* Producers and the drain cycle *)

\* A domain transaction inserts the event; the unique index admits it once.
EnqueueOutboxEvent(e) ==
  /\ occurred[e] = 0
  /\ clock' = clock + 1
  /\ occurred' = [occurred EXCEPT ![e] = clock + 1]
  /\ UNCHANGED <<published, dead, attempts, gen, owner, lease, deferred,
                 adminVars, drainVars, alive, ran, faultVars>>

\* The scheduler's tick or the wake callback starts a drain, which reads the
\* cutoff: events emitted later are left to a later drain.
BeginDrain(d) ==
  /\ OwnerOf[d] \in alive
  /\ phase[d] = "idle"
  /\ phase' = [phase EXCEPT ![d] = "polling"]
  /\ cutoff' = [cutoff EXCEPT ![d] = clock]
  /\ budget' = [budget EXCEPT ![d] = BatchSize]
  /\ UNCHANGED <<rowVars, adminVars, held, heldGen, verdict, envVars, faultVars>>

\* Mutated forms: a dead letter is picked up again; a lapsed lease never is.
ClaimableThoughDead(e, before) ==
  occurred[e] \in 1..before /\ ~published[e] /\ ~deferred[e] /\ lease[e] # "live"
ClaimableIfNeverClaimed(e, before) ==
  occurred[e] \in 1..before /\ ~published[e] /\ ~dead[e] /\ ~deferred[e] /\ lease[e] = "none"

Claimable(e, before) ==
  /\ occurred[e] \in 1..before
  /\ ~published[e]
  /\ ~dead[e]
  /\ ~deferred[e]
  /\ lease[e] # "live"

\* Mutated form: the claim leaves claim_generation as it was.
SameGeneration(e) == gen[e]

NextGeneration(e) == gen[e] + 1

\* UPDATE ... FROM (SELECT ... ORDER BY occurred_at LIMIT 1 FOR UPDATE SKIP LOCKED).
ClaimDueOutboxBatch(d, e) ==
  /\ phase[d] = "polling"
  /\ budget[d] > 0
  /\ Claimable(e, cutoff[d])
  /\ \A f \in Events : Claimable(f, cutoff[d]) => occurred[e] <= occurred[f]
  /\ owner' = [owner EXCEPT ![e] = OwnerOf[d]]
  /\ lease' = [lease EXCEPT ![e] = "live"]
  /\ gen' = [gen EXCEPT ![e] = NextGeneration(e)]
  /\ phase' = [phase EXCEPT ![d] = "handling"]
  /\ budget' = [budget EXCEPT ![d] = budget[d] - 1]
  /\ held' = [held EXCEPT ![d] = e]
  /\ heldGen' = [heldGen EXCEPT ![d] = NextGeneration(e)]
  /\ UNCHANGED <<occurred, published, dead, attempts, deferred, adminVars,
                 cutoff, verdict, envVars, faultVars>>

\* drainOutboxOnce returns or throws; a row in hand keeps its claim.
LeaveDrain(d) ==
  /\ phase' = [phase EXCEPT ![d] = "idle"]
  /\ cutoff' = [cutoff EXCEPT ![d] = 0]
  /\ budget' = [budget EXCEPT ![d] = 0]
  /\ held' = [held EXCEPT ![d] = None]
  /\ heldGen' = [heldGen EXCEPT ![d] = 0]
  /\ verdict' = [verdict EXCEPT ![d] = None]

EndDrain(d) ==
  /\ phase[d] = "polling"
  /\ budget[d] = 0 \/ \A e \in Events : ~Claimable(e, cutoff[d])
  /\ LeaveDrain(d)
  /\ UNCHANGED <<rowVars, adminVars, envVars, faultVars>>

Setback == setbacks < MaxSetbacks /\ setbacks' = setbacks + 1

\* The claim throws, before its effect or after it (the answer is lost): it is
\* outside the try, and the drain ends.
ClaimThrows(d) ==
  /\ phase[d] \in {"polling", "handling"}
  /\ Setback
  /\ LeaveDrain(d)
  /\ UNCHANGED <<rowVars, adminVars, envVars, unwritten>>

\* An unknown event type never reaches the handler; a handler may return any
\* decision or throw, long after the lease it was started under.
VerdictsFor(e) == IF e \in UnknownTypes THEN {"UNKNOWN_EVENT"} ELSE HandlerVerdicts

Handle(d, v) ==
  /\ phase[d] = "handling"
  /\ v \in VerdictsFor(held[d])
  /\ IF v = "RATE_LIMITED" THEN Setback ELSE UNCHANGED setbacks
  /\ verdict' = [verdict EXCEPT ![d] = v]
  /\ phase' = [phase EXCEPT ![d] = "deciding"]
  /\ ran' = ran \cup {[event |-> held[d], gen |-> heldGen[d], verdict |-> v]}
  /\ UNCHANGED <<rowVars, adminVars, cutoff, budget, held, heldGen, alive, clock,
                 unwritten>>

\* Mutated forms: the fence compares the owner only, or the generation only.
HoldsByOwner(d) == ~published[held[d]] /\ owner[held[d]] = OwnerOf[d]
HoldsByGeneration(d) == ~published[held[d]] /\ gen[held[d]] = heldGen[d]

\* The fence: claimed_by and claim_generation are still those of the claim.
Holds(d) ==
  /\ ~published[held[d]]
  /\ owner[held[d]] = OwnerOf[d]
  /\ gen[held[d]] = heldGen[d]

\* Mutated form: the event is dropped before its decision is applied.
ForgetEvent(d) ==
  held' = [held EXCEPT ![d] = None] /\ UNCHANGED <<phase, heldGen, verdict, cutoff, budget>>

BackToPolling(d) ==
  /\ phase' = [phase EXCEPT ![d] = "polling"]
  /\ held' = [held EXCEPT ![d] = None]
  /\ heldGen' = [heldGen EXCEPT ![d] = 0]
  /\ verdict' = [verdict EXCEPT ![d] = None]
  /\ UNCHANGED <<cutoff, budget>>

\* A write after the handler's decision runs inside the try: when it throws, the
\* catch records a failure of its own.  That write, and the one for an unknown
\* type, are outside: when they throw, so does the drain.
InTry(d) == verdict[d] \notin {"THROWN", "UNKNOWN_EVENT"}

WriteFails(d) ==
  /\ Setback
  /\ IF InTry(d)
     THEN /\ verdict' = [verdict EXCEPT ![d] = "THROWN"]
          /\ UNCHANGED <<phase, cutoff, budget, held, heldGen>>
     ELSE LeaveDrain(d)

\* The write had its effect; its answer arrives, or is lost.
Written(d) ==
  /\ \/ BackToPolling(d) /\ UNCHANGED setbacks
     \/ WriteFails(d)
  /\ UNCHANGED unwritten

\* It had none: the row keeps its claim, and the decision is not recorded.
DecisionIsNotWritten(d) ==
  /\ phase[d] = "deciding"
  /\ Holds(d)
  /\ WriteFails(d)
  /\ unwritten' = unwritten \cup {r \in ran : r.event = held[d] /\ r.gen = heldGen[d]}
  /\ UNCHANGED <<rowVars, adminVars, envVars>>

ReleaseClaim(e) ==
  /\ owner' = [owner EXCEPT ![e] = None]
  /\ lease' = [lease EXCEPT ![e] = "none"]

MarkOutboxPublished(d) ==
  /\ phase[d] = "deciding"
  /\ verdict[d] = "PUBLISHED"
  /\ Holds(d)
  /\ published' = [published EXCEPT ![held[d]] = TRUE]
  /\ deferred' = [deferred EXCEPT ![held[d]] = FALSE]
  /\ ReleaseClaim(held[d])
  /\ Written(d)
  /\ UNCHANGED <<occurred, dead, attempts, gen, adminVars, envVars>>

\* Mutated forms: backpressure counts; the budget is one attempt short.
EveryVerdictCounts(v) == TRUE
OneShortLimit(v) == IF v = "TERMINAL_REVIEW" THEN 1 ELSE MaxAttempts - 1

CountsTowardBudget(v) == v # "RATE_LIMITED"
AttemptLimit(v) == IF v = "TERMINAL_REVIEW" THEN 1 ELSE MaxAttempts

RecordOutboxFailure(d) ==
  LET e == held[d]
      v == verdict[d]
  IN
  /\ phase[d] = "deciding"
  /\ v # "PUBLISHED"
  /\ Holds(d)
  /\ attempts' = [attempts EXCEPT ![e] = IF CountsTowardBudget(v) THEN @ + 1 ELSE @]
  /\ dead' = [dead EXCEPT ![e] =
                @ \/ (CountsTowardBudget(v) /\ attempts[e] + 1 >= AttemptLimit(v))]
  /\ deferred' = [deferred EXCEPT ![e] = TRUE]
  /\ ReleaseClaim(e)
  /\ Written(d)
  /\ UNCHANGED <<occurred, published, gen, adminVars, envVars>>

\* The UPDATE of an ack or a failure matches no row: the result is dropped.
DropStaleResult(d) ==
  /\ phase[d] = "deciding"
  /\ ~Holds(d)
  /\ Written(d)
  /\ UNCHANGED <<rowVars, adminVars, envVars>>

-----------------------------------------------------------------------------
(* Operator, time and failure *)

\* Mutated forms: a retrying event may be closed; a request id may be reused.
UnpublishedOnly(e) == ~published[e]
AnyRequest(r) == TRUE

IsOrphan(e) == dead[e] /\ ~published[e]

\* disposition_request_id is read first and has a unique index.
RequestUnused(r) == \A f \in Events : request[f] # r

\* dispositionTerminalOutboxEvent: the accepted decision.  Replays, conflicts
\* and rejections of the same function write nothing.
DispositionTerminalOutboxEvent(e, c, r) ==
  /\ IsOrphan(e)
  /\ disposition[e] = None
  /\ RequestUnused(r)
  /\ disposition' = [disposition EXCEPT ![e] = c]
  /\ request' = [request EXCEPT ![e] = r]
  /\ UNCHANGED <<rowVars, drainVars, envVars, faultVars>>

Working(e) == \E d \in Drains : Active(d) /\ held[d] = e

\* now() passes claim_expires_at, under a running handler or after a crash.
LeaseLapses(e) ==
  /\ lease[e] = "live"
  /\ IF Working(e) THEN Setback ELSE UNCHANGED setbacks
  /\ lease' = [lease EXCEPT ![e] = "lapsed"]
  /\ UNCHANGED <<occurred, published, dead, attempts, gen, owner, deferred,
                 adminVars, drainVars, envVars, unwritten>>

BackoffElapses(e) ==
  /\ deferred[e]
  /\ deferred' = [deferred EXCEPT ![e] = FALSE]
  /\ UNCHANGED <<occurred, published, dead, attempts, gen, owner, lease,
                 adminVars, drainVars, envVars, faultVars>>

\* A process dies (or its shutdown times out) between any two statements.  The
\* replacement that the supervisor starts is another member of Workers.
Crash(w) ==
  /\ w \in alive
  /\ alive \ {w} # {}
  /\ alive' = alive \ {w}
  /\ LET Forget(local, initial) ==
           [d \in Drains |-> IF OwnerOf[d] = w THEN initial ELSE local[d]]
     IN  /\ phase' = Forget(phase, "idle")
         /\ cutoff' = Forget(cutoff, 0)
         /\ budget' = Forget(budget, 0)
         /\ held' = Forget(held, None)
         /\ heldGen' = Forget(heldGen, 0)
         /\ verdict' = Forget(verdict, None)
  /\ UNCHANGED <<rowVars, adminVars, clock, ran, faultVars>>

-----------------------------------------------------------------------------
DrainStep(d) ==
  \/ BeginDrain(d)
  \/ \E e \in Events : ClaimDueOutboxBatch(d, e)
  \/ EndDrain(d)
  \/ \E v \in Verdicts : Handle(d, v)
  \/ MarkOutboxPublished(d)
  \/ RecordOutboxFailure(d)
  \/ DropStaleResult(d)
  \/ ClaimThrows(d)
  \/ DecisionIsNotWritten(d)

Next ==
  \/ \E d \in Drains : DrainStep(d)
  \/ \E e \in Events : EnqueueOutboxEvent(e) \/ LeaseLapses(e) \/ BackoffElapses(e)
  \/ \E e \in Events, c \in Codes, r \in Requests : DispositionTerminalOutboxEvent(e, c, r)
  \/ \E w \in Workers : Crash(w)

Spec == Init /\ [][Next]_vars

\* The scheduler polls on a timer and every lane run ends (DrainStep); leases
\* and backoffs are intervals of the database clock.
Fairness ==
  /\ \A d \in Drains : WF_vars(DrainStep(d))
  /\ \A e \in Events : WF_vars(LeaseLapses(e)) /\ WF_vars(BackoffElapses(e))

FairSpec == Spec /\ Fairness

-----------------------------------------------------------------------------
(* Properties *)

Settled(e) == published[e] \/ dead[e]

\* A row is marked published only on the verdict of the run that made its
\* latest claim: an older run, whose lease lapsed, can never ack for it.
SettledByLatestRun ==
  \A e \in Events :
    published[e] => [event |-> e, gen |-> gen[e], verdict |-> "PUBLISHED"] \in ran

\* Two drains, also two of the same process with the same owner id, never
\* both pass the fence for one row.
AtMostOneHolder ==
  \A c, d \in Drains :
    c # d /\ Active(c) /\ Active(d) /\ held[c] = held[d] => ~(Holds(c) /\ Holds(d))

\* The runs of e an attempt may be counted for: those that failed, and those a
\* write of whose decision threw, which the catch counts though the run may have
\* succeeded or asked for nothing but time (RATE_LIMITED).
CountableRuns(e) ==
  {r \in ran : r.event = e /\ (r.verdict \notin {"PUBLISHED", "RATE_LIMITED"} \/ r \in unwritten)}

\* Each counted attempt has a countable run of its own: no run is counted twice,
\* by its decision and again by the catch after that write's answer was lost;
\* dropped stale results are not counted; and neither success nor backpressure
\* is, unless a write of theirs threw.
AttemptsAreRunsOfTheirOwn ==
  \A e \in Events : attempts[e] <= Cardinality(CountableRuns(e))

\* Not kept by the code: success and backpressure never consume the budget.
OnlyFailedRunsCount ==
  \A e \in Events :
    attempts[e] <= Cardinality({r \in ran : r.event = e
                                  /\ r.verdict \notin {"PUBLISHED", "RATE_LIMITED"}})

\* A dead letter has a cause: the budget is spent or a run asked for review.
DeadLetterHasCause ==
  \A e \in Events : dead[e] =>
    \/ attempts[e] = MaxAttempts
    \/ [event |-> e, gen |-> gen[e], verdict |-> "TERMINAL_REVIEW"] \in ran

\* One confirmation of an operator closes at most one orphan, and only a
\* parked one, which then stays unpublished.
OneRequestOneOrphan ==
  \A e, f \in Events :
    /\ disposition[e] # None => dead[e] /\ ~published[e]
    /\ request[e] # None /\ request[e] = request[f] => e = f

\* Evidence is immutable: once a row is published or dead, no later step of
\* any drain, stale or not, changes its delivery columns.
KeepsSettledRows ==
  \A e \in Events : Settled(e) =>
    <<published[e], dead[e], attempts[e], gen[e], owner[e]>>'
      = <<published[e], dead[e], attempts[e], gen[e], owner[e]>>

SettledRowsNeverChange == [][KeepsSettledRows]_vars

\* Every emitted event is eventually published or visible as a dead letter,
\* whatever crashes, slow handlers and backpressure do (finitely often).
EveryEventSettles ==
  \A e \in Events : occurred[e] > 0 ~> Settled(e)

\* What the outbox promises to its producers.
StatusOf(e) ==
  CASE occurred[e] = 0 -> "absent"
    [] published[e] -> "published"
    [] dead[e] /\ disposition[e] # None -> "closed"
    [] dead[e] /\ disposition[e] = None -> "parked"
    [] OTHER -> "pending"

Contract == INSTANCE OutboxContract WITH
  status <- [e \in Events |-> StatusOf(e)],
  succeeded <- {e \in Events : \E r \in ran : r.event = e /\ r.verdict = "PUBLISHED"}

ImplementsContract == Contract!ContractSpec
=============================================================================
