--------------------------- MODULE OwnerAuthority ---------------------------
(*************************************************************************)
(* What the owner must show before a sensitive change, and the change of    *)
(* the store's mode it permits: the second factor and its recovery          *)
(* (modules/identity/step-up.ts), the grant bound to one command on one     *)
(* version (sensitive-action.ts, authorization-binding.ts), the one-time    *)
(* confirmation (admin-confirmation.ts, bot/callbacks/admin.ts) and the     *)
(* transition it runs (commerce/store-mode.ts).                            *)
(*                                                                       *)
(* A press is the transaction of one pressed confirm button.  It holds the  *)
(* row of its confirmation to the end, but spends the grant in a            *)
(* transaction of its own: a rollback gives the confirmation back and not   *)
(* the grant.  Codes are six digits in the program and time steps here.  A  *)
(* refusal that changes nothing a later step reads is no action: a wrong    *)
(* code, the lockout it leads to, another identity, a wrong challenge.      *)
(*************************************************************************)
EXTENDS Integers, Sequences, FiniteSets

CONSTANTS Presses,
          Confirmations, Grants,   \* numbered in the order of their creation
          Wanted,       \* modes the owner asks for
          OtpSteps,     \* time steps whose codes are shown
          LastFactor, LastStoreVersion, MaxAsked,  \* bounds
          NoConfirmation, NoGrant

ASSUME OwnerAssumption ==
  /\ Confirmations \cup Grants \subseteq Nat
  /\ NoConfirmation \notin Confirmations /\ NoGrant \notin Grants
  /\ Wanted \subseteq {"OPEN", "CLOSED", "TEST"}
  /\ {LastFactor, LastStoreVersion, MaxAsked} \subseteq Nat

VARIABLES store,        \* the store_control row
          parked,       \* open discrepancies, parked events or escalated tickets exist
          factor,       \* version of the active second factor
          recovered,    \* factor the last recovery promoted (history)
          candidate,    \* the pending recovery
          used,         \* factor and step of every accepted code
          asked,        \* bindings the owner was refused on lately: a code may answer
          grant, confirmation, press,
          changes       \* history: the applied transitions, in order

ownerVars == <<store, parked, factor, recovered, candidate, used,
               asked, grant, confirmation, press, changes>>
factorVars == <<factor, recovered, candidate, used>>

NoCandidate == [previous |-> 0, late |-> FALSE]
NoPress == [at |-> "idle", confirmation |-> NoConfirmation, grant |-> NoGrant, version |-> 0]
Binding(mode, expected, version) == [mode |-> mode, expected |-> expected, version |-> version]
Unused == Binding("", 0, 0)
Versions == 1..LastStoreVersion

OwnerTypeOK ==
  /\ store \in [mode : {"OPEN", "CLOSED", "TEST"}, version : Versions]
  /\ parked \in BOOLEAN
  /\ factor \in 1..LastFactor /\ recovered \in 1..LastFactor
  /\ candidate \in [previous : 0..LastFactor, late : BOOLEAN]
  /\ used \subseteq (1..LastFactor) \X OtpSteps
  /\ asked \subseteq [mode : Wanted, expected : Versions, version : Versions]
  /\ \A g \in Grants : /\ grant[g].state \in {"none", "live", "late", "spent", "revoked"}
                       /\ grant[g].factor \in 0..LastFactor
  /\ \A c \in Confirmations :
       confirmation[c].state \in {"none", "CREATED", "CONSUMED", "EXPIRED", "REVOKED"}
  /\ \A p \in Presses : press[p].at \in {"idle", "bound", "spent", "queues", "change"}

\* Migration 041 seeds an open store; one closed before versions came is at version 1 too.
OwnerInit ==
  /\ store \in [mode : {"OPEN", "CLOSED"}, version : {1}]
  /\ parked = FALSE
  /\ factor = 1 /\ recovered = 1 /\ candidate = NoCandidate
  /\ used = {}
  /\ asked = {}
  /\ grant = [g \in Grants |-> [state |-> "none", binding |-> Unused, factor |-> 0]]
  /\ confirmation = [c \in Confirmations |->
       [state |-> "none", mode |-> "", expected |-> 0]]
  /\ press = [p \in Presses |-> NoPress]
  /\ changes = <<>>

-----------------------------------------------------------------------------
(* The second factor.  The row of the active factor is the mutex of verify,   *)
(* of initiateRecovery and of confirmRecovery, so each is one step.           *)

Unissued(g) ==
  /\ grant[g].state = "none"
  /\ \A h \in Grants : h < g => grant[h].state # "none"

\* A code is accepted for the present time step and the two beside it, which the bound takes
\* for all steps.  admin_step_up_attempt_totp_replay_idx: one grant for a factor and a step.
\* The challenge stays until it lapses, and may be answered by another grant: the console
\* takes the latest one whatever was issued for it, and the bot's look for such a grant is
\* no part of this transaction.
Verify(g, b, step) ==
  /\ b \in asked
  /\ <<factor, step>> \notin used
  /\ Unissued(g)
  /\ used' = used \cup {<<factor, step>>}
  /\ grant' = [grant EXCEPT ![g] = [state |-> "live", binding |-> b, factor |-> factor]]
  /\ UNCHANGED <<store, parked, factor, recovered, candidate, asked, confirmation, press,
                 changes>>

\* replace verifies the current seed and stores the next one without a lock; what another
\* replacement or a recovery stored in between is replaced as well.  Grants are left alone.
ReplaceFactor ==
  /\ factor < LastFactor
  /\ factor' = factor + 1
  /\ UNCHANGED <<store, parked, recovered, candidate, used, asked, grant, confirmation,
                 press, changes>>

Pending == candidate # NoCandidate

InitiateRecovery ==
  /\ Pending => candidate.late
  /\ factor < LastFactor
  /\ candidate' = [previous |-> factor, late |-> FALSE]
  /\ UNCHANGED <<store, parked, factor, recovered, used, asked, grant, confirmation,
                 press, changes>>

CandidateLapses ==
  /\ Pending /\ ~candidate.late
  /\ candidate' = [candidate EXCEPT !.late = TRUE]
  /\ UNCHANGED <<store, parked, factor, recovered, used, asked, grant, confirmation,
                 press, changes>>

Recoverable == Pending /\ ~candidate.late /\ candidate.previous = factor

RecoveryIsStale ==
  /\ Pending /\ ~Recoverable
  /\ candidate' = NoCandidate
  /\ UNCHANGED <<store, parked, factor, recovered, used, asked, grant, confirmation,
                 press, changes>>

\* Grants that recovery takes back: the expired ones are among them.
RevokedByRecovery == {g \in Grants : grant[g].state \in {"live", "late"}}

ConfirmRecovery ==
  /\ Recoverable
  /\ factor' = factor + 1
  /\ recovered' = factor + 1
  /\ candidate' = NoCandidate
  /\ grant' = [g \in Grants |->
       IF g \in RevokedByRecovery THEN [grant[g] EXCEPT !.state = "revoked"] ELSE grant[g]]
  /\ UNCHANGED <<store, parked, used, asked, confirmation, press, changes>>

GrantLapses(g) ==
  /\ grant[g].state = "live"
  /\ grant' = [grant EXCEPT ![g].state = "late"]
  /\ UNCHANGED <<store, parked, factorVars, asked, confirmation, press, changes>>

-----------------------------------------------------------------------------
(* handle: the owner asks for a mode from a screen that showed some version.  *)

LiveGrants(b) == {g \in Grants : grant[g].state = "live" /\ grant[g].binding = b}

Challenge(mode, seen) ==
  LET b == Binding(mode, seen, store.version) IN
  /\ LiveGrants(b) = {}
  /\ Cardinality(asked) < MaxAsked
  /\ asked' = asked \cup {b}
  /\ UNCHANGED <<store, parked, factorVars, grant, confirmation, press, changes>>

ChallengeLapses(b) ==
  /\ b \in asked
  /\ asked' = asked \ {b}
  /\ UNCHANGED <<store, parked, factorVars, grant, confirmation, press, changes>>

PressedOn(c) == {p \in Presses : press[p].confirmation = c}

\* Same fingerprint: the command, its target and the expected version.
Previous(mode, seen) ==
  {c \in Confirmations : /\ confirmation[c].state = "CREATED"
                         /\ confirmation[c].mode = mode
                         /\ confirmation[c].expected = seen}

\* Only a preview of the grant: what was read here is not used again.
IssueConfirmation(c, mode, seen) ==
  /\ LiveGrants(Binding(mode, seen, store.version)) # {}
  /\ confirmation[c].state = "none"
  /\ \A d \in Confirmations : d < c => confirmation[d].state # "none"
  /\ \A d \in Previous(mode, seen) : PressedOn(d) = {}
  /\ confirmation' = [d \in Confirmations |->
       IF d = c THEN [state |-> "CREATED", mode |-> mode, expected |-> seen]
       ELSE IF d \in Previous(mode, seen) THEN [confirmation[d] EXCEPT !.state = "REVOKED"]
       ELSE confirmation[d]]
  /\ UNCHANGED <<store, parked, factorVars, asked, grant, press, changes>>

\* Its time is over, whether or not a press has found that out.
ConfirmationLapses(c) ==
  /\ confirmation[c].state = "CREATED"
  /\ PressedOn(c) = {}
  /\ confirmation' = [confirmation EXCEPT ![c].state = "EXPIRED"]
  /\ UNCHANGED <<store, parked, factorVars, asked, grant, press, changes>>

-----------------------------------------------------------------------------
(* confirm: executeAtomically around authorizeSensitiveAdminAction and the    *)
(* transition.                                                               *)

Confirmed(p) == confirmation[press[p].confirmation]
PressAt(p, at) == press' = [press EXCEPT ![p].at = at]
PressEnds(p) == press' = [press EXCEPT ![p] = NoPress]

\* The row of the confirmation is locked first; the binding is read on another connection.
Press(p, c) ==
  /\ press[p].at = "idle"
  /\ confirmation[c].state = "CREATED"
  /\ PressedOn(c) = {}
  /\ press' = [press EXCEPT ![p] = [at |-> "bound", confirmation |-> c, grant |-> NoGrant,
                                    version |-> store.version]]
  /\ UNCHANGED <<store, parked, factorVars, asked, grant, confirmation, changes>>

BoundTo(p) == Binding(Confirmed(p).mode, Confirmed(p).expected, press[p].version)

SpendGrant(p, g) ==
  /\ press[p].at = "bound"
  /\ g \in LiveGrants(BoundTo(p))
  /\ grant' = [grant EXCEPT ![g].state = "spent"]
  /\ press' = [press EXCEPT ![p].at = "spent", ![p].grant = g]
  /\ UNCHANGED <<store, parked, factorVars, asked, confirmation, changes>>

NothingToSpend(p) ==
  /\ press[p].at = "bound"
  /\ LiveGrants(BoundTo(p)) = {}
  /\ PressEnds(p)
  /\ UNCHANGED <<store, parked, factorVars, asked, grant, confirmation, changes>>

AllowedTransitions(mode) == IF mode = "CLOSED" THEN {"TEST", "OPEN"} ELSE {"CLOSED"}

\* Mutant of Applies: the version the owner saw is not compared.
AppliesToAny(p) == Confirmed(p).mode \in AllowedTransitions(store.mode)

Applies(p) ==
  /\ Confirmed(p).mode \in AllowedTransitions(store.mode)
  /\ Confirmed(p).expected = store.version

HoldsStore(p) == press[p].at \in {"queues", "change"}

\* The store_control row is locked; an opening that is not ready has ended before.
LockStore(p) ==
  /\ press[p].at = "spent"
  /\ Confirmed(p).mode = "OPEN" => ~parked
  /\ \A q \in Presses : ~HoldsStore(q)
  /\ Applies(p)
  /\ PressAt(p, IF Confirmed(p).mode = "OPEN" THEN "queues" ELSE "change")
  /\ UNCHANGED <<store, parked, factorVars, asked, grant, confirmation, changes>>

TransitionIsRefused(p) ==
  /\ press[p].at = "spent"
  /\ \/ Confirmed(p).mode = "OPEN" /\ parked
     \/ (\A q \in Presses : ~HoldsStore(q)) /\ ~Applies(p)
  /\ PressEnds(p)
  /\ UNCHANGED <<store, parked, factorVars, asked, grant, confirmation, changes>>

\* The tables of the queues are locked and read again.
CheckQueues(p) ==
  /\ press[p].at = "queues"
  /\ IF parked THEN PressEnds(p) ELSE PressAt(p, "change")
  /\ UNCHANGED <<store, parked, factorVars, asked, grant, confirmation, changes>>

Change(p) ==
  /\ press[p].at = "change"
  /\ store.version < LastStoreVersion
  /\ store' = [mode |-> Confirmed(p).mode, version |-> store.version + 1]
  /\ confirmation' = [confirmation EXCEPT ![press[p].confirmation].state = "CONSUMED"]
  /\ changes' = Append(changes, [confirmation |-> press[p].confirmation,
                                 grant |-> press[p].grant, mode |-> Confirmed(p).mode,
                                 clear |-> ~parked])
  /\ PressEnds(p)
  /\ UNCHANGED <<parked, factorVars, asked, grant>>

\* A failure or a crash rolls everything back but the spent grant.
PressDies(p) ==
  /\ press[p].at # "idle"
  /\ PressEnds(p)
  /\ UNCHANGED <<store, parked, factorVars, asked, grant, confirmation, changes>>

\* An opening holds the queues' tables from its check to its commit.
QueuesLocked == \E p \in Presses : press[p].at = "change" /\ Confirmed(p).mode = "OPEN"

QueueChanges ==
  /\ ~QueuesLocked
  /\ parked' = ~parked
  /\ UNCHANGED <<store, factorVars, asked, grant, confirmation, press, changes>>

OwnerNext ==
  \/ ReplaceFactor
  \/ InitiateRecovery \/ CandidateLapses \/ RecoveryIsStale \/ ConfirmRecovery
  \/ \E b \in asked : \/ ChallengeLapses(b)
                      \/ \E g \in Grants, step \in OtpSteps : Verify(g, b, step)
  \/ \E g \in Grants : GrantLapses(g)
  \/ \E mode \in Wanted, seen \in 1..store.version : Challenge(mode, seen)
  \/ \E c \in Confirmations, mode \in Wanted, seen \in 1..store.version :
       IssueConfirmation(c, mode, seen)
  \/ \E c \in Confirmations : ConfirmationLapses(c)
  \/ \E p \in Presses, c \in Confirmations : Press(p, c)
  \/ \E p \in Presses, g \in Grants : SpendGrant(p, g)
  \/ \E p \in Presses : \/ NothingToSpend(p) \/ LockStore(p) \/ TransitionIsRefused(p)
                        \/ CheckQueues(p) \/ Change(p) \/ PressDies(p)
  \/ QueueChanges

-----------------------------------------------------------------------------
(* The change number v was confirmed for version v, by one confirmation that  *)
(* is spent with it, under one grant that was earned for exactly this change   *)
(* at exactly this version; the store never opened over a parked queue; and    *)
(* no grant that may still be spent was earned with a factor that a recovery   *)
(* has replaced (admin-confirmation.ts, sensitive-action.ts, store-mode.ts).   *)
OwnerActsAsConfirmed ==
  /\ \A v \in DOMAIN changes :
       LET change == changes[v] IN
       /\ confirmation[change.confirmation].state = "CONSUMED"
       /\ confirmation[change.confirmation].expected = v
       /\ grant[change.grant].state = "spent"
       /\ grant[change.grant].binding = Binding(change.mode, v, v)
       /\ change.mode = "OPEN" => change.clear
  /\ \A v, w \in DOMAIN changes :
       v # w => /\ changes[v].confirmation # changes[w].confirmation
                /\ changes[v].grant # changes[w].grant
  /\ \A c \in Confirmations :
       confirmation[c].state = "CONSUMED" => \E v \in DOMAIN changes : changes[v].confirmation = c
  /\ \A g \in Grants : grant[g].state = "live" => grant[g].factor >= recovered
=============================================================================
