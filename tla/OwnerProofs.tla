---------------------------- MODULE OwnerProofs ----------------------------
(***************************************************************************)
(* Two things of the owner: a change of the store is the one he confirmed,  *)
(* and a paid file is the version he confirmed, sent as it was frozen.  The *)
(* argument for the store: a press is alone with the confirmation it locked *)
(* and the grant it spent, and no binding names a version its screen had    *)
(* not reached.  For the file: a claim of the job has a generation of its   *)
(* own, sends once, and every claim but the first was paid for by a mishap. *)
(***************************************************************************)
EXTENDS OwnerAuthority, FileDelivery, FiniteSetTheorems, TLAPS

-----------------------------------------------------------------------------
(* The owner.                                                                *)

OwnerSpec == OwnerInit /\ [][OwnerNext]_ownerVars

Modes == {"OPEN", "CLOSED", "TEST"}
BindingRow == [mode : Modes \cup {""}, expected : Nat, version : Nat]
GrantRow == [state : {"none", "live", "late", "spent", "revoked"}, binding : BindingRow, factor : Nat]
ConfirmationRow == [state : {"none", "CREATED", "CONSUMED", "EXPIRED", "REVOKED"},
                    mode : Modes \cup {""}, expected : Nat]
OwnerPressRow == [at : {"idle", "bound", "spent", "queues", "change"},
                  confirmation : Confirmations \cup {NoConfirmation},
                  grant : Grants \cup {NoGrant}, version : Nat]
ChangeRow == [confirmation : Confirmations, grant : Grants, mode : Modes, clear : BOOLEAN]

OwnerRows ==
  /\ store \in [mode : Modes, version : Nat] /\ parked \in BOOLEAN
  /\ factor \in Nat /\ recovered \in Nat /\ recovered <= factor
  /\ asked \subseteq BindingRow
  /\ grant \in [Grants -> GrantRow]
  /\ confirmation \in [Confirmations -> ConfirmationRow]
  /\ press \in [Presses -> OwnerPressRow]
  /\ changes \in Seq(ChangeRow) /\ store.version = Len(changes) + 1

\* A challenge names a version its screen showed, which is never ahead of the store's.
BindingsAreSeen ==
  /\ \A b \in asked : b.expected <= b.version
  /\ \A g \in Grants :
       /\ grant[g].binding.expected <= grant[g].binding.version
       /\ grant[g].state = "live" => grant[g].factor >= recovered

Open(p) == press[p].at # "idle"
Spends(p) == press[p].at \in {"spent", "queues", "change"}

\* A press holds its confirmation, and what it has spent nobody else has spent.
PressHolds(p) ==
  /\ press[p].version <= store.version
  /\ Open(p) => press[p].confirmation \in Confirmations /\ Confirmed(p).state = "CREATED"
  /\ Spends(p) => /\ press[p].grant \in Grants
                  /\ grant[press[p].grant].state = "spent"
                  /\ grant[press[p].grant].binding = BoundTo(p)
                  /\ \A v \in DOMAIN changes : changes[v].grant # press[p].grant
  /\ HoldsStore(p) => Applies(p)
  /\ press[p].at = "change" /\ Confirmed(p).mode = "OPEN" => ~parked

PressesApart(p, q) ==
  /\ Open(p) /\ Open(q) => press[p].confirmation # press[q].confirmation
  /\ Spends(p) /\ Spends(q) => press[p].grant # press[q].grant
  /\ ~(HoldsStore(p) /\ HoldsStore(q))

PressesHold ==
  /\ \A p \in Presses : PressHolds(p)
  /\ \A p, q \in Presses : p # q => PressesApart(p, q)

OwnerInv == OwnerRows /\ BindingsAreSeen /\ PressesHold /\ OwnerActsAsConfirmed

LEMMA InitOwner == OwnerInit => OwnerInv
<1> SUFFICES ASSUME OwnerInit PROVE OwnerInv
  OBVIOUS
<1>a. store \in [mode : {"OPEN", "CLOSED"}, version : {1}]
  BY DEF OwnerInit
<1>b. parked = FALSE /\ factor = 1 /\ recovered = 1 /\ asked = {}
  BY DEF OwnerInit
<1>c. changes = <<>>
  BY DEF OwnerInit
<1>0. /\ grant = [g \in Grants |-> [state |-> "none", binding |-> Unused, factor |-> 0]]
      /\ confirmation = [c \in Confirmations |-> [state |-> "none", mode |-> "", expected |-> 0]]
      /\ press = [p \in Presses |-> NoPress]
  BY DEF OwnerInit
<1>d. store.version = 1
  BY <1>a
<1>1. OwnerRows
  <2>1. store \in [mode : Modes, version : Nat]
    BY <1>a DEF Modes
  <2>2. changes \in Seq(ChangeRow) /\ Len(changes) = 0
    BY <1>c
  <2>3. grant \in [Grants -> GrantRow]
    BY <1>0 DEF GrantRow, BindingRow, Unused, Binding
  <2>4. confirmation \in [Confirmations -> ConfirmationRow]
    BY <1>0 DEF ConfirmationRow
  <2>5. press \in [Presses -> OwnerPressRow]
    BY <1>0 DEF OwnerPressRow, NoPress
  <2>6. factor \in Nat /\ recovered \in Nat /\ recovered <= factor /\ asked \subseteq BindingRow
    BY <1>b
  <2>7. parked \in BOOLEAN
    BY <1>b, Zenon
  <2> QED
    BY <1>d, <2>1, <2>2, <2>3, <2>4, <2>5, <2>6, <2>7 DEF OwnerRows
<1>2. BindingsAreSeen
  <2>0. Unused.expected = 0 /\ Unused.version = 0
    BY DEF Unused, Binding
  <2>1. \A g \in Grants : grant[g].binding = Unused
    BY <1>0
  <2>2. \A g \in Grants : grant[g].state = "none"
    BY <1>0
  <2> QED
    <3>0. \A g \in Grants : grant[g].binding.expected = 0 /\ grant[g].binding.version = 0
      BY <2>0, <2>1
    <3>1. \A g \in Grants : grant[g].binding.expected <= grant[g].binding.version
      BY <3>0
    <3>2. \A b \in asked : b.expected <= b.version
      BY <1>b
    <3> QED
      BY <2>2, <3>1, <3>2 DEF BindingsAreSeen
<1>3. PressesHold
  <2>1. \A p \in Presses : press[p].at = "idle" /\ press[p].version = 0
    BY <1>0 DEF NoPress
  <2> QED
    BY <1>d, <2>1 DEF PressesHold, PressHolds, PressesApart, Open, Spends, HoldsStore
<1>4. OwnerActsAsConfirmed
  <2>1. DOMAIN changes = {}
    BY <1>c
  <2>2. \A c \in Confirmations : confirmation[c].state = "none"
    BY <1>0
  <2>3. \A g \in Grants : grant[g].state = "none"
    BY <1>0
  <2> QED
    BY <2>1, <2>2, <2>3 DEF OwnerActsAsConfirmed
<1> QED
  BY <1>1, <1>2, <1>3, <1>4 DEF OwnerInv

-----------------------------------------------------------------------------
(* The rows.                                                                 *)

LEMMA GrantsAreTyped ==
  ASSUME OwnerInv, OwnerNext
  PROVE  grant' \in [Grants -> GrantRow]
<1>0. grant \in [Grants -> GrantRow] /\ asked \subseteq BindingRow /\ factor \in Nat
  BY DEF OwnerInv, OwnerRows
<1>1. ASSUME NEW g \in Grants, NEW b \in asked, NEW step \in OtpSteps, Verify(g, b, step)
      PROVE grant' \in [Grants -> GrantRow]
  <2>1. [state |-> "live", binding |-> b, factor |-> factor] \in GrantRow
    BY <1>0 DEF GrantRow
  <2> QED
    BY <1>0, <1>1, <2>1 DEF Verify
<1>2. ASSUME NEW g, NEW s \in {"late", "spent"}, grant' = [grant EXCEPT ![g].state = s]
      PROVE grant' \in [Grants -> GrantRow]
  BY <1>0, <1>2 DEF GrantRow
<1>3. CASE ConfirmRecovery
  BY <1>0, <1>3 DEF ConfirmRecovery, GrantRow
<1>4. CASE UNCHANGED grant
  BY <1>0, <1>4
<1> QED
  BY <1>1, <1>2, <1>3, <1>4
  DEF OwnerNext, ReplaceFactor, InitiateRecovery, CandidateLapses, RecoveryIsStale, ChallengeLapses,
      GrantLapses, Challenge, IssueConfirmation, ConfirmationLapses, Press, SpendGrant,
      NothingToSpend, LockStore, TransitionIsRefused, CheckQueues, Change, PressDies, QueueChanges

LEMMA ConfirmationsAreTyped ==
  ASSUME OwnerInv, OwnerNext
  PROVE  confirmation' \in [Confirmations -> ConfirmationRow]
<1>0. /\ confirmation \in [Confirmations -> ConfirmationRow]
      /\ store \in [mode : Modes, version : Nat] /\ Wanted \subseteq Modes
  BY OwnerAssumption DEF OwnerInv, OwnerRows, Modes
<1>1. ASSUME NEW c \in Confirmations, NEW mode \in Wanted, NEW seen \in 1..store.version,
             IssueConfirmation(c, mode, seen)
      PROVE confirmation' \in [Confirmations -> ConfirmationRow]
  <2>1. [state |-> "CREATED", mode |-> mode, expected |-> seen] \in ConfirmationRow
    <3>1. seen \in Nat /\ mode \in Modes
      BY <1>0
    <3> QED
      BY <3>1 DEF ConfirmationRow
  <2>2. \A d \in Confirmations : [confirmation[d] EXCEPT !.state = "REVOKED"] \in ConfirmationRow
    BY <1>0 DEF ConfirmationRow
  <2> QED
    BY <1>0, <1>1, <2>1, <2>2 DEF IssueConfirmation
<1>2. ASSUME NEW c, NEW s \in {"EXPIRED", "CONSUMED"},
             confirmation' = [confirmation EXCEPT ![c].state = s]
      PROVE confirmation' \in [Confirmations -> ConfirmationRow]
  BY <1>0, <1>2 DEF ConfirmationRow
<1>3. CASE UNCHANGED confirmation
  BY <1>0, <1>3
<1> QED
  BY <1>1, <1>2, <1>3
  DEF OwnerNext, ReplaceFactor, InitiateRecovery, CandidateLapses, RecoveryIsStale, ChallengeLapses,
      Verify, ConfirmRecovery, GrantLapses, Challenge, ConfirmationLapses, Press, SpendGrant,
      NothingToSpend, LockStore, TransitionIsRefused, CheckQueues, Change, PressDies, QueueChanges

LEMMA OwnerPressesAreTyped ==
  ASSUME OwnerInv, OwnerNext
  PROVE  press' \in [Presses -> OwnerPressRow]
<1>0. press \in [Presses -> OwnerPressRow] /\ store \in [mode : Modes, version : Nat]
  BY DEF OwnerInv, OwnerRows
<1>1. ASSUME NEW p \in Presses, NEW c \in Confirmations, Press(p, c)
      PROVE press' \in [Presses -> OwnerPressRow]
  <2>1. [at |-> "bound", confirmation |-> c, grant |-> NoGrant, version |-> store.version]
          \in OwnerPressRow
    BY <1>0 DEF OwnerPressRow
  <2>2. press' = [press EXCEPT ![p] = [at |-> "bound", confirmation |-> c, grant |-> NoGrant,
                                       version |-> store.version]]
    BY <1>1 DEF Press
  <2> QED
    BY <1>0, <2>1, <2>2
<1>2. ASSUME NEW p, PressEnds(p) PROVE press' \in [Presses -> OwnerPressRow]
  <2>1. NoPress \in OwnerPressRow
    BY DEF NoPress, OwnerPressRow
  <2> QED
    BY <1>0, <1>2, <2>1 DEF PressEnds
<1>3. ASSUME NEW p, NEW at \in {"queues", "change"}, PressAt(p, at)
      PROVE press' \in [Presses -> OwnerPressRow]
  BY <1>0, <1>3, ZenonT(60) DEF PressAt, OwnerPressRow
<1>4. ASSUME NEW p \in Presses, NEW g \in Grants, SpendGrant(p, g)
      PROVE press' \in [Presses -> OwnerPressRow]
  BY <1>0, <1>4, ZenonT(60) DEF SpendGrant, OwnerPressRow
<1>5. CASE UNCHANGED press
  BY <1>0, <1>5
<1> QED
  BY <1>1, <1>2, <1>3, <1>4, <1>5
  DEF OwnerNext, ReplaceFactor, InitiateRecovery, CandidateLapses, RecoveryIsStale, ChallengeLapses,
      Verify, ConfirmRecovery, GrantLapses, Challenge, IssueConfirmation, ConfirmationLapses,
      NothingToSpend, LockStore, TransitionIsRefused, CheckQueues, Change, PressDies, QueueChanges

\* The change a press commits, under a confirmation and a grant that are its own.
LEMMA ChangeAppends ==
  ASSUME OwnerInv, NEW p \in Presses, Change(p)
  PROVE  /\ Confirmed(p).mode \in Modes /\ Confirmed(p).state = "CREATED"
         /\ press[p].confirmation \in Confirmations /\ press[p].grant \in Grants
         /\ Confirmed(p).expected = store.version
         /\ grant[press[p].grant].state = "spent"
         /\ grant[press[p].grant].binding = Binding(Confirmed(p).mode, store.version, store.version)
         /\ \A v \in DOMAIN changes : changes[v].grant # press[p].grant
         /\ Confirmed(p).mode = "OPEN" => ~parked
         /\ store' = [mode |-> Confirmed(p).mode, version |-> store.version + 1]
         /\ \E row \in ChangeRow :
              /\ row = [confirmation |-> press[p].confirmation, grant |-> press[p].grant,
                        mode |-> Confirmed(p).mode, clear |-> ~parked]
              /\ changes' = Append(changes, row)
<1> USE DEF OwnerInv
<1>1. Open(p) /\ Spends(p) /\ HoldsStore(p) /\ press[p].at = "change"
  BY DEF Change, Open, Spends, HoldsStore
<1>2. PressHolds(p) /\ OwnerRows
  BY DEF PressesHold
<1>3. /\ press[p].confirmation \in Confirmations /\ press[p].grant \in Grants
      /\ Confirmed(p).state = "CREATED" /\ Applies(p)
      /\ grant[press[p].grant].state = "spent"
      /\ grant[press[p].grant].binding = BoundTo(p)
      /\ \A v \in DOMAIN changes : changes[v].grant # press[p].grant
      /\ Confirmed(p).mode = "OPEN" => ~parked
      /\ press[p].version <= store.version
  BY <1>1, <1>2 DEF PressHolds
<1>4. Confirmed(p).expected = store.version /\ Confirmed(p).mode \in Modes
  BY <1>3 DEF Applies, AllowedTransitions, Modes
<1>5. press[p].version = store.version
  <2>1. grant[press[p].grant].binding = [mode |-> Confirmed(p).mode,
                                         expected |-> Confirmed(p).expected,
                                         version |-> press[p].version]
    BY <1>3 DEF BoundTo, Binding
  <2>2. grant[press[p].grant].binding.expected <= grant[press[p].grant].binding.version
    BY <1>3 DEF BindingsAreSeen
  <2>3. store.version <= press[p].version
    BY <1>4, <2>1, <2>2
  <2>4. store.version \in Nat /\ press[p].version \in Nat
    BY DEF OwnerRows, OwnerPressRow
  <2> QED
    BY <1>3, <2>3, <2>4
<1>6. [confirmation |-> press[p].confirmation, grant |-> press[p].grant,
       mode |-> Confirmed(p).mode, clear |-> ~parked] \in ChangeRow
  BY <1>3, <1>4 DEF ChangeRow, OwnerRows
<1> QED
  BY <1>3, <1>4, <1>5, <1>6 DEF Change, BoundTo

LEMMA OwnerRowsStep ==
  ASSUME OwnerInv, OwnerNext
  PROVE  OwnerRows'
<1>0. OwnerRows /\ Wanted \subseteq Modes
  BY OwnerAssumption DEF OwnerInv, Modes
<1>1. /\ factor' \in Nat /\ recovered' \in Nat /\ recovered' <= factor'
  <2>0. factor \in Nat /\ recovered \in Nat /\ recovered <= factor
    BY <1>0 DEF OwnerRows
  <2>1. CASE UNCHANGED <<factor, recovered>>
    BY <2>0, <2>1
  <2>2. CASE ReplaceFactor
    BY <2>0, <2>2 DEF ReplaceFactor
  <2>3. CASE ConfirmRecovery
    BY <2>0, <2>3 DEF ConfirmRecovery
  <2> QED
    BY <2>1, <2>2, <2>3
    DEF OwnerNext, InitiateRecovery, CandidateLapses, RecoveryIsStale,
      ChallengeLapses, Verify, GrantLapses, Challenge, IssueConfirmation,
      ConfirmationLapses, Press, SpendGrant, NothingToSpend, LockStore, TransitionIsRefused,
      CheckQueues, Change, PressDies, QueueChanges, factorVars
<1>2. asked' \subseteq BindingRow
  <2>1. ASSUME NEW mode \in Wanted, NEW seen \in 1..store.version, Challenge(mode, seen)
        PROVE asked' \subseteq BindingRow
    <3>a. store.version \in Nat
      BY <1>0 DEF OwnerRows
    <3>0. store.version \in Nat /\ mode \in Modes /\ seen \in Nat
      BY <1>0, <3>a
    <3>1. Binding(mode, seen, store.version) \in BindingRow
      BY <3>0 DEF Binding, BindingRow
    <3> QED
      BY <1>0, <2>1, <3>1 DEF Challenge, OwnerRows
  <2> QED
    BY <1>0, <2>1
    DEF OwnerRows, OwnerNext, ReplaceFactor, InitiateRecovery, CandidateLapses, RecoveryIsStale,
        ChallengeLapses, Verify, ConfirmRecovery, GrantLapses, IssueConfirmation,
        ConfirmationLapses, Press, SpendGrant, NothingToSpend, LockStore, TransitionIsRefused,
        CheckQueues, Change, PressDies, QueueChanges
<1>3. parked' \in BOOLEAN
  BY <1>0
  DEF OwnerRows, OwnerNext, ReplaceFactor, InitiateRecovery, CandidateLapses, RecoveryIsStale,
      ChallengeLapses, Verify, ConfirmRecovery, GrantLapses, Challenge, IssueConfirmation,
      ConfirmationLapses, Press, SpendGrant, NothingToSpend, LockStore, TransitionIsRefused,
      CheckQueues, Change, PressDies, QueueChanges
<1>4. /\ store' \in [mode : Modes, version : Nat]
      /\ changes' \in Seq(ChangeRow) /\ store'.version = Len(changes') + 1
  <2>1. CASE UNCHANGED <<store, changes>>
    BY <1>0, <2>1 DEF OwnerRows
  <2>2. ASSUME NEW p \in Presses, Change(p)
        PROVE  /\ store' \in [mode : Modes, version : Nat]
               /\ changes' \in Seq(ChangeRow) /\ store'.version = Len(changes') + 1
    <3>1. PICK row \in ChangeRow : changes' = Append(changes, row)
      BY <2>2, ChangeAppends
    <3>2. store' = [mode |-> Confirmed(p).mode, version |-> store.version + 1]
          /\ Confirmed(p).mode \in Modes
      BY <2>2, ChangeAppends
    <3>3. changes' \in Seq(ChangeRow) /\ Len(changes') = Len(changes) + 1
      BY <1>0, <3>1 DEF OwnerRows
    <3>4. Len(changes) \in Nat /\ store.version \in Nat /\ store.version = Len(changes) + 1
      BY <1>0 DEF OwnerRows
    <3> QED
      BY <3>2, <3>3, <3>4
  <2> QED
    BY <2>1, <2>2
    DEF OwnerNext, ReplaceFactor, InitiateRecovery, CandidateLapses, RecoveryIsStale,
        ChallengeLapses, Verify, ConfirmRecovery, GrantLapses, Challenge, IssueConfirmation,
        ConfirmationLapses, Press, SpendGrant, NothingToSpend, LockStore, TransitionIsRefused,
        CheckQueues, PressDies, QueueChanges
<1> QED
  BY <1>1, <1>2, <1>3, <1>4, GrantsAreTyped, ConfirmationsAreTyped, OwnerPressesAreTyped
  DEF OwnerRows

LEMMA BindingsStep ==
  ASSUME OwnerInv, OwnerNext
  PROVE  BindingsAreSeen'
<1> DEFINE Seen(b) == b.expected <= b.version
<1>0. /\ OwnerRows /\ grant \in [Grants -> GrantRow]
      /\ factor \in Nat /\ recovered \in Nat /\ recovered <= factor
      /\ \A b \in asked : b.expected <= b.version
      /\ \A g \in Grants : /\ grant[g].binding.expected <= grant[g].binding.version
                           /\ grant[g].state = "live" => grant[g].factor >= recovered
  BY DEF OwnerInv, OwnerRows, BindingsAreSeen
<1>1. \A b \in asked' : b.expected <= b.version
  <2>1. ASSUME NEW mode \in Wanted, NEW seen \in 1..store.version, Challenge(mode, seen)
        PROVE \A b \in asked' : b.expected <= b.version
    <3>1. asked' = asked \cup {[mode |-> mode, expected |-> seen, version |-> store.version]}
      BY <2>1 DEF Challenge, Binding
    <3>2. store.version \in Nat
      BY <1>0 DEF OwnerRows
    <3>3. seen <= store.version
      BY <3>2
    <3> QED
      BY <1>0, <3>1, <3>3
  <2>2. CASE asked' \subseteq asked
    BY <1>0, <2>2
  <2> QED
    BY <2>1, <2>2
    DEF OwnerNext, ReplaceFactor, InitiateRecovery, CandidateLapses, RecoveryIsStale,
        ChallengeLapses, Verify, ConfirmRecovery, GrantLapses, IssueConfirmation,
        ConfirmationLapses, Press, SpendGrant, NothingToSpend, LockStore, TransitionIsRefused,
        CheckQueues, Change, PressDies, QueueChanges
<1>2. ASSUME NEW g \in Grants
      PROVE  /\ grant'[g].binding.expected <= grant'[g].binding.version
             /\ grant'[g].state = "live" => grant'[g].factor >= recovered'
  <2> DEFINE Goal == /\ grant'[g].binding.expected <= grant'[g].binding.version
                     /\ grant'[g].state = "live" => grant'[g].factor >= recovered'
  <2>1. ASSUME NEW h \in Grants, NEW b \in asked, NEW step \in OtpSteps, Verify(h, b, step)
        PROVE Goal
    <3>1. grant' = [grant EXCEPT ![h] = [state |-> "live", binding |-> b, factor |-> factor]]
          /\ UNCHANGED recovered
      BY <2>1 DEF Verify
    <3>2. CASE h = g
      <4>1. grant'[g].binding = b /\ grant'[g].factor = factor
        BY <1>0, <3>1, <3>2
      <4> QED
        BY <1>0, <3>1, <4>1
    <3>3. CASE h # g
      BY <1>0, <3>1, <3>3
    <3> QED
      BY <3>2, <3>3
  <2>2. ASSUME NEW h \in Grants, NEW s \in {"late", "spent"}, UNCHANGED recovered,
               grant' = [grant EXCEPT ![h].state = s]
        PROVE Goal
    <3>1. CASE h = g
      <4>1. grant'[g] = [grant[g] EXCEPT !.state = s] /\ grant[g] \in GrantRow
        BY <1>0, <2>2, <3>1
      <4>2. grant'[g].binding = grant[g].binding /\ grant'[g].state = s
        BY <4>1 DEF GrantRow
      <4> QED
        BY <1>0, <2>2, <4>2
    <3>2. CASE h # g
      BY <1>0, <2>2, <3>2
    <3> QED
      BY <3>1, <3>2
  <2>3. CASE ConfirmRecovery
    <3>1. grant'[g] = IF g \in RevokedByRecovery THEN [grant[g] EXCEPT !.state = "revoked"] ELSE grant[g]
      BY <2>3 DEF ConfirmRecovery
    <3>2. grant[g] \in GrantRow
      BY <1>0
    <3>3. CASE g \in RevokedByRecovery
      <4>1. grant'[g].binding = grant[g].binding /\ grant'[g].state = "revoked"
        BY <3>1, <3>2, <3>3 DEF GrantRow
      <4> QED
        BY <1>0, <4>1
    <3>4. CASE g \notin RevokedByRecovery
      <4>1. grant'[g] = grant[g] /\ grant[g].state # "live"
        BY <3>1, <3>4 DEF RevokedByRecovery
      <4> QED
        BY <1>0, <4>1
    <3> QED
      BY <3>3, <3>4
  <2>4. CASE UNCHANGED <<grant, recovered>>
    BY <1>0, <2>4
  <2> QED
    BY <2>1, <2>2, <2>3, <2>4
    DEF OwnerNext, ReplaceFactor, InitiateRecovery, CandidateLapses, RecoveryIsStale,
        ChallengeLapses, GrantLapses, Challenge, IssueConfirmation, factorVars,
        ConfirmationLapses, Press, SpendGrant, NothingToSpend, LockStore, TransitionIsRefused,
        CheckQueues, Change, PressDies, QueueChanges
<1> QED
  BY <1>1, <1>2 DEF BindingsAreSeen

-----------------------------------------------------------------------------
(* What a press holds.                                                       *)

\* A grant that was spent is never anything else, and a confirmation that was used or that a
\* press holds changes by that press only.
LEMMA SpentStays ==
  ASSUME OwnerInv, OwnerNext, NEW g \in Grants, grant[g].state = "spent"
  PROVE  grant'[g] = grant[g]
<1>0. grant \in [Grants -> GrantRow]
  BY DEF OwnerInv, OwnerRows
<1>1. CASE UNCHANGED grant
  BY <1>1
<1>2. ASSUME NEW h \in Grants, NEW row, grant[h].state # "spent",
             grant' = [grant EXCEPT ![h] = row]
      PROVE grant'[g] = grant[g]
  BY <1>0, <1>2
<1>3. ASSUME NEW h \in Grants, NEW b \in asked, NEW step \in OtpSteps, Verify(h, b, step)
      PROVE grant'[g] = grant[g]
  BY <1>2, <1>3 DEF Verify, Unissued
<1>4. ASSUME NEW h \in Grants, grant[h].state = "live", NEW s, grant' = [grant EXCEPT ![h].state = s]
      PROVE grant'[g] = grant[g]
  BY <1>0, <1>4
<1>5. ASSUME NEW h \in Grants, GrantLapses(h) PROVE grant'[g] = grant[g]
  BY <1>4, <1>5 DEF GrantLapses
<1>6. ASSUME NEW p \in Presses, NEW h \in Grants, SpendGrant(p, h) PROVE grant'[g] = grant[g]
  BY <1>4, <1>6 DEF SpendGrant, LiveGrants
<1>7. CASE ConfirmRecovery
  <2>1. g \notin RevokedByRecovery
    BY DEF RevokedByRecovery
  <2> QED
    BY <1>7, <2>1 DEF ConfirmRecovery
<1> QED
  BY <1>1, <1>3, <1>5, <1>6, <1>7
  DEF OwnerNext, ReplaceFactor, InitiateRecovery, CandidateLapses, RecoveryIsStale, ChallengeLapses,
      Challenge, IssueConfirmation, ConfirmationLapses, Press, NothingToSpend, LockStore,
      TransitionIsRefused, CheckQueues, Change, PressDies, QueueChanges

LEMMA HeldStays ==
  ASSUME OwnerInv, OwnerNext, NEW c \in Confirmations
  PROVE  /\ confirmation[c].state = "CONSUMED" => confirmation'[c] = confirmation[c]
         /\ \A p \in Presses : Open(p) /\ press[p].confirmation = c /\ ~Change(p) =>
              confirmation'[c] = confirmation[c]
         /\ confirmation'[c].state = "CONSUMED" =>
              \/ confirmation[c].state = "CONSUMED"
              \/ \E p \in Presses : Change(p) /\ press[p].confirmation = c
<1> DEFINE Goal == /\ confirmation[c].state = "CONSUMED" => confirmation'[c] = confirmation[c]
                   /\ \A p \in Presses : Open(p) /\ press[p].confirmation = c /\ ~Change(p) =>
                        confirmation'[c] = confirmation[c]
                   /\ confirmation'[c].state = "CONSUMED" =>
                        \/ confirmation[c].state = "CONSUMED"
                        \/ \E p \in Presses : Change(p) /\ press[p].confirmation = c
<1>0. /\ confirmation \in [Confirmations -> ConfirmationRow] /\ NoConfirmation \notin Confirmations
      /\ \A p \in Presses : Open(p) => /\ press[p].confirmation \in Confirmations
                                       /\ Confirmed(p).state = "CREATED"
      /\ \A p, q \in Presses : p # q /\ Open(p) /\ Open(q) =>
           press[p].confirmation # press[q].confirmation
  BY OwnerAssumption DEF OwnerInv, OwnerRows, PressesHold, PressHolds, PressesApart
<1>1. ASSUME confirmation'[c] = confirmation[c] PROVE Goal
  BY <1>1
<1>2. ASSUME confirmation[c].state # "CONSUMED", confirmation'[c].state # "CONSUMED",
             PressedOn(c) = {} \/ confirmation[c].state # "CREATED"
      PROVE Goal
  BY <1>0, <1>2 DEF PressedOn, Confirmed
<1>3. ASSUME NEW d \in Confirmations, NEW mode \in Wanted, NEW seen \in 1..store.version,
             IssueConfirmation(d, mode, seen)
      PROVE Goal
  <2>1. confirmation'[c] = IF c = d THEN [state |-> "CREATED", mode |-> mode, expected |-> seen]
                           ELSE IF c \in Previous(mode, seen)
                                THEN [confirmation[c] EXCEPT !.state = "REVOKED"]
                           ELSE confirmation[c]
    BY <1>3 DEF IssueConfirmation
  <2>2. CASE c = d
    <3>1. confirmation'[c].state = "CREATED" /\ confirmation[c].state = "none"
      BY <1>3, <2>1, <2>2 DEF IssueConfirmation
    <3> QED
      BY <1>2, <3>1
  <2>3. CASE c # d /\ c \in Previous(mode, seen)
    <3>1. confirmation[c].state = "CREATED" /\ PressedOn(c) = {} /\ confirmation[c] \in ConfirmationRow
      BY <1>0, <1>3, <2>3 DEF IssueConfirmation, Previous
    <3>2. confirmation'[c].state = "REVOKED"
      BY <2>1, <2>3, <3>1 DEF ConfirmationRow
    <3> QED
      BY <1>2, <3>1, <3>2
  <2>4. CASE c # d /\ c \notin Previous(mode, seen)
    BY <1>1, <2>1, <2>4
  <2> QED
    BY <2>2, <2>3, <2>4
<1>4. ASSUME NEW d \in Confirmations, ConfirmationLapses(d) PROVE Goal
  <2>1. CASE c = d
    <3>1. confirmation'[c] = [confirmation[c] EXCEPT !.state = "EXPIRED"]
          /\ confirmation[c] \in ConfirmationRow
      BY <1>0, <1>4, <2>1 DEF ConfirmationLapses
    <3>2. confirmation'[c].state = "EXPIRED"
      BY <3>1 DEF ConfirmationRow
    <3> QED
      BY <1>2, <1>4, <2>1, <3>2 DEF ConfirmationLapses
  <2>2. CASE c # d
    BY <1>0, <1>1, <1>4, <2>2 DEF ConfirmationLapses
  <2> QED
    BY <2>1, <2>2
<1>5. ASSUME NEW p \in Presses, Change(p) PROVE Goal
  <2>1. /\ confirmation' = [confirmation EXCEPT ![press[p].confirmation].state = "CONSUMED"]
        /\ Open(p)
    BY <1>5 DEF Change, Open
  <2>2. press[p].confirmation \in Confirmations /\ Confirmed(p).state = "CREATED"
    BY <1>0, <2>1
  <2>3. CASE c = press[p].confirmation
    <3>1. confirmation[c].state = "CREATED"
      BY <2>2, <2>3 DEF Confirmed
    <3>2. \A q \in Presses : Open(q) /\ press[q].confirmation = c => q = p
      BY <1>0, <2>1, <2>3
    <3> QED
      BY <1>5, <2>3, <3>1, <3>2
  <2>4. CASE c # press[p].confirmation
    BY <1>0, <1>1, <2>1, <2>4
  <2> QED
    BY <2>3, <2>4
<1>6. CASE UNCHANGED confirmation
  BY <1>1, <1>6
<1> QED
  BY <1>3, <1>4, <1>5, <1>6
  DEF OwnerNext, ReplaceFactor, InitiateRecovery, CandidateLapses, RecoveryIsStale, ChallengeLapses,
      Verify, ConfirmRecovery, GrantLapses, Challenge, Press, SpendGrant, NothingToSpend, LockStore,
      TransitionIsRefused, CheckQueues, PressDies, QueueChanges

\* A press that a step leaves alone still holds what it holds.
LEMMA OthersHold ==
  ASSUME OwnerInv, OwnerNext, NEW q \in Presses, press'[q] = press[q], ~Change(q),
         \A v \in DOMAIN changes' :
           \/ v \in DOMAIN changes /\ changes'[v] = changes[v]
           \/ Spends(q) => changes'[v].grant # press[q].grant,
         store.version <= store'.version /\ store'.version \in Nat,
         HoldsStore(q) => UNCHANGED store,
         press[q].at = "change" /\ Confirmed(q).mode = "OPEN" => UNCHANGED parked
  PROVE  PressHolds(q)'
<1>1. PressHolds(q) /\ press[q] \in OwnerPressRow /\ store.version \in Nat
  BY DEF OwnerInv, PressesHold, OwnerRows
<1>2. press[q].version \in Nat
  BY <1>1 DEF OwnerPressRow
<1>3. Open(q) => confirmation'[press[q].confirmation] = confirmation[press[q].confirmation]
  BY <1>1, HeldStays DEF PressHolds
<1>4. Spends(q) => grant'[press[q].grant] = grant[press[q].grant]
  BY <1>1, SpentStays DEF PressHolds
<1>5. Spends(q) \/ HoldsStore(q) \/ press[q].at = "change" => Open(q)
  BY DEF Spends, Open, HoldsStore
<1>6. press'[q].version <= store'.version
  BY <1>1, <1>2 DEF PressHolds
<1>7. Open(q)' => press'[q].confirmation \in Confirmations /\ Confirmed(q)'.state = "CREATED"
  BY <1>1, <1>3 DEF PressHolds, Open, Confirmed
<1>8. Spends(q)' => /\ press'[q].grant \in Grants
                    /\ grant'[press'[q].grant].state = "spent"
                    /\ grant'[press'[q].grant].binding = BoundTo(q)'
                    /\ \A v \in DOMAIN changes' : changes'[v].grant # press'[q].grant
  BY <1>1, <1>3, <1>4, <1>5 DEF PressHolds, Spends, Confirmed, BoundTo
<1>9. HoldsStore(q)' => Applies(q)'
  BY <1>1, <1>3, <1>5 DEF PressHolds, HoldsStore, Applies, Confirmed
<1>10. (press[q].at = "change" /\ Confirmed(q).mode = "OPEN" => ~parked)'
  BY <1>1, <1>3, <1>5 DEF PressHolds, Confirmed
<1> QED
  BY <1>6, <1>7, <1>8, <1>9, <1>10 DEF PressHolds

\* ... and when the store, the queues and the changes are left alone too, so do all others.
LEMMA TheRestHolds ==
  ASSUME OwnerInv, OwnerNext, UNCHANGED <<store, changes>>,
         \A q \in Presses : ~Change(q),
         UNCHANGED parked \/ ~QueuesLocked,
         NEW P, \A q \in Presses : q \notin P => press'[q] = press[q]
  PROVE  /\ \A q \in Presses \ P : PressHolds(q)'
         /\ \A q, s \in Presses \ P : q # s => PressesApart(q, s)'
<1>1. store.version \in Nat
  BY DEF OwnerInv, OwnerRows
<1>2. ASSUME NEW q \in Presses \ P PROVE PressHolds(q)'
  <2>1. press[q].at = "change" /\ Confirmed(q).mode = "OPEN" => UNCHANGED parked
    BY DEF QueuesLocked
  <2>2. press'[q] = press[q] /\ store.version <= store'.version /\ store'.version \in Nat
    BY <1>1
  <2> QED
    BY <2>1, <2>2, OthersHold
<1>3. ASSUME NEW q \in Presses \ P, NEW s \in Presses \ P, q # s PROVE PressesApart(q, s)'
  <2>1. PressesApart(q, s) /\ press'[q] = press[q] /\ press'[s] = press[s]
    BY <1>3 DEF OwnerInv, PressesHold
  <2> QED
    BY <2>1 DEF PressesApart, Open, Spends, HoldsStore
<1> QED
  BY <1>2, <1>3

\* One press moves: what has to be shown of it.
LEMMA OnePressMoves ==
  ASSUME OwnerInv, OwnerNext, UNCHANGED <<store, changes, parked>>, \A q \in Presses : ~Change(q),
         NEW p \in Presses, \A q \in Presses : q # p => press'[q] = press[q],
         PressHolds(p)',
         \A q \in Presses : q # p => PressesApart(p, q)'
  PROVE  PressesHold'
<1>1. /\ \A q \in Presses \ {p} : PressHolds(q)'
      /\ \A q, s \in Presses \ {p} : q # s => PressesApart(q, s)'
  BY TheRestHolds
<1>2. \A q \in Presses : q # p => PressesApart(q, p)'
  BY DEF PressesApart
<1> QED
  BY <1>1, <1>2 DEF PressesHold

LEMMA EndHolds ==
  ASSUME OwnerInv, OwnerNext, UNCHANGED <<store, changes, parked>>, \A q \in Presses : ~Change(q),
         NEW p \in Presses, PressEnds(p)
  PROVE  PressesHold'
<1>0. press \in [Presses -> OwnerPressRow] /\ store.version \in Nat
  BY DEF OwnerInv, OwnerRows
<1>1. /\ press'[p].at = "idle" /\ press'[p].version = 0
      /\ \A q \in Presses : q # p => press'[q] = press[q]
  BY <1>0 DEF PressEnds, NoPress
<1>2. ~Open(p)' /\ ~Spends(p)' /\ ~HoldsStore(p)'
  BY <1>1 DEF Open, Spends, HoldsStore
<1>3. PressHolds(p)'
  BY <1>0, <1>1, <1>2 DEF PressHolds
<1>4. \A q \in Presses : q # p => PressesApart(p, q)'
  BY <1>2 DEF PressesApart
<1> QED
  BY <1>1, <1>3, <1>4, OnePressMoves

LEMMA BeginHolds ==
  ASSUME OwnerInv, OwnerNext, NEW p \in Presses, NEW c \in Confirmations, Press(p, c),
         \A q \in Presses : ~Change(q)
  PROVE  PressesHold'
<1>0. press \in [Presses -> OwnerPressRow] /\ store.version \in Nat
  BY DEF OwnerInv, OwnerRows
<1>1. /\ press'[p] = [at |-> "bound", confirmation |-> c, grant |-> NoGrant, version |-> store.version]
      /\ \A q \in Presses : q # p => press'[q] = press[q]
      /\ UNCHANGED <<store, changes, parked, confirmation>> /\ confirmation[c].state = "CREATED"
      /\ PressedOn(c) = {}
  BY <1>0 DEF Press
<1>2. /\ press'[p].at = "bound" /\ press'[p].confirmation = c /\ press'[p].version = store.version
      /\ ~Spends(p)' /\ ~HoldsStore(p)'
  BY <1>1 DEF Spends, HoldsStore
<1>3. PressHolds(p)'
  BY <1>0, <1>1, <1>2 DEF PressHolds, Confirmed
<1>4. \A q \in Presses : q # p => press[q].confirmation # c
  BY <1>1 DEF PressedOn
<1>5. \A q \in Presses : q # p => PressesApart(p, q)'
  BY <1>1, <1>2, <1>4 DEF PressesApart
<1> QED
  BY <1>1, <1>3, <1>5, OnePressMoves

LEMMA SpendHolds ==
  ASSUME OwnerInv, OwnerNext, NEW p \in Presses, NEW g \in Grants, SpendGrant(p, g),
         \A q \in Presses : ~Change(q)
  PROVE  PressesHold'
<1>0. /\ press \in [Presses -> OwnerPressRow] /\ grant \in [Grants -> GrantRow]
      /\ PressHolds(p) /\ \A q \in Presses : PressHolds(q)
      /\ \A q \in Presses : q # p => PressesApart(p, q)
  BY DEF OwnerInv, OwnerRows, PressesHold
<1>1. /\ press' = [press EXCEPT ![p].at = "spent", ![p].grant = g] /\ press[p].at = "bound"
      /\ grant' = [grant EXCEPT ![g].state = "spent"]
      /\ grant[g].state = "live" /\ grant[g].binding = BoundTo(p)
      /\ UNCHANGED <<store, changes, parked, confirmation>>
  BY DEF SpendGrant, LiveGrants
<1>2. /\ press'[p].at = "spent" /\ press'[p].grant = g
      /\ press'[p].confirmation = press[p].confirmation /\ press'[p].version = press[p].version
      /\ \A q \in Presses : q # p => press'[q] = press[q]
  BY <1>0, <1>1 DEF OwnerPressRow
<1>3. grant'[g].state = "spent" /\ grant'[g].binding = grant[g].binding
  <2>1. grant'[g] = [grant[g] EXCEPT !.state = "spent"] /\ grant[g] \in GrantRow
    BY <1>0, <1>1
  <2> QED
    BY <2>1 DEF GrantRow
<1>4. \A v \in DOMAIN changes : changes[v].grant # g
  BY <1>1 DEF OwnerInv, OwnerActsAsConfirmed
<1>5. \A q \in Presses : Spends(q) => press[q].grant # g
  BY <1>0, <1>1 DEF PressHolds
<1>6. Open(p) /\ ~HoldsStore(p)' /\ BoundTo(p)' = BoundTo(p)
  BY <1>1, <1>2 DEF Open, HoldsStore, BoundTo, Confirmed
<1>7. PressHolds(p)'
  BY <1>0, <1>1, <1>2, <1>3, <1>4, <1>6 DEF PressHolds, Confirmed
<1>8. \A q \in Presses : q # p => PressesApart(p, q)'
  BY <1>0, <1>2, <1>5, <1>6 DEF PressesApart, Open, Spends, HoldsStore
<1> QED
  BY <1>1, <1>2, <1>7, <1>8, OnePressMoves

LEMMA AdvanceHolds ==
  ASSUME OwnerInv, OwnerNext, UNCHANGED <<store, changes, parked, grant, confirmation>>,
         \A q \in Presses : ~Change(q),
         NEW p \in Presses, NEW at \in {"queues", "change"}, PressAt(p, at), Spends(p), Applies(p),
         \A q \in Presses : q # p => ~HoldsStore(q),
         at = "change" /\ Confirmed(p).mode = "OPEN" => ~parked
  PROVE  PressesHold'
<1>0. /\ press \in [Presses -> OwnerPressRow] /\ PressHolds(p)
      /\ \A q \in Presses : q # p => PressesApart(p, q)
  BY DEF OwnerInv, OwnerRows, PressesHold
<1>1. /\ press'[p].at = at /\ press'[p].grant = press[p].grant
      /\ press'[p].confirmation = press[p].confirmation /\ press'[p].version = press[p].version
      /\ \A q \in Presses : q # p => press'[q] = press[q]
  BY <1>0 DEF PressAt, OwnerPressRow
<1>2. /\ Confirmed(p)' = Confirmed(p) /\ BoundTo(p)' = BoundTo(p) /\ Applies(p)'
      /\ Open(p)
  BY <1>1 DEF Confirmed, BoundTo, Applies, Open, Spends
<1>3. PressHolds(p)'
  BY <1>0, <1>1, <1>2 DEF PressHolds
<1>4. \A q \in Presses : q # p => PressesApart(p, q)'
  BY <1>0, <1>1, <1>2 DEF PressesApart, Open, Spends, HoldsStore
<1> QED
  BY <1>1, <1>3, <1>4, OnePressMoves

LEMMA ChangeHolds ==
  ASSUME OwnerInv, OwnerNext, NEW p \in Presses, Change(p)
  PROVE  PressesHold'
<1>0. /\ press \in [Presses -> OwnerPressRow] /\ changes \in Seq(ChangeRow)
      /\ store.version \in Nat /\ \A q \in Presses : PressHolds(q)
      /\ \A q, s \in Presses : q # s => PressesApart(q, s)
  BY DEF OwnerInv, OwnerRows, PressesHold
<1>1. Open(p) /\ Spends(p) /\ HoldsStore(p)
  BY DEF Change, Open, Spends, HoldsStore
<1>2. /\ press'[p].at = "idle" /\ press'[p].version = 0
      /\ \A q \in Presses : q # p => press'[q] = press[q]
  BY <1>0 DEF Change, PressEnds, NoPress
<1>3. ~Open(p)' /\ ~Spends(p)' /\ ~HoldsStore(p)'
  BY <1>2 DEF Open, Spends, HoldsStore
<1>4. store'.version = store.version + 1 /\ UNCHANGED parked
  BY <1>0, ChangeAppends DEF Change
<1>5. PressHolds(p)'
  BY <1>0, <1>2, <1>3, <1>4 DEF PressHolds
<1>6. ASSUME NEW q \in Presses, q # p PROVE PressHolds(q)'
  <2>1. PressesApart(p, q)
    BY <1>0, <1>6
  <2>2. ~HoldsStore(q) /\ (Spends(q) => press[q].grant # press[p].grant)
    BY <1>1, <2>1 DEF PressesApart
  <2>3. PICK row \in ChangeRow : row.grant = press[p].grant /\ changes' = Append(changes, row)
    <3>1. PICK row \in ChangeRow :
            /\ row = [confirmation |-> press[p].confirmation, grant |-> press[p].grant,
                      mode |-> Confirmed(p).mode, clear |-> ~parked]
            /\ changes' = Append(changes, row)
      BY ChangeAppends
    <3>2. row.grant = press[p].grant
      BY <3>1
    <3> QED
      BY <3>1, <3>2
  <2>4. \A v \in DOMAIN changes' :
          \/ v \in DOMAIN changes /\ changes'[v] = changes[v]
          \/ changes'[v] = row
    BY <1>0, <2>3
  <2>5. ~Change(q) /\ press[q].at # "change"
    BY <2>2 DEF Change, HoldsStore
  <2>6. store.version <= store'.version /\ store'.version \in Nat /\ press'[q] = press[q]
    BY <1>0, <1>2, <1>4, <1>6
  <2> QED
    BY <2>2, <2>3, <2>4, <2>5, <2>6, OthersHold
<1>7. ASSUME NEW q \in Presses, NEW s \in Presses, q # s PROVE PressesApart(q, s)'
  BY <1>0, <1>2, <1>3, <1>7 DEF PressesApart, Open, Spends, HoldsStore
<1> QED
  BY <1>5, <1>6, <1>7 DEF PressesHold

LEMMA PressesStep ==
  ASSUME OwnerInv, OwnerNext
  PROVE  PressesHold'
<1>1. CASE \E p \in Presses : Change(p)
  BY <1>1, ChangeHolds
<1>2. ASSUME \A p \in Presses : ~Change(p), UNCHANGED <<store, changes, press>>,
             UNCHANGED parked \/ ~QueuesLocked
      PROVE PressesHold'
  <2>1. /\ \A q \in Presses \ {} : PressHolds(q)'
        /\ \A q, s \in Presses \ {} : q # s => PressesApart(q, s)'
    BY <1>2, TheRestHolds
  <2> QED
    BY <2>1 DEF PressesHold
<1>3. ASSUME \A p \in Presses : ~Change(p), NEW p \in Presses,
             \/ \E c \in Confirmations : Press(p, c)
             \/ \E g \in Grants : SpendGrant(p, g)
             \/ NothingToSpend(p) \/ TransitionIsRefused(p) \/ PressDies(p)
      PROVE PressesHold'
  BY <1>3, BeginHolds, SpendHolds, EndHolds DEF NothingToSpend, TransitionIsRefused, PressDies
<1>4. ASSUME \A p \in Presses : ~Change(p), NEW p \in Presses, LockStore(p) PROVE PressesHold'
  <2>1. Spends(p) /\ Applies(p) /\ \A q \in Presses : ~HoldsStore(q)
    BY <1>4 DEF LockStore, Spends
  <2>2. CASE Confirmed(p).mode = "OPEN"
    BY <1>4, <2>1, <2>2, AdvanceHolds DEF LockStore
  <2>3. CASE Confirmed(p).mode # "OPEN"
    BY <1>4, <2>1, <2>3, AdvanceHolds DEF LockStore
  <2> QED
    BY <2>2, <2>3
<1>5. ASSUME \A p \in Presses : ~Change(p), NEW p \in Presses, CheckQueues(p) PROVE PressesHold'
  <2>1. Spends(p) /\ HoldsStore(p) /\ PressHolds(p)
    BY <1>5 DEF CheckQueues, Spends, HoldsStore, OwnerInv, PressesHold
  <2>2. Applies(p) /\ \A q \in Presses : q # p => ~HoldsStore(q)
    BY <2>1 DEF PressHolds, OwnerInv, PressesHold, PressesApart
  <2>3. UNCHANGED <<store, changes, parked, grant, confirmation>>
    BY <1>5 DEF CheckQueues
  <2>4. CASE parked
    BY <1>5, <2>3, <2>4, EndHolds DEF CheckQueues
  <2>5. CASE ~parked
    <3>1. PressAt(p, "change")
      BY <1>5, <2>5 DEF CheckQueues
    <3> QED
      BY <1>5, <2>1, <2>2, <2>3, <2>5, <3>1, AdvanceHolds
  <2> QED
    BY <2>4, <2>5
<1> QED
  BY <1>1, <1>2, <1>3, <1>4, <1>5
  DEF OwnerNext, ReplaceFactor, InitiateRecovery, CandidateLapses, RecoveryIsStale, ChallengeLapses,
      Verify, ConfirmRecovery, GrantLapses, Challenge, IssueConfirmation, ConfirmationLapses,
      QueueChanges

LEMMA ActsStep ==
  ASSUME OwnerInv, OwnerNext
  PROVE  OwnerActsAsConfirmed'
<1>0. /\ changes \in Seq(ChangeRow) /\ OwnerActsAsConfirmed
      /\ store.version = Len(changes) + 1 /\ Len(changes) \in Nat
  BY DEF OwnerInv, OwnerRows
<1>1. \A g \in Grants : grant'[g].state = "live" => grant'[g].factor >= recovered'
  BY BindingsStep DEF BindingsAreSeen
<1>2. ASSUME NEW v \in DOMAIN changes
      PROVE  /\ changes[v] \in ChangeRow
             /\ changes[v].confirmation \in Confirmations /\ changes[v].grant \in Grants
             /\ confirmation[changes[v].confirmation].state = "CONSUMED"
             /\ grant[changes[v].grant].state = "spent"
             /\ confirmation'[changes[v].confirmation] = confirmation[changes[v].confirmation]
             /\ grant'[changes[v].grant] = grant[changes[v].grant]
  <2>1. changes[v] \in ChangeRow
    BY <1>0
  <2>2. changes[v].confirmation \in Confirmations /\ changes[v].grant \in Grants
    BY <2>1 DEF ChangeRow
  <2>3. /\ confirmation[changes[v].confirmation].state = "CONSUMED"
        /\ grant[changes[v].grant].state = "spent"
    BY <1>0 DEF OwnerActsAsConfirmed
  <2> QED
    BY <2>1, <2>2, <2>3, HeldStays, SpentStays
<1>3. CASE UNCHANGED changes /\ \A p \in Presses : ~Change(p)
  <2>1. ASSUME NEW c \in Confirmations, confirmation'[c].state = "CONSUMED"
        PROVE \E v \in DOMAIN changes' : changes'[v].confirmation = c
    <3>1. confirmation[c].state = "CONSUMED"
      BY <1>3, <2>1, HeldStays
    <3> QED
      BY <1>0, <1>3, <3>1 DEF OwnerActsAsConfirmed
  <2> QED
    BY <1>0, <1>1, <1>2, <1>3, <2>1 DEF OwnerActsAsConfirmed
<1>4. ASSUME NEW p \in Presses, Change(p) PROVE OwnerActsAsConfirmed'
  <2> DEFINE c == press[p].confirmation
             g == press[p].grant
             m == Confirmed(p).mode
             n == Len(changes) + 1
  <2>1. /\ m \in Modes /\ Confirmed(p).state = "CREATED"
        /\ c \in Confirmations /\ g \in Grants
        /\ Confirmed(p).expected = store.version
        /\ grant[g].state = "spent"
        /\ grant[g].binding = Binding(m, store.version, store.version)
        /\ \A v \in DOMAIN changes : changes[v].grant # g
        /\ m = "OPEN" => ~parked
    BY <1>4, ChangeAppends
  <2>2. PICK row \in ChangeRow : /\ row.confirmation = c /\ row.grant = g /\ row.mode = m
                                 /\ (row.clear <=> ~parked)
                                 /\ changes' = Append(changes, row)
    <3>1. PICK row \in ChangeRow :
            /\ row = [confirmation |-> press[p].confirmation, grant |-> press[p].grant,
                      mode |-> Confirmed(p).mode, clear |-> ~parked]
            /\ changes' = Append(changes, row)
      BY <1>4, ChangeAppends
    <3>2. row.confirmation = c /\ row.grant = g /\ row.mode = m /\ row.clear = ~parked
      BY <3>1
    <3> QED
      BY <3>1, <3>2
  <2>3. confirmation'[c] = [confirmation[c] EXCEPT !.state = "CONSUMED"]
    BY <1>4, <2>1 DEF Change, OwnerInv, OwnerRows
  <2>4. confirmation'[c].state = "CONSUMED" /\ confirmation'[c].expected = n
    <3>1. confirmation[c] \in ConfirmationRow /\ confirmation[c].expected = n
      BY <1>0, <2>1 DEF OwnerInv, OwnerRows, Confirmed
    <3> HIDE DEF c, n
    <3> QED
      BY <2>3, <3>1 DEF ConfirmationRow
  <2>5. grant'[g].state = "spent" /\ grant'[g].binding = Binding(m, n, n)
    BY <1>0, <2>1, SpentStays
  <2>6. \A v \in DOMAIN changes : changes[v].confirmation # c
    BY <1>2, <2>1 DEF Confirmed
  <2> HIDE DEF c, g, m
  <2>7. /\ DOMAIN changes' = DOMAIN changes \cup {n}
        /\ n \notin DOMAIN changes
        /\ changes'[n] = row /\ \A v \in DOMAIN changes : changes'[v] = changes[v]
    BY <1>0, <2>2
  <2>8. ASSUME NEW v \in DOMAIN changes'
        PROVE  /\ confirmation'[changes'[v].confirmation].state = "CONSUMED"
               /\ confirmation'[changes'[v].confirmation].expected = v
               /\ grant'[changes'[v].grant].state = "spent"
               /\ grant'[changes'[v].grant].binding = Binding(changes'[v].mode, v, v)
               /\ changes'[v].mode = "OPEN" => changes'[v].clear
    <3>1. CASE v \in DOMAIN changes
      BY <1>0, <1>2, <2>7, <3>1 DEF OwnerActsAsConfirmed
    <3>2. CASE v = n
      BY <2>1, <2>2, <2>4, <2>5, <2>7, <3>2
    <3> QED
      BY <2>7, <3>1, <3>2
  <2>9. ASSUME NEW v \in DOMAIN changes', NEW w \in DOMAIN changes', v # w
        PROVE  /\ changes'[v].confirmation # changes'[w].confirmation
               /\ changes'[v].grant # changes'[w].grant
    BY <1>0, <2>1, <2>2, <2>6, <2>7, <2>9 DEF OwnerActsAsConfirmed
  <2>10. ASSUME NEW d \in Confirmations, confirmation'[d].state = "CONSUMED"
         PROVE \E v \in DOMAIN changes' : changes'[v].confirmation = d
    <3>1. CASE d = c
      BY <2>2, <2>7, <3>1
    <3>2. CASE d # c
      <4>1. confirmation'[d] = confirmation[d]
        BY <1>4, <2>1, <3>2 DEF Change, OwnerInv, OwnerRows, c
      <4> QED
        BY <1>0, <2>7, <2>10, <4>1 DEF OwnerActsAsConfirmed
    <3> QED
      BY <3>1, <3>2
  <2> QED
    BY <1>1, <2>8, <2>9, <2>10 DEF OwnerActsAsConfirmed
<1> QED
  BY <1>3, <1>4
  DEF OwnerNext, ReplaceFactor, InitiateRecovery, CandidateLapses, RecoveryIsStale, ChallengeLapses,
      Verify, ConfirmRecovery, GrantLapses, Challenge, IssueConfirmation, ConfirmationLapses, Press,
      SpendGrant, NothingToSpend, LockStore, TransitionIsRefused, CheckQueues, PressDies, QueueChanges

LEMMA NextOwner ==
  ASSUME OwnerInv, [OwnerNext]_ownerVars
  PROVE  OwnerInv'
<1>1. CASE OwnerNext
  BY <1>1, OwnerRowsStep, BindingsStep, PressesStep, ActsStep DEF OwnerInv
<1>2. CASE UNCHANGED ownerVars
  <2> USE <1>2 DEF ownerVars, OwnerInv
  <2>1. OwnerRows' /\ BindingsAreSeen'
    BY DEF OwnerRows, BindingsAreSeen
  <2>2. PressesHold'
    BY DEF PressesHold, PressHolds, PressesApart, Open, Spends, HoldsStore, Confirmed, BoundTo,
           Applies
  <2>3. OwnerActsAsConfirmed'
    BY DEF OwnerActsAsConfirmed
  <2> QED
    BY <2>1, <2>2, <2>3
<1> QED
  BY <1>1, <1>2

(* A press holds the confirmation it locked and the grant it spent, alone, and no     *)
(* binding names a version that is ahead of what its screen showed: the inductive     *)
(* invariant of admin-confirmation.ts, sensitive-action.ts and store-mode.ts.          *)
THEOREM OwnerInvariant == OwnerSpec => []OwnerInv
  BY InitOwner, NextOwner, PTL DEF OwnerSpec

(* For any presses, confirmations, grants and codes: every change of the store was    *)
(* confirmed once, for the version it was made on, under a grant earned for exactly    *)
(* it, and the store never opens over a parked queue.                                 *)
THEOREM OwnerConfirmed == OwnerSpec => []OwnerActsAsConfirmed
<1>1. OwnerInv => OwnerActsAsConfirmed
  BY DEF OwnerInv
<1> QED
  BY <1>1, OwnerInvariant, PTL

-----------------------------------------------------------------------------
(* The paid file.                                                            *)

Claimed(r) == fileRun[r].at \in {"sending", "answered", "refused"}
Sending == {r \in FileRuns : fileRun[r].at = "sending"}

\* Every run works for the one job, on the version that was frozen in it.
RunsAreOfTheJob ==
  /\ fileJob.status = "none" => /\ fileJob.gen = 0
                                /\ \A v \in 1 .. MaxVersions : copies[v] = 0
  /\ fileJob.status # "none" => fileJob.file \in 1 .. MaxVersions
  /\ \A r \in FileRuns : fileRun[r].at # "idle" =>
       fileJob.status # "none" /\ fileRun[r].file = fileJob.file
  /\ importing.status = "READY" => importing.file \in 1 .. versions

\* A claim has a generation of its own, and sends at most once.
ClaimsAreFenced ==
  /\ \A r \in FileRuns : Claimed(r) => fileRun[r].gen \in 1 .. fileJob.gen
  /\ \A r, s \in FileRuns : Claimed(r) /\ Claimed(s) /\ fileRun[r].gen = fileRun[s].gen => r = s
  /\ \A r \in FileRuns : fileRun[r].at = "answered" => copies[fileJob.file] > 0
  /\ IsFiniteSet(Sending)
  /\ fileJob.status # "none" => copies[fileJob.file] + Cardinality(Sending) <= fileJob.gen

\* Every claim but the first follows a mishap.
ClaimsArePaidFor ==
  /\ fileJob.gen <= 1 + mishaps
  /\ (IsClaimableJob \/ \E r \in FileRuns : fileRun[r].at = "refused" /\ HoldsJob(r)) =>
       fileJob.gen <= mishaps

FileInv == FileIsSentAsFrozen /\ RunsAreOfTheJob /\ ClaimsAreFenced /\ ClaimsArePaidFor

\* What belongs to the owner's imports, and what belongs to the order's job.
ArtifactInv ==
  /\ versions \in FileVersions /\ active \in 1 .. versions
  /\ importing \in [status : {"none", "WAITING_DOCUMENT", "READY", "COMMITTED", "CANCELLED"},
                    gen : 0 .. MaxSessions, file : FileVersions]
  /\ upload \in [Importers -> [at : {"idle", "downloading", "verifying"},
                              gen : 0 .. MaxSessions, file : FileVersions]]
  /\ importing.status = "READY" => importing.file \in 1 .. versions

FileRunRow == [at : {"idle", "queued", "sending", "answered", "refused"}, gen : Nat, file : FileVersions]
FileJobRow == [status : {"none", "QUEUED", "PROCESSING", "SENT", "FAILED"}, file : FileVersions, gen : Nat]

JobTypeOK ==
  /\ fileJob \in FileJobRow
  /\ jobLeased \in BOOLEAN /\ (jobLeased => fileJob.status = "PROCESSING")
  /\ fileOrder \in {"PAID", "COMPLETED"}
  /\ paidEvent \in BOOLEAN
  /\ fileRun \in [FileRuns -> FileRunRow]
  /\ copies \in [1 .. MaxVersions -> Nat]
  /\ mishaps \in 0 .. MaxMishaps

RunsOnTheJob ==
  /\ fileJob.status = "none" => /\ fileJob.gen = 0
                                /\ \A v \in 1 .. MaxVersions : copies[v] = 0
  /\ fileJob.status # "none" => fileJob.file \in 1 .. MaxVersions
  /\ \A r \in FileRuns : fileRun[r].at # "idle" =>
       fileJob.status # "none" /\ fileRun[r].file = fileJob.file

SentAsFrozen ==
  /\ \A v \in 1 .. MaxVersions : copies[v] > 0 => v = fileJob.file /\ copies[v] <= 1 + mishaps
  /\ fileOrder = "COMPLETED" <=> fileJob.status = "SENT"
  /\ fileOrder = "COMPLETED" => copies[fileJob.file] > 0
  /\ ~paidEvent => fileOrder = "COMPLETED"

JobInv == JobTypeOK /\ RunsOnTheJob /\ ClaimsAreFenced /\ ClaimsArePaidFor /\ SentAsFrozen

LEMMA FileInvParts == FileInv <=> ArtifactInv /\ JobInv
<1>1. FileTypeOK /\ (importing.status = "READY" => importing.file \in 1 .. versions)
        <=> ArtifactInv /\ JobTypeOK
  BY DEF FileTypeOK, ArtifactInv, JobTypeOK, FileRunRow, FileJobRow
<1>2. FileIsSentAsFrozen <=> FileTypeOK /\ SentAsFrozen
  BY DEF FileIsSentAsFrozen, SentAsFrozen
<1>3. RunsAreOfTheJob <=> RunsOnTheJob /\ (importing.status = "READY" => importing.file \in 1 .. versions)
  BY DEF RunsAreOfTheJob, RunsOnTheJob
<1> QED
  BY <1>1, <1>2, <1>3 DEF FileInv, JobInv

LEMMA InitFile == FileInit => FileInv
<1> SUFFICES ASSUME FileInit PROVE ArtifactInv /\ JobInv
  BY FileInvParts
<1>0. MaxVersions \in Nat \ {0} /\ MaxSessions \in Nat /\ MaxMishaps \in Nat
  BY FileAssumption
<1>1. /\ versions = 1 /\ active = 1
      /\ importing = [status |-> "none", gen |-> 0, file |-> 0]
      /\ upload = [i \in Importers |-> Idle]
  BY DEF FileInit
<1>2. /\ fileJob = [status |-> "none", file |-> 0, gen |-> 0] /\ jobLeased = FALSE
      /\ fileOrder = "PAID" /\ paidEvent = TRUE
      /\ fileRun = [r \in FileRuns |-> Idle]
      /\ copies = [v \in 1 .. MaxVersions |-> 0] /\ mishaps = 0
  BY DEF FileInit
<1>3. ArtifactInv
  BY <1>0, <1>1 DEF ArtifactInv, FileVersions, Idle
<1>4. JobTypeOK
  <2>1. fileJob \in FileJobRow
    BY <1>0, <1>2 DEF FileVersions, FileJobRow
  <2>2. fileRun \in [FileRuns -> FileRunRow]
    BY <1>0, <1>2 DEF FileVersions, Idle, FileRunRow
  <2>3. copies \in [1 .. MaxVersions -> Nat] /\ mishaps \in 0 .. MaxMishaps
    BY <1>0, <1>2
  <2> QED
    BY <1>2, <2>1, <2>2, <2>3 DEF JobTypeOK
<1>5. \A r \in FileRuns : fileRun[r].at = "idle"
  BY <1>2 DEF Idle
<1>6. RunsOnTheJob /\ SentAsFrozen
  BY <1>2, <1>5 DEF RunsOnTheJob, SentAsFrozen
<1>7. Sending = {}
  BY <1>5 DEF Sending
<1>8. ClaimsAreFenced
  BY <1>2, <1>5, <1>7, FS_EmptySet DEF ClaimsAreFenced, Claimed
<1>9. ~IsClaimableJob
  BY <1>2 DEF IsClaimableJob
<1>10. ClaimsArePaidFor
  BY <1>2, <1>5, <1>9 DEF ClaimsArePaidFor
<1> QED
  BY <1>3, <1>4, <1>6, <1>8, <1>10 DEF JobInv

\* Who sends, after a run has moved.
LEMMA SendingMoves ==
  ASSUME JobTypeOK, NEW r \in FileRuns, NEW new \in FileRunRow, IsFiniteSet(Sending),
         fileRun' = [fileRun EXCEPT ![r] = new]
  PROVE  /\ IsFiniteSet(Sending') /\ Cardinality(Sending) \in Nat /\ Cardinality(Sending') \in Nat
         /\ fileRun[r].at = "sending" /\ new.at # "sending"
              => Cardinality(Sending') = Cardinality(Sending) - 1
         /\ fileRun[r].at # "sending" /\ new.at = "sending"
              => Cardinality(Sending') = Cardinality(Sending) + 1
         /\ fileRun[r].at # "sending" /\ new.at # "sending"
              => Cardinality(Sending') = Cardinality(Sending)
<1>0. fileRun \in [FileRuns -> FileRunRow]
  BY DEF JobTypeOK
<1>1. \A s \in FileRuns : fileRun'[s] = IF s = r THEN new ELSE fileRun[s]
  BY <1>0
<1>2. r \in Sending <=> fileRun[r].at = "sending"
  BY DEF Sending
<1>3. Sending' = {s \in FileRuns : fileRun'[s].at = "sending"}
  BY DEF Sending
<1>4. new.at = "sending" => Sending' = Sending \cup {r}
  BY <1>1, <1>3 DEF Sending
<1>5. new.at # "sending" => Sending' = Sending \ {r}
  BY <1>1, <1>3 DEF Sending
<1>6. /\ IsFiniteSet(Sending \cup {r})
      /\ Cardinality(Sending \cup {r}) = IF r \in Sending THEN Cardinality(Sending)
                                                     ELSE Cardinality(Sending) + 1
  BY FS_AddElement
<1>7. /\ IsFiniteSet(Sending \ {r})
      /\ Cardinality(Sending \ {r}) = IF r \in Sending THEN Cardinality(Sending) - 1
                                                     ELSE Cardinality(Sending)
  BY FS_RemoveElement
<1>8. IsFiniteSet(Sending')
  BY <1>4, <1>5, <1>6, <1>7
<1>9. Cardinality(Sending) \in Nat /\ Cardinality(Sending') \in Nat
  BY <1>8, FS_CardinalityType
<1> QED
  BY <1>2, <1>4, <1>5, <1>6, <1>7, <1>8, <1>9

\* The owner's steps.
ArtifactNext ==
  \/ StartImport \/ CancelImport
  \/ \E i \in Importers :
       DownloadDocument(i) \/ StageDocument(i) \/ VerifyStaged(i) \/ ActivateStaged(i)

\* The steps of the job and of the runs.
JobNext ==
  \/ JobLeaseLapses
  \/ \E r \in FileRuns :
       \/ QueueFileDelivery(r) \/ ClaimFileJob(r) \/ SendDocument(r)
       \/ MarkProcessingFailed(r) \/ RecordSent(r) \/ FileRunDies(r)

LEMMA FileNextParts ==
  /\ FileNext <=> ArtifactNext \/ JobNext
  /\ ArtifactNext => UNCHANGED jobVars
  /\ JobNext => UNCHANGED artifactVars
<1>1. FileNext <=> ArtifactNext \/ JobNext
  BY DEF FileNext, ArtifactNext, JobNext
<1>2. ArtifactNext => UNCHANGED jobVars
  BY DEF ArtifactNext, StartImport, CancelImport, DownloadDocument, StageDocument, VerifyStaged,
         ActivateStaged, Pressed
<1>3. JobNext => UNCHANGED artifactVars
  BY DEF JobNext, JobLeaseLapses, QueueFileDelivery, ClaimFileJob, SendDocument,
         MarkProcessingFailed, RecordSent, FileRunDies
<1> QED
  BY <1>1, <1>2, <1>3

LEMMA ArtifactStep ==
  ASSUME ArtifactInv, ArtifactNext
  PROVE  ArtifactInv'
<1> DEFINE Goal == ArtifactInv'
           ImportRow == [status : {"none", "WAITING_DOCUMENT", "READY", "COMMITTED", "CANCELLED"},
                         gen : 0 .. MaxSessions, file : FileVersions]
           UploadRow == [at : {"idle", "downloading", "verifying"},
                         gen : 0 .. MaxSessions, file : FileVersions]
<1>0. MaxVersions \in Nat /\ MaxSessions \in Nat /\ FileVersions = 0 .. MaxVersions
  BY FileAssumption DEF FileVersions
<1>1. versions \in 0 .. MaxVersions /\ active \in 1 .. versions
  BY <1>0 DEF ArtifactInv
<1>2. importing \in ImportRow
  BY DEF ArtifactInv
<1>3. upload \in [Importers -> UploadRow]
  BY DEF ArtifactInv
<1>4. importing.status = "READY" => importing.file \in 1 .. versions
  BY DEF ArtifactInv
<1>5. importing.gen \in 0 .. MaxSessions /\ importing.file \in FileVersions
  BY <1>2
<1>6. Idle \in UploadRow
  BY <1>0 DEF Idle
<1>7. ASSUME NEW i \in Importers, NEW row \in UploadRow, upload' = [upload EXCEPT ![i] = row]
      PROVE upload' \in [Importers -> UploadRow]
  BY <1>3, <1>7
<1>8. ASSUME versions' \in 0 .. MaxVersions, active' \in 1 .. versions', importing' \in ImportRow,
             upload' \in [Importers -> UploadRow],
             importing'.status = "READY" => importing'.file \in 1 .. versions'
      PROVE Goal
  BY <1>0, <1>8 DEF ArtifactInv
<1> HIDE DEF Goal, ImportRow, UploadRow
<1>9. ASSUME StartImport PROVE Goal
  <2>1. importing' = [status |-> "WAITING_DOCUMENT", gen |-> importing.gen + 1, file |-> 0]
        /\ importing.gen < MaxSessions
    BY <1>9 DEF StartImport
  <2>2. importing' \in ImportRow /\ importing'.status # "READY"
    BY <1>0, <1>5, <2>1 DEF ImportRow
  <2> QED
    BY <1>1, <1>3, <1>8, <1>9, <2>2 DEF StartImport
<1>10. ASSUME CancelImport PROVE Goal
  <2>1. importing' = [importing EXCEPT !.status = "CANCELLED", !.file = 0]
    BY <1>10 DEF CancelImport
  <2>2. importing' = [status |-> "CANCELLED", gen |-> importing.gen, file |-> 0]
    BY <1>2, <2>1 DEF ImportRow
  <2>3. 0 \in FileVersions
    BY <1>0
  <2>4. importing' \in ImportRow /\ importing'.status # "READY"
    BY <1>5, <2>2, <2>3 DEF ImportRow
  <2> QED
    BY <1>1, <1>3, <1>8, <1>10, <2>4 DEF CancelImport
<1>11. ASSUME NEW i \in Importers, NEW what \in {"downloading", "verifying"}, NEW file \in FileVersions,
              Pressed(i, what, file)
       PROVE Goal
  <2>1. [at |-> what, gen |-> importing.gen, file |-> file] \in UploadRow
    BY <1>5 DEF UploadRow
  <2>2. upload' = [upload EXCEPT ![i] = [at |-> what, gen |-> importing.gen, file |-> file]]
    BY <1>11 DEF Pressed
  <2>3. upload' \in [Importers -> UploadRow]
    BY <1>7, <2>1, <2>2
  <2> QED
    BY <1>1, <1>2, <1>4, <1>8, <1>11, <2>3 DEF Pressed
<1>12. ASSUME NEW i \in Importers, StageDocument(i) PROVE Goal
  <2>1. upload' = [upload EXCEPT ![i] = Idle] /\ active' = active
    BY <1>12 DEF StageDocument
  <2>2. upload' \in [Importers -> UploadRow]
    BY <1>6, <1>7, <2>1
  <2>3. CASE versions' = versions /\ importing' = importing
    BY <1>1, <1>2, <1>4, <1>8, <2>1, <2>2, <2>3
  <2>4. CASE /\ versions' = versions + 1 /\ versions + 1 <= MaxVersions
             /\ importing' = [importing EXCEPT !.status = "READY", !.file = versions + 1]
    <3>1. versions' \in 0 .. MaxVersions /\ active' \in 1 .. versions'
      BY <1>0, <1>1, <2>1, <2>4
    <3>2. versions + 1 \in FileVersions
      BY <1>0, <1>1, <2>4
    <3>3. importing' \in ImportRow /\ importing'.file = versions'
      BY <1>2, <2>4, <3>2 DEF ImportRow
    <3>4. importing'.file \in 1 .. versions'
      BY <1>0, <1>1, <2>4, <3>3
    <3> QED
      BY <1>8, <2>2, <3>1, <3>3, <3>4
  <2> QED
    BY <1>12, <2>3, <2>4 DEF StageDocument
<1>13. ASSUME NEW i \in Importers, ActivateStaged(i) PROVE Goal
  <2>1. upload' = [upload EXCEPT ![i] = Idle] /\ versions' = versions
    BY <1>13 DEF ActivateStaged
  <2>2. upload' \in [Importers -> UploadRow]
    BY <1>6, <1>7, <2>1
  <2>3. CASE active' = active /\ importing' = importing
    BY <1>1, <1>2, <1>4, <1>8, <2>1, <2>2, <2>3
  <2>4. CASE IsStaged(upload[i]) /\ active' = upload[i].file
             /\ importing' = [importing EXCEPT !.status = "COMMITTED"]
    <3>1. active' \in 1 .. versions'
      BY <1>4, <2>1, <2>4 DEF IsStaged
    <3>2. importing' \in ImportRow /\ importing'.status # "READY"
      BY <1>2, <2>4 DEF ImportRow
    <3> QED
      BY <1>1, <1>8, <2>1, <2>2, <3>1, <3>2
  <2> QED
    BY <1>13, <2>3, <2>4 DEF ActivateStaged
<1>14. ASSUME NEW i \in Importers, DownloadDocument(i) \/ VerifyStaged(i) PROVE Goal
  <2>1. 0 \in FileVersions
    BY <1>0
  <2> QED
    BY <1>5, <1>11, <1>14, <2>1 DEF DownloadDocument, VerifyStaged
<1> QED
  BY <1>9, <1>10, <1>12, <1>13, <1>14 DEF ArtifactNext, Goal

\* The facts of JobInv that the steps use, one by one.
LEMMA JobFacts ==
  ASSUME JobInv
  PROVE  /\ fileJob \in FileJobRow /\ fileJob.gen \in Nat /\ mishaps \in Nat /\ IsFiniteSet(Sending)
         /\ Cardinality(Sending) \in Nat
         /\ fileRun \in [FileRuns -> FileRunRow]
         /\ copies \in [1 .. MaxVersions -> Nat]
         /\ fileJob.status # "none" => copies[fileJob.file] \in Nat
         /\ \A r \in FileRuns : fileRun[r] \in FileRunRow /\ fileRun[r].gen \in Nat
<1>1. JobTypeOK /\ IsFiniteSet(Sending)
  BY DEF JobInv, ClaimsAreFenced
<1>2. Cardinality(Sending) \in Nat
  BY <1>1, FS_CardinalityType
<1>3. fileJob \in FileJobRow /\ fileRun \in [FileRuns -> FileRunRow] /\ copies \in [1 .. MaxVersions -> Nat]
  BY <1>1 DEF JobTypeOK
<1>4. fileJob.gen \in Nat
  BY <1>3 DEF FileJobRow
<1>5. mishaps \in Nat
  BY <1>1, FileAssumption DEF JobTypeOK
<1>6. \A r \in FileRuns : fileRun[r] \in FileRunRow /\ fileRun[r].gen \in Nat
  BY <1>3 DEF FileRunRow
<1>7. fileJob.status # "none" => copies[fileJob.file] \in Nat
  BY <1>3 DEF JobInv, RunsOnTheJob
<1> QED
  BY <1>1, <1>2, <1>3, <1>4, <1>5, <1>6, <1>7

\* A run that only ends, or stays where it is, disturbs nothing that is said of the others.
LEMMA RunEndsStep ==
  ASSUME JobInv, NEW r \in FileRuns, RunEnds(r), UNCHANGED copies,
         fileJob'.gen = fileJob.gen, fileJob'.file = fileJob.file,
         fileJob'.status = "none" <=> fileJob.status = "none"
  PROVE  /\ fileRun' \in [FileRuns -> FileRunRow] /\ RunsOnTheJob' /\ ClaimsAreFenced'
         /\ \A s \in FileRuns : fileRun'[s] = IF s = r THEN Idle ELSE fileRun[s]
<1>0. Idle \in FileRunRow /\ Idle.at = "idle"
  BY FileAssumption DEF Idle, FileRunRow, FileVersions
<1>1. fileRun' = [fileRun EXCEPT ![r] = Idle] /\ JobTypeOK /\ IsFiniteSet(Sending)
  BY DEF RunEnds, JobInv, ClaimsAreFenced
<1>2. fileRun' \in [FileRuns -> FileRunRow] /\ \A s \in FileRuns : fileRun'[s] = IF s = r THEN Idle ELSE fileRun[s]
  BY <1>0, <1>1, JobFacts
<1>3. RunsOnTheJob'
  BY <1>0, <1>2 DEF JobInv, RunsOnTheJob
<1>4. /\ IsFiniteSet(Sending') /\ Cardinality(Sending) \in Nat /\ Cardinality(Sending') \in Nat
      /\ Cardinality(Sending') <= Cardinality(Sending)
  <2>1. /\ IsFiniteSet(Sending') /\ Cardinality(Sending) \in Nat /\ Cardinality(Sending') \in Nat
        /\ \/ Cardinality(Sending') = Cardinality(Sending) - 1
           \/ Cardinality(Sending') = Cardinality(Sending)
    BY <1>0, <1>1, SendingMoves
  <2> QED
    BY <2>1
<1>5. \A s \in FileRuns : Claimed(s)' => Claimed(s) /\ s # r
  BY <1>0, <1>2 DEF Claimed
<1>6. fileJob'.status # "none" => copies'[fileJob'.file] + Cardinality(Sending') <= fileJob'.gen
  <2> HAVE fileJob'.status # "none"
  <2>1. copies[fileJob.file] + Cardinality(Sending) <= fileJob.gen
    BY DEF JobInv, ClaimsAreFenced
  <2>2. copies[fileJob.file] \in Nat /\ fileJob.gen \in Nat
    BY JobFacts
  <2> QED
    BY <1>4, <2>1, <2>2
<1>7. ClaimsAreFenced'
  BY <1>2, <1>4, <1>5, <1>6, <1>0 DEF JobInv, ClaimsAreFenced
<1> QED
  BY <1>2, <1>3, <1>7

LEMMA QueueStep ==
  ASSUME JobInv, ArtifactInv, NEW r \in FileRuns, QueueFileDelivery(r)
  PROVE  JobInv'
<1> DEFINE new == [at |-> "queued", gen |-> 0, file |-> fileJob'.file]
<1>0. MaxVersions \in Nat /\ active \in 1 .. MaxVersions /\ active \in FileVersions
  BY FileAssumption DEF ArtifactInv, FileVersions
<1>1. /\ fileRun[r].at = "idle" /\ fileRun' = [fileRun EXCEPT ![r] = new]
      /\ UNCHANGED <<jobLeased, fileOrder, paidEvent, copies, mishaps>>
      /\ \/ fileJob.status # "none" /\ UNCHANGED fileJob
         \/ /\ fileJob.status = "none" /\ fileOrder = "PAID"
            /\ fileJob' = [status |-> "QUEUED", file |-> active, gen |-> 0]
  BY DEF QueueFileDelivery
<1>2. fileJob' \in FileJobRow /\ fileJob'.status # "none" /\ fileJob'.gen = fileJob.gen
      /\ fileJob'.file \in 1 .. MaxVersions
  <2>1. CASE UNCHANGED fileJob /\ fileJob.status # "none"
    BY <2>1, JobFacts DEF JobInv, RunsOnTheJob
  <2>2. CASE fileJob.status = "none" /\ fileJob' = [status |-> "QUEUED", file |-> active, gen |-> 0]
    BY <1>0, <2>2 DEF JobInv, RunsOnTheJob, FileJobRow
  <2> QED
    BY <1>1, <2>1, <2>2
<1>3. new \in FileRunRow /\ new.at = "queued" /\ new.file = fileJob'.file
  BY <1>2 DEF FileRunRow, FileJobRow
<1> HIDE DEF new
<1>4. fileRun' \in [FileRuns -> FileRunRow] /\ \A s \in FileRuns : fileRun'[s] = IF s = r THEN new ELSE fileRun[s]
  BY <1>1, <1>3, JobFacts
<1>5. JobTypeOK'
  BY <1>1, <1>2, <1>4 DEF JobInv, JobTypeOK
<1>6. fileJob.status # "none" => fileJob' = fileJob
  BY <1>1
<1>7. RunsOnTheJob'
  BY <1>1, <1>2, <1>3, <1>4, <1>6 DEF JobInv, RunsOnTheJob
<1>8. IsFiniteSet(Sending') /\ Cardinality(Sending') = Cardinality(Sending)
  BY <1>1, <1>3, SendingMoves DEF JobInv, ClaimsAreFenced
<1>9. \A s \in FileRuns : Claimed(s)' => Claimed(s) /\ s # r
  BY <1>3, <1>4 DEF Claimed
<1>10. copies'[fileJob'.file] + Cardinality(Sending') <= fileJob'.gen
  <2>1. CASE fileJob.status # "none"
    BY <1>1, <1>6, <1>8, <2>1 DEF JobInv, ClaimsAreFenced
  <2>2. CASE fileJob.status = "none"
    <3>1. fileJob.gen = 0 /\ copies[fileJob'.file] = 0 /\ Sending = {}
      BY <1>2, <2>2 DEF JobInv, RunsOnTheJob, Sending
    <3> QED
      BY <1>1, <1>2, <1>8, <3>1, FS_EmptySet
  <2> QED
    BY <2>1, <2>2
<1>11. \A s \in FileRuns : Claimed(s) => fileJob' = fileJob
  BY <1>6 DEF Claimed, JobInv, RunsOnTheJob
<1>12. ClaimsAreFenced'
  BY <1>1, <1>2, <1>4, <1>8, <1>9, <1>10, <1>11 DEF JobInv, ClaimsAreFenced, Claimed
<1>13. ClaimsArePaidFor'
  <2>1. CASE fileJob.status # "none"
    <3>1. \A s \in FileRuns : fileRun'[s].at = "refused" => fileRun'[s] = fileRun[s]
      BY <1>3, <1>4
    <3> QED
      BY <1>1, <1>6, <2>1, <3>1 DEF JobInv, ClaimsArePaidFor, IsClaimableJob, HoldsJob
  <2>2. CASE fileJob.status = "none"
    <3>1. fileJob'.gen = 0
      BY <1>2, <2>2 DEF JobInv, RunsOnTheJob
    <3> QED
      BY <1>1, <3>1, JobFacts DEF ClaimsArePaidFor
  <2> QED
    BY <2>1, <2>2
<1>14. SentAsFrozen'
  <2>1. CASE fileJob.status # "none"
    BY <1>1, <1>6, <2>1 DEF JobInv, SentAsFrozen
  <2>2. CASE fileJob.status = "none"
    <3>1. \A v \in 1 .. MaxVersions : copies[v] = 0
      BY <2>2 DEF JobInv, RunsOnTheJob
    <3>2. fileOrder = "PAID" /\ fileJob'.status = "QUEUED"
      BY <1>1, <2>2
    <3> QED
      BY <1>1, <3>1, <3>2 DEF JobInv, SentAsFrozen
  <2> QED
    BY <2>1, <2>2
<1> QED
  BY <1>5, <1>7, <1>12, <1>13, <1>14 DEF JobInv

LEMMA ClaimStep ==
  ASSUME JobInv, NEW r \in FileRuns, ClaimFileJob(r)
  PROVE  JobInv'
<1> DEFINE Goal == JobInv'
<1>0. /\ fileRun[r].at = "queued" /\ fileJob.status # "none"
      /\ UNCHANGED <<fileOrder, copies, mishaps>>
  BY DEF ClaimFileJob, JobInv, RunsOnTheJob
<1>1. ASSUME RunEnds(r), UNCHANGED <<fileJob, jobLeased>>,
             paidEvent' = paidEvent \/ (paidEvent' = FALSE /\ fileJob.status = "SENT")
      PROVE  Goal
  <2>1. /\ fileRun' \in [FileRuns -> FileRunRow] /\ RunsOnTheJob' /\ ClaimsAreFenced'
        /\ \A s \in FileRuns : fileRun'[s] = IF s = r THEN Idle ELSE fileRun[s]
    BY <1>0, <1>1, RunEndsStep
  <2>2. JobTypeOK'
    BY <1>0, <1>1, <2>1 DEF JobInv, JobTypeOK
  <2>3. SentAsFrozen'
    BY <1>0, <1>1 DEF JobInv, SentAsFrozen
  <2>4. \A s \in FileRuns : fileRun'[s].at = "refused" => fileRun'[s] = fileRun[s]
    BY <2>1 DEF Idle
  <2>5. ClaimsArePaidFor'
    BY <1>0, <1>1, <2>4 DEF JobInv, ClaimsArePaidFor, IsClaimableJob, HoldsJob
  <2> QED
    BY <2>1, <2>2, <2>3, <2>5 DEF JobInv
<1>2. ASSUME IsClaimableJob, fileJob' = [fileJob EXCEPT !.status = "PROCESSING", !.gen = @ + 1],
             jobLeased' = TRUE, UNCHANGED paidEvent,
             fileRun' = [fileRun EXCEPT ![r] = [at |-> "sending", gen |-> fileJob'.gen, file |-> fileRun[r].file]]
      PROVE  Goal
  <2> DEFINE new == [at |-> "sending", gen |-> fileJob.gen + 1, file |-> fileRun[r].file]
  <2>1. /\ fileJob' \in FileJobRow /\ fileJob'.status = "PROCESSING" /\ fileJob'.gen = fileJob.gen + 1
        /\ fileJob'.file = fileJob.file
    <3>1. fileJob \in FileJobRow /\ fileJob.gen \in Nat
      BY JobFacts
    <3>2. fileJob' = [status |-> "PROCESSING", file |-> fileJob.file, gen |-> fileJob.gen + 1]
      BY <1>2, <3>1 DEF FileJobRow
    <3>3. fileJob.file \in FileVersions /\ fileJob.gen + 1 \in Nat
      BY <3>1 DEF FileJobRow
    <3> QED
      BY <3>2, <3>3 DEF FileJobRow
  <2>2. new \in FileRunRow /\ new.at = "sending" /\ new.gen = fileJob.gen + 1 /\ new.file = fileRun[r].file
    <3>1. fileRun[r] \in FileRunRow /\ fileJob.gen \in Nat
      BY JobFacts
    <3> QED
      BY <3>1 DEF FileRunRow
  <2>3. fileRun' = [fileRun EXCEPT ![r] = new]
    BY <1>2, <2>1
  <2> HIDE DEF new
  <2>4. fileRun' \in [FileRuns -> FileRunRow] /\ \A s \in FileRuns : fileRun'[s] = IF s = r THEN new ELSE fileRun[s]
    BY <2>2, <2>3, JobFacts
  <2>5. JobTypeOK'
    BY <1>0, <1>2, <2>1, <2>4 DEF JobInv, JobTypeOK
  <2>6. RunsOnTheJob'
    BY <1>0, <2>1, <2>2, <2>4 DEF JobInv, RunsOnTheJob
  <2>7. IsFiniteSet(Sending') /\ Cardinality(Sending') = Cardinality(Sending) + 1
    BY <1>0, <2>2, <2>3, SendingMoves DEF JobInv, ClaimsAreFenced
  <2>8. \A s \in FileRuns : Claimed(s)' /\ s # r => Claimed(s) /\ fileRun'[s] = fileRun[s]
    BY <2>4 DEF Claimed
  <2>9. \A s \in FileRuns : Claimed(s) => fileRun[s].gen \in 1 .. fileJob.gen
    BY DEF JobInv, ClaimsAreFenced
  <2>10. fileJob.gen \in Nat /\ mishaps \in Nat /\ copies[fileJob.file] \in Nat /\ Cardinality(Sending) \in Nat
    BY <1>0, JobFacts
  <2>11. \A s \in FileRuns : Claimed(s)' => fileRun'[s].gen \in 1 .. fileJob'.gen
    BY <2>1, <2>2, <2>4, <2>8, <2>9, <2>10
  <2>12. ASSUME NEW s \in FileRuns, NEW t \in FileRuns, Claimed(s)', Claimed(t)',
                fileRun'[s].gen = fileRun'[t].gen
         PROVE  s = t
    <3>1. CASE s # r /\ t # r
      BY <2>8, <2>12, <3>1 DEF JobInv, ClaimsAreFenced
    <3>2. CASE s = r /\ t # r
      BY <2>2, <2>4, <2>8, <2>9, <2>10, <2>12, <3>2
    <3>3. CASE s # r /\ t = r
      BY <2>2, <2>4, <2>8, <2>9, <2>10, <2>12, <3>3
    <3> QED
      BY <3>1, <3>2, <3>3
  <2>13. \A s \in FileRuns : fileRun'[s].at = "answered" => copies'[fileJob'.file] > 0
    BY <1>0, <2>1, <2>2, <2>4 DEF JobInv, ClaimsAreFenced
  <2>14. copies'[fileJob'.file] + Cardinality(Sending') <= fileJob'.gen
    <3>1. copies[fileJob.file] + Cardinality(Sending) <= fileJob.gen
      BY <1>0 DEF JobInv, ClaimsAreFenced
    <3> QED
      BY <1>0, <2>1, <2>7, <2>10, <3>1
  <2>15. ClaimsAreFenced'
    BY <2>7, <2>11, <2>12, <2>13, <2>14 DEF ClaimsAreFenced
  <2>16. ClaimsArePaidFor'
    <3>1. fileJob'.gen <= 1 + mishaps'
      BY <1>0, <1>2, <2>1, <2>10 DEF JobInv, ClaimsArePaidFor
    <3>2. ~IsClaimableJob'
      BY <1>2, <2>1 DEF IsClaimableJob
    <3>3. ASSUME NEW s \in FileRuns, fileRun'[s].at = "refused" PROVE ~HoldsJob(s)'
      <4>1. s # r /\ Claimed(s)'
        BY <2>2, <2>4, <3>3 DEF Claimed
      <4>2. fileRun'[s].gen \in 1 .. fileJob.gen
        BY <2>8, <2>9, <4>1
      <4> QED
        BY <2>1, <2>10, <4>2 DEF HoldsJob
    <3> QED
      BY <3>1, <3>2, <3>3 DEF ClaimsArePaidFor
  <2>17. SentAsFrozen'
    <3>1. fileJob.status # "SENT"
      BY <1>2 DEF IsClaimableJob
    <3> QED
      BY <1>0, <1>2, <2>1, <3>1 DEF JobInv, SentAsFrozen
  <2> QED
    BY <2>5, <2>6, <2>15, <2>16, <2>17 DEF JobInv
<1> HIDE DEF Goal
<1> QED
  BY <1>1, <1>2 DEF ClaimFileJob, Goal

LEMMA SendStep ==
  ASSUME JobInv, NEW r \in FileRuns, SendDocument(r)
  PROVE  JobInv'
<1> DEFINE v == fileRun[r].file
<1>0. /\ fileRun[r].at = "sending" /\ v = fileJob.file /\ v \in 1 .. MaxVersions
      /\ fileJob.status # "none" /\ UNCHANGED <<fileJob, jobLeased, fileOrder, paidEvent>>
  BY DEF SendDocument, JobInv, RunsOnTheJob
<1> HIDE DEF v
<1>1. PICK at \in {"answered", "refused"} :
        /\ fileRun' = [fileRun EXCEPT ![r].at = at]
        /\ copies' = copies \/ copies' = [copies EXCEPT ![v] = @ + 1]
        /\ at = "answered" => copies' = [copies EXCEPT ![v] = @ + 1] /\ mishaps' = mishaps
        /\ at = "refused" => mishaps < MaxMishaps /\ mishaps' = mishaps + 1
  BY DEF SendDocument, v
<1>2. /\ copies \in [1 .. MaxVersions -> Nat] /\ mishaps \in Nat /\ fileJob.gen \in Nat
      /\ mishaps \in 0 .. MaxMishaps /\ MaxMishaps \in Nat
  BY JobFacts, FileAssumption DEF JobInv, JobTypeOK
<1> DEFINE new == [at |-> at, gen |-> fileRun[r].gen, file |-> fileRun[r].file]
<1>3. /\ new \in FileRunRow /\ new.at = at /\ new.gen = fileRun[r].gen /\ new.file = fileRun[r].file
      /\ fileRun' = [fileRun EXCEPT ![r] = new]
  <2>1. fileRun[r] \in FileRunRow /\ fileRun \in [FileRuns -> FileRunRow]
    BY JobFacts
  <2>2. [fileRun[r] EXCEPT !.at = at] = new
    BY <2>1 DEF FileRunRow
  <2>3. fileRun' = [fileRun EXCEPT ![r] = [fileRun[r] EXCEPT !.at = at]]
    BY <1>1, <2>1
  <2>4. new \in FileRunRow
    BY <2>1 DEF FileRunRow
  <2> QED
    BY <2>2, <2>3, <2>4
<1> HIDE DEF new
<1>4. fileRun' \in [FileRuns -> FileRunRow] /\ \A s \in FileRuns : fileRun'[s] = IF s = r THEN new ELSE fileRun[s]
  BY <1>3, JobFacts
<1>5. /\ copies' \in [1 .. MaxVersions -> Nat] /\ \A w \in 1 .. MaxVersions : w # v => copies'[w] = copies[w]
      /\ copies'[v] \in Nat /\ copies'[v] \in copies[v] .. (copies[v] + 1)
      /\ at = "answered" => copies'[v] > 0
  <2>1. copies[v] \in Nat
    BY <1>0, <1>2
  <2>2. CASE copies' = copies /\ at # "answered"
    BY <1>0, <1>2, <2>1, <2>2
  <2>3. CASE copies' = [copies EXCEPT ![v] = @ + 1]
    <3>1. copies'[v] = copies[v] + 1
      BY <1>0, <1>2, <2>3
    <3>2. copies' \in [1 .. MaxVersions -> Nat] /\ \A w \in 1 .. MaxVersions : w # v => copies'[w] = copies[w]
      BY <1>0, <1>2, <2>1, <2>3
    <3> QED
      BY <2>1, <3>1, <3>2
  <2> QED
    BY <1>1, <2>2, <2>3
<1>6. mishaps' \in 0 .. MaxMishaps /\ mishaps' \in Nat /\ mishaps' >= mishaps
  BY <1>1, <1>2
<1>7. JobTypeOK'
  BY <1>0, <1>4, <1>5, <1>6 DEF JobInv, JobTypeOK
<1>8. RunsOnTheJob'
  BY <1>0, <1>3, <1>4 DEF JobInv, RunsOnTheJob
<1>9. \A s \in FileRuns : Claimed(s)' => Claimed(s) /\ fileRun'[s].gen = fileRun[s].gen
  BY <1>0, <1>3, <1>4 DEF Claimed
<1>10. /\ IsFiniteSet(Sending') /\ Cardinality(Sending') = Cardinality(Sending) - 1
       /\ Cardinality(Sending) \in Nat /\ Cardinality(Sending') \in Nat
  BY <1>0, <1>1, <1>3, SendingMoves DEF JobInv, ClaimsAreFenced
<1>11. copies'[fileJob'.file] + Cardinality(Sending') <= fileJob'.gen
  <2>1. copies[fileJob.file] + Cardinality(Sending) <= fileJob.gen
    BY <1>0 DEF JobInv, ClaimsAreFenced
  <2>2. copies[fileJob.file] \in Nat
    BY <1>0, <1>2
  <2> QED
    BY <1>0, <1>2, <1>5, <1>10, <2>1, <2>2
<1>12. \A s \in FileRuns : fileRun'[s].at = "answered" => copies'[fileJob'.file] > 0
  <2>1. copies[v] > 0 => copies'[v] > 0
    BY <1>0, <1>2, <1>5
  <2> QED
    BY <1>0, <1>3, <1>4, <1>5, <2>1 DEF JobInv, ClaimsAreFenced
<1>13. ClaimsAreFenced'
  BY <1>0, <1>9, <1>10, <1>11, <1>12 DEF JobInv, ClaimsAreFenced
<1>14. fileJob.gen <= 1 + mishaps
  BY DEF JobInv, ClaimsArePaidFor
<1>15. ClaimsArePaidFor'
  <2>1. CASE at = "refused"
    <3>1. fileJob'.gen <= mishaps'
      BY <1>0, <1>1, <1>2, <1>14, <2>1
    <3> QED
      BY <1>0, <1>2, <1>6, <3>1 DEF ClaimsArePaidFor
  <2>2. CASE at = "answered"
    <3>1. \A s \in FileRuns : fileRun'[s].at = "refused" => fileRun'[s] = fileRun[s]
      BY <1>3, <1>4, <2>2
    <3> QED
      BY <1>0, <1>1, <2>2, <3>1 DEF JobInv, ClaimsArePaidFor, IsClaimableJob, HoldsJob
  <2> QED
    BY <2>1, <2>2
<1>16. SentAsFrozen'
  <2>1. copies'[v] <= 1 + mishaps'
    BY <1>0, <1>2, <1>5, <1>6, <1>10, <1>11, <1>14
  <2>2. \A w \in 1 .. MaxVersions : copies'[w] > 0 => w = fileJob'.file /\ copies'[w] <= 1 + mishaps'
    BY <1>0, <1>5, <2>1 DEF JobInv, SentAsFrozen
  <2>3. copies[v] > 0 => copies'[v] > 0
    BY <1>0, <1>2, <1>5
  <2> QED
    BY <1>0, <2>2, <2>3 DEF JobInv, SentAsFrozen
<1> QED
  BY <1>7, <1>8, <1>13, <1>15, <1>16 DEF JobInv

LEMMA FailedStep ==
  ASSUME JobInv, NEW r \in FileRuns, MarkProcessingFailed(r)
  PROVE  JobInv'
<1>0. /\ fileRun[r].at = "refused" /\ RunEnds(r) /\ UNCHANGED <<fileOrder, paidEvent, copies, mishaps>>
      /\ fileJob' = IF HoldsJob(r) THEN [fileJob EXCEPT !.status = "FAILED"] ELSE fileJob
      /\ jobLeased' = (jobLeased /\ ~HoldsJob(r))
  BY DEF MarkProcessingFailed
<1>1. fileJob \in FileJobRow /\ fileJob.gen \in Nat
  BY JobFacts
<1>2. /\ fileJob' \in FileJobRow /\ fileJob'.gen = fileJob.gen /\ fileJob'.file = fileJob.file
      /\ fileJob'.status = IF HoldsJob(r) THEN "FAILED" ELSE fileJob.status
  BY <1>0, <1>1 DEF FileJobRow
<1>3. HoldsJob(r) => fileJob.status = "PROCESSING"
  BY DEF HoldsJob
<1>4. /\ fileRun' \in [FileRuns -> FileRunRow] /\ RunsOnTheJob' /\ ClaimsAreFenced'
      /\ \A s \in FileRuns : fileRun'[s] = IF s = r THEN Idle ELSE fileRun[s]
  BY <1>0, <1>2, <1>3, RunEndsStep
<1>5. JobTypeOK'
  BY <1>0, <1>2, <1>4 DEF JobInv, JobTypeOK
<1>6. SentAsFrozen'
  BY <1>0, <1>2, <1>3 DEF JobInv, SentAsFrozen
<1>7. \A s \in FileRuns : fileRun'[s].at = "refused" => fileRun'[s] = fileRun[s]
  BY <1>4 DEF Idle
<1>8. ClaimsArePaidFor'
  <2>1. CASE HoldsJob(r)
    <3>1. fileJob'.gen <= mishaps' /\ fileJob'.gen <= 1 + mishaps'
      BY <1>0, <1>2, <2>1 DEF JobInv, ClaimsArePaidFor
    <3> QED
      BY <3>1 DEF ClaimsArePaidFor
  <2>2. CASE ~HoldsJob(r)
    <3>1. fileJob' = fileJob /\ (jobLeased' <=> jobLeased)
      BY <1>0, <2>2
    <3> QED
      BY <1>0, <1>7, <3>1 DEF JobInv, ClaimsArePaidFor, IsClaimableJob, HoldsJob
  <2> QED
    BY <2>1, <2>2
<1> QED
  BY <1>4, <1>5, <1>6, <1>8 DEF JobInv

LEMMA RecordStep ==
  ASSUME JobInv, NEW r \in FileRuns, RecordSent(r)
  PROVE  JobInv'
<1>0. /\ fileRun[r].at = "answered" /\ RunEnds(r) /\ UNCHANGED <<copies, mishaps>>
      /\ \/ /\ HoldsJob(r)
            /\ fileJob' = [fileJob EXCEPT !.status = "SENT"] /\ jobLeased' = FALSE
            /\ fileOrder' = "COMPLETED" /\ paidEvent' = FALSE
         \/ ~HoldsJob(r) /\ UNCHANGED <<fileJob, jobLeased, fileOrder, paidEvent>>
  BY DEF RecordSent
<1>1. fileJob \in FileJobRow /\ fileJob.gen \in Nat
  BY JobFacts
<1>2. /\ fileJob' \in FileJobRow /\ fileJob'.gen = fileJob.gen /\ fileJob'.file = fileJob.file
      /\ HoldsJob(r) => fileJob'.status = "SENT"
  BY <1>0, <1>1 DEF FileJobRow
<1>3. HoldsJob(r) => fileJob.status = "PROCESSING"
  BY DEF HoldsJob
<1>4. fileJob'.status = "none" <=> fileJob.status = "none"
  BY <1>0, <1>2, <1>3
<1>5. /\ fileRun' \in [FileRuns -> FileRunRow] /\ RunsOnTheJob' /\ ClaimsAreFenced'
      /\ \A s \in FileRuns : fileRun'[s] = IF s = r THEN Idle ELSE fileRun[s]
  BY <1>0, <1>2, <1>4, RunEndsStep
<1>6. \A s \in FileRuns : fileRun'[s].at = "refused" => fileRun'[s] = fileRun[s]
  BY <1>5 DEF Idle
<1>7. CASE HoldsJob(r)
  <2>1. /\ fileJob'.status = "SENT" /\ jobLeased' = FALSE /\ fileOrder' = "COMPLETED" /\ paidEvent' = FALSE
    BY <1>0, <1>2, <1>7
  <2>2. JobTypeOK'
    BY <1>0, <1>2, <1>5, <2>1 DEF JobInv, JobTypeOK
  <2>3. copies'[fileJob'.file] > 0
    BY <1>0, <1>2 DEF JobInv, ClaimsAreFenced
  <2>4. SentAsFrozen'
    BY <1>0, <1>2, <2>1, <2>3 DEF JobInv, SentAsFrozen
  <2>5. ~IsClaimableJob' /\ \A s \in FileRuns : ~HoldsJob(s)'
    BY <2>1 DEF IsClaimableJob, HoldsJob
  <2>6. fileJob'.gen <= 1 + mishaps'
    BY <1>0, <1>2 DEF JobInv, ClaimsArePaidFor
  <2>7. ClaimsArePaidFor'
    BY <2>5, <2>6 DEF ClaimsArePaidFor
  <2> QED
    BY <1>5, <2>2, <2>4, <2>7 DEF JobInv
<1>8. CASE ~HoldsJob(r)
  <2>1. UNCHANGED <<fileJob, jobLeased, fileOrder, paidEvent>>
    BY <1>0, <1>8
  <2>2. JobTypeOK' /\ SentAsFrozen'
    BY <1>0, <1>5, <2>1 DEF JobInv, JobTypeOK, SentAsFrozen
  <2>3. ClaimsArePaidFor'
    BY <1>0, <1>6, <2>1 DEF JobInv, ClaimsArePaidFor, IsClaimableJob, HoldsJob
  <2> QED
    BY <1>5, <2>2, <2>3 DEF JobInv
<1> QED
  BY <1>7, <1>8

LEMMA MishapStep ==
  ASSUME JobInv, JobLeaseLapses \/ \E r \in FileRuns : FileRunDies(r)
  PROVE  JobInv'
<1>0. /\ UNCHANGED <<fileJob, fileOrder, paidEvent, copies>> /\ mishaps < MaxMishaps /\ mishaps' = mishaps + 1
      /\ jobLeased' = jobLeased \/ jobLeased' = FALSE
  BY DEF JobLeaseLapses, FileRunDies, Mishap
<1>1. mishaps \in 0 .. MaxMishaps /\ MaxMishaps \in Nat /\ fileJob.gen \in Nat
  BY JobFacts, FileAssumption DEF JobInv, JobTypeOK
<1>2. mishaps' \in 0 .. MaxMishaps
  BY <1>0, <1>1
<1>3. fileRun' \in [FileRuns -> FileRunRow] /\ RunsOnTheJob' /\ ClaimsAreFenced'
  <2>1. CASE JobLeaseLapses
    <3>1. UNCHANGED <<fileRun, fileJob, copies>>
      BY <2>1 DEF JobLeaseLapses
    <3> QED
      BY <3>1 DEF JobInv, JobTypeOK, RunsOnTheJob, ClaimsAreFenced, Claimed, Sending
  <2>2. ASSUME NEW r \in FileRuns, FileRunDies(r)
        PROVE fileRun' \in [FileRuns -> FileRunRow] /\ RunsOnTheJob' /\ ClaimsAreFenced'
    <3>1. RunEnds(r)
      BY <2>2 DEF FileRunDies
    <3> QED
      BY <1>0, <3>1, RunEndsStep
  <2> QED
    BY <2>1, <2>2
<1>4. JobTypeOK'
  <2>0. jobLeased \in BOOLEAN /\ (jobLeased => fileJob.status = "PROCESSING")
    BY DEF JobInv, JobTypeOK
  <2>1. jobLeased' \in BOOLEAN /\ (jobLeased' => fileJob'.status = "PROCESSING")
    <3>1. CASE jobLeased' = FALSE
      BY <3>1
    <3>2. CASE jobLeased' = jobLeased
      BY <1>0, <2>0, <3>2
    <3> QED
      BY <1>0, <3>1, <3>2
  <2>2. fileJob' \in FileJobRow /\ fileOrder' \in {"PAID", "COMPLETED"} /\ paidEvent' \in BOOLEAN
        /\ copies' \in [1 .. MaxVersions -> Nat]
    BY <1>0 DEF JobInv, JobTypeOK
  <2> QED
    BY <1>2, <1>3, <2>1, <2>2 DEF JobTypeOK
<1>5. fileJob'.gen <= mishaps'
  BY <1>0, <1>1 DEF JobInv, ClaimsArePaidFor
<1>6. ClaimsArePaidFor'
  BY <1>0, <1>1, <1>5 DEF ClaimsArePaidFor
<1>7. SentAsFrozen'
  <2>1. ASSUME NEW v \in 1 .. MaxVersions, copies[v] > 0
        PROVE v = fileJob.file /\ copies[v] <= 1 + mishaps'
    <3>1. v = fileJob.file /\ copies[v] <= 1 + mishaps /\ copies[v] \in Nat
      BY <2>1, JobFacts DEF JobInv, SentAsFrozen
    <3> QED
      BY <1>0, <1>1, <3>1
  <2> QED
    BY <1>0, <2>1 DEF JobInv, SentAsFrozen
<1> QED
  BY <1>3, <1>4, <1>6, <1>7 DEF JobInv

LEMMA JobStep ==
  ASSUME JobInv, ArtifactInv, JobNext
  PROVE  JobInv'
BY QueueStep, ClaimStep, SendStep, FailedStep, RecordStep, MishapStep DEF JobNext

LEMMA NextFile ==
  ASSUME FileInv, [FileNext]_fileVars
  PROVE  FileInv'
<1>1. ArtifactInv /\ JobInv
  BY FileInvParts
<1>2. UNCHANGED artifactVars => ArtifactInv'
  BY <1>1 DEF artifactVars, ArtifactInv
<1>3. ASSUME UNCHANGED jobVars PROVE JobInv'
  <2> USE <1>1, <1>3 DEF jobVars, JobInv
  <2>1. JobTypeOK' /\ RunsOnTheJob' /\ SentAsFrozen'
    BY DEF JobTypeOK, RunsOnTheJob, SentAsFrozen
  <2>2. ClaimsAreFenced' /\ ClaimsArePaidFor'
    BY DEF ClaimsAreFenced, ClaimsArePaidFor, Claimed, Sending, IsClaimableJob, HoldsJob
  <2> QED
    BY <2>1, <2>2
<1>4. ArtifactInv' /\ JobInv'
  <2>1. CASE ArtifactNext
    BY <1>1, <1>3, <2>1, ArtifactStep, FileNextParts
  <2>2. CASE JobNext
    BY <1>1, <1>2, <2>2, JobStep, FileNextParts
  <2>3. CASE UNCHANGED fileVars
    BY <1>2, <1>3, <2>3 DEF fileVars
  <2> QED
    BY <2>1, <2>2, <2>3, FileNextParts
<1>5. (FileInv <=> ArtifactInv /\ JobInv)'
  BY FileInvParts, PTL
<1> QED
  BY <1>4, <1>5

\* The active version changes only under the session that staged it.
LEMMA ActivationStep ==
  ASSUME [FileNext]_fileVars, active' # active
  PROVE  active' = importing.file /\ importing.status = "READY"
<1>1. ArtifactNext
  BY FileNextParts DEF fileVars, artifactVars
<1>2. PICK i \in Importers : ActivateStaged(i)
  BY <1>1 DEF ArtifactNext, StartImport, CancelImport, DownloadDocument, StageDocument, VerifyStaged, Pressed
<1> QED
  BY <1>2 DEF ActivateStaged, IsStaged

(* Every claim of a file's job has a generation of its own and sends at most once, and *)
(* every claim but the first was paid for by a mishap: the inductive invariant of       *)
(* file-delivery.ts and file-artifact-import-session.ts.                                *)
THEOREM FileInvariant == FileSpec => []FileInv
  BY InitFile, NextFile, PTL DEF FileSpec

(* For any runs, presses, versions and bounds: the buyer gets the version frozen for    *)
(* the order and no other, a copy more only for a mishap, the order is complete exactly *)
(* when a send was recorded, and the active version only ever changes to the one the    *)
(* owner's session holds ready.                                                        *)
THEOREM FileSentAsConfirmed == FileSpec => FileIsWhatWasConfirmed
<1>1. FileInv => FileIsSentAsFrozen
  BY DEF FileInv
<1>2. [FileNext]_fileVars
        => [active' # active => active' = importing.file /\ importing.status = "READY"]_fileVars
  BY ActivationStep
<1> QED
  BY <1>1, <1>2, FileInvariant, PTL DEF FileSpec, FileIsWhatWasConfirmed

=============================================================================
