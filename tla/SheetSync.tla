----------------------------- MODULE SheetSync -----------------------------
(***************************************************************************)
(* The owner's workbook (google-sheets/requests.ts, projection.ts): rows of  *)
(* the Requests tab ask for a change of an asset, a pass of the sheets lane  *)
(* reads them, processes each in a transaction of its own and writes the     *)
(* outcomes back by position, while the owner types, sorts and clears rows,  *)
(* the shop moves the asset, and another process runs a pass of its own.     *)
(* The other tabs are overwritten from the database and read by nobody.      *)
(***************************************************************************)
EXTENDS Naturals, Sequences, FiniteSets, Functions

CONSTANTS SheetIds,    \* request_id
          Bodies,      \* what a row may ask: action and expected version
          SheetPasses, \* runs of the lane, one per process
          MaxEdits,    \* bound: edits of the tab by the owner
          MaxTarget,   \* bound: versions of the asset
          NoSheetId

\* A row that does not parse, and what is recorded of it.
Malformed == [action |-> "INVALID", version |-> 1]

ASSUME SheetAssumption ==
  /\ IsFiniteSet(SheetIds)
  /\ NoSheetId \notin SheetIds /\ MaxEdits \in Nat /\ MaxTarget \in Nat \ {0}
  /\ Bodies \subseteq
       [action : {"DISABLE_ASSET", "ENABLE_ASSET", "UPDATE_SAFE_NOTE", "FOREIGN", "INVALID"},
        version : 1 .. MaxTarget]

VARIABLES rows,    \* the Requests tab: id, body and the status cell of each row
          request, \* google_sheets_request: body and terminal status
          target,  \* the digital_asset the rows are about: status and version
          effects, \* every change a request made: its id, body and the version changed
          sheetPass, \* a pass: what it does next, and the rows and outcomes it read
          edits

sheetVars == <<rows, request, target, effects, sheetPass, edits>>

NoRequest == [body |-> Malformed, status |-> "none"]
Outside == [at |-> "idle", read |-> <<>>, outcomes |-> [q \in SheetIds |-> "none"]]
Outcomes == {"none", "SUCCEEDED", "REJECTED", "STALE"}

SheetTypeOK ==
  /\ \A i \in DOMAIN rows : rows[i] \in
       [id : SheetIds \cup {NoSheetId}, body : Bodies \cup {Malformed}, shown : Outcomes]
  /\ request \in [SheetIds -> [body : Bodies \cup {Malformed}, status : Outcomes]]
  /\ target \in [status : {"AVAILABLE", "RESERVED", "COMPROMISED"}, version : 1 .. MaxTarget]
  /\ effects \subseteq [id : SheetIds, body : Bodies, at : 1 .. MaxTarget]
  /\ \A p \in SheetPasses :
       /\ sheetPass[p].at \in {"idle", "requests", "rejecting", "tab", "write"}
       /\ sheetPass[p].outcomes \in [SheetIds -> Outcomes]
  /\ edits \in 0 .. MaxEdits

\* The owner has typed a row for each id before the first pass.
RowsAreTyped ==
  \E q \in Injection(1 .. Cardinality(SheetIds), SheetIds), body \in [SheetIds -> Bodies] :
    rows = [i \in DOMAIN q |-> [id |-> q[i], body |-> body[q[i]], shown |-> "none"]]

NothingRequested ==
  /\ request = [q \in SheetIds |-> NoRequest]
  /\ target = [status |-> "AVAILABLE", version |-> 1] /\ effects = {}
  /\ sheetPass = [p \in SheetPasses |-> Outside] /\ edits = 0

SheetInit == RowsAreTyped /\ NothingRequested

-----------------------------------------------------------------------------
(* The owner's hand on the tab, and the shop's on the asset.                *)

Edit(tab) ==
  /\ edits < MaxEdits /\ edits' = edits + 1
  /\ rows' = tab
  /\ UNCHANGED <<request, target, effects, sheetPass>>

TypeRow(q, body) == Edit(Append(rows, [id |-> q, body |-> body, shown |-> "none"]))
RetypeRow(i, body) == rows[i].body # body /\ Edit([rows EXCEPT ![i].body = body])
ClearRow(i) ==
  Edit([rows EXCEPT ![i] = [id |-> NoSheetId, body |-> Malformed, shown |-> "none"]])
SwapRows(i, j) == i < j /\ Edit([rows EXCEPT ![i] = rows[j], ![j] = rows[i]])

\* An order takes the asset, or gives it back.
MoveTarget ==
  /\ target.status \in {"AVAILABLE", "RESERVED"} /\ target.version < MaxTarget
  /\ target' = [status |-> IF target.status = "AVAILABLE" THEN "RESERVED" ELSE "AVAILABLE",
                version |-> target.version + 1]
  /\ UNCHANGED <<rows, request, effects, sheetPass, edits>>

-----------------------------------------------------------------------------
(* A pass: the requests.                                                    *)

Goes(p, state) == sheetPass' = [sheetPass EXCEPT ![p] = state]
Row(p) == Head(sheetPass[p].read)

\* parseRows skips a row without an id: the rows from the first with one on.
Parsed(read) ==
  IF \E i \in DOMAIN read : read[i].id # NoSheetId
  THEN LET first == CHOOSE i \in DOMAIN read :
             /\ read[i].id # NoSheetId
             /\ \A j \in 1 .. i - 1 : read[j].id = NoSheetId
       IN SubSeq(read, first, Len(read))
  ELSE <<>>

\* The lane is single-flight in its process.
ReadRequests(p) ==
  /\ sheetPass[p].at = "idle"
  /\ Goes(p, [Outside EXCEPT !.at = "requests",
                             !.read = Parsed(rows)])
  /\ UNCHANGED <<rows, request, target, effects, edits>>

Done(p) == Goes(p, [sheetPass[p] EXCEPT !.at = "requests", !.read = Parsed(Tail(@))])

Wanted(action) == IF action = "DISABLE_ASSET" THEN "COMPROMISED" ELSE "AVAILABLE"
From(action) == IF action = "DISABLE_ASSET" THEN "AVAILABLE" ELSE "COMPROMISED"

\* executeRequest: an outcome for the request, and what the asset becomes.
Applies(body) ==
  \/ body.action \in {"DISABLE_ASSET", "ENABLE_ASSET"} /\ target.status = From(body.action)
  \/ body.action = "UPDATE_SAFE_NOTE"

Verdict(body) ==
  IF body.action = "FOREIGN" THEN "REJECTED"
  ELSE IF body.version # target.version THEN "STALE"
  ELSE IF Applies(body) \/ target.status = Wanted(body.action) THEN "SUCCEEDED"
  ELSE "REJECTED"

\* Mutant: the version the owner saw is not compared.
EffectiveThoughStale(body) == body.action # "FOREIGN" /\ Applies(body)

IsEffective(body) == Verdict(body) = "SUCCEEDED" /\ Applies(body)

Execute(q, body) ==
  /\ request' = [request EXCEPT ![q] = [body |-> body, status |-> Verdict(body)]]
  /\ IF IsEffective(body)
     THEN /\ target.version < MaxTarget
          /\ target' = [status |-> IF body.action = "UPDATE_SAFE_NOTE" THEN target.status
                                   ELSE Wanted(body.action),
                        version |-> target.version + 1]
          /\ effects' = effects \cup {[id |-> q, body |-> body, at |-> target.version]}
     ELSE UNCHANGED <<target, effects>>

\* Mutant: only a success is final, so a stale or rejected row is tried again.
RecordedIfSucceeded(q) == request[q].status = "SUCCEEDED"

\* What is recorded is replayed or, for another content, refused as a conflict.
IsRecorded(q) == request[q].status # "none"

\* processParsedRequest, under the request's advisory lock.
ProcessRow(p) ==
  /\ sheetPass[p].at = "requests" /\ sheetPass[p].read # <<>> /\ Row(p).body # Malformed
  /\ IF IsRecorded(Row(p).id) THEN UNCHANGED <<request, target, effects>>
     ELSE Execute(Row(p).id, Row(p).body)
  /\ Done(p)
  /\ UNCHANGED <<rows, edits>>

\* The row does not parse, or its transaction throws and leaves nothing.
RowFails(p) ==
  /\ sheetPass[p].at = "requests" /\ sheetPass[p].read # <<>>
  /\ Goes(p, [sheetPass[p] EXCEPT !.at = "rejecting"])
  /\ UNCHANGED <<rows, request, target, effects, edits>>

\* Its transaction throws at the answer to the commit.
RowCommitsUnheard(p) ==
  /\ sheetPass[p].at = "requests" /\ sheetPass[p].read # <<>> /\ Row(p).body # Malformed
  /\ ~IsRecorded(Row(p).id) /\ Execute(Row(p).id, Row(p).body)
  /\ Goes(p, [sheetPass[p] EXCEPT !.at = "rejecting"])
  /\ UNCHANGED <<rows, edits>>

\* Mutant: the rejection is an upsert.
RejectAnyway(p) ==
  /\ sheetPass[p].at = "rejecting"
  /\ request' = [request EXCEPT ![Row(p).id] = [body |-> Malformed, status |-> "REJECTED"]]
  /\ Done(p)
  /\ UNCHANGED <<rows, target, effects, edits>>

\* persistRejectedSheetRow: a row that is recorded keeps its outcome.
PersistRejectedSheetRow(p) ==
  /\ sheetPass[p].at = "rejecting"
  /\ request' = IF IsRecorded(Row(p).id) THEN request
                ELSE [request EXCEPT ![Row(p).id] = [body |-> Malformed, status |-> "REJECTED"]]
  /\ Done(p)
  /\ UNCHANGED <<rows, target, effects, edits>>

-----------------------------------------------------------------------------
(* The same pass: the projection.                                           *)

ReadSnapshot(p) ==
  /\ sheetPass[p].at = "requests" /\ sheetPass[p].read = <<>>
  /\ Goes(p, [Outside EXCEPT !.at = "tab",
                             !.outcomes = [q \in SheetIds |-> request[q].status]])
  /\ UNCHANGED <<rows, request, target, effects, edits>>

ReadTab(p) ==
  /\ sheetPass[p].at = "tab"
  /\ Goes(p, [sheetPass[p] EXCEPT !.at = "write", !.read = rows])
  /\ UNCHANGED <<rows, request, target, effects, edits>>

\* buildRequestsProjectionPlan: the status cells of the rows that were read, by
\* position, where a repeated or unknown id keeps its cell; the requests that
\* had no row are appended below.
Cell(p, i) ==
  LET read == sheetPass[p].read
      q == read[i].id
      isFirst == \A j \in 1 .. i - 1 : read[j].id # q
  IN IF q # NoSheetId /\ isFirst /\ sheetPass[p].outcomes[q] # "none"
     THEN sheetPass[p].outcomes[q] ELSE read[i].shown

Unlisted(p) ==
  {q \in SheetIds : /\ sheetPass[p].outcomes[q] # "none"
                    /\ \A i \in DOMAIN sheetPass[p].read : sheetPass[p].read[i].id # q}

WriteTab(p) ==
  LET n == Len(sheetPass[p].read)
      m == Cardinality(Unlisted(p))
      length == IF n + m > Len(rows) THEN n + m ELSE Len(rows)
  IN
  /\ sheetPass[p].at = "write"
  /\ \E q \in Injection(1 .. m, Unlisted(p)) :
       rows' = [i \in 1 .. length |->
         CASE i <= n -> [rows[i] EXCEPT !.shown = Cell(p, i)]
           [] i > n /\ i <= n + m ->
                [id |-> q[i - n], body |-> request[q[i - n]].body,
                 shown |-> sheetPass[p].outcomes[q[i - n]]]
           [] OTHER -> rows[i]]
  /\ Goes(p, Outside)
  /\ UNCHANGED <<request, target, effects, edits>>

\* The workbook or the database does not answer: recordSheetsSyncFailure, and
\* the next pass starts over.
PassFails(p) ==
  /\ sheetPass[p].at # "idle" /\ Goes(p, Outside)
  /\ UNCHANGED <<rows, request, target, effects, edits>>

SheetNext ==
  \/ \E q \in SheetIds, body \in Bodies : TypeRow(q, body)
  \/ \E i \in DOMAIN rows :
       \/ ClearRow(i)
       \/ \E body \in Bodies : RetypeRow(i, body)
       \/ \E j \in DOMAIN rows : SwapRows(i, j)
  \/ MoveTarget
  \/ \E p \in SheetPasses :
       \/ ReadRequests(p) \/ ProcessRow(p) \/ RowFails(p) \/ RowCommitsUnheard(p)
       \/ PersistRejectedSheetRow(p)
       \/ ReadSnapshot(p) \/ ReadTab(p) \/ WriteTab(p) \/ PassFails(p)

SheetSpec == SheetInit /\ [][SheetNext]_sheetVars

-----------------------------------------------------------------------------
\* A request changed the asset once at most, from the version its row named, and
\* the content that is recorded for it is the one that did.
EffectsAreRecorded ==
  \A e \in effects :
    /\ request[e.id] = [body |-> e.body, status |-> "SUCCEEDED"]
    /\ e.body.version = e.at
    /\ \A f \in effects : e.id = f.id => e = f

\* However often a row is read, retyped, sorted, failed half-way or processed by
\* two passes, its request acts once, as recorded, and its outcome never changes.
RequestsActOnce ==
  [][/\ EffectsAreRecorded'
     /\ \A q \in SheetIds : request[q].status # "none" => request'[q] = request[q]]_sheetVars
=============================================================================
