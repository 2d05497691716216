---------------------------- MODULE FileDelivery ----------------------------
(***************************************************************************)
(* A paid file: the versions of it the owner imports and activates          *)
(* (file-artifact-import-session.ts), the job that freezes one of them for  *)
(* an order, and the runs of its OrderPaid event that send it               *)
(* (file-delivery.ts).  The jobs of different orders share nothing but the  *)
(* versions, so there is one.  The event's lease (60 s) is shorter than the *)
(* job's (300 s), so runs of the event may overlap; what a run sends and     *)
(* what it learns of it are two things.  Whether Telegram is given bytes or  *)
(* the file_id it knows is left out.                                        *)
(***************************************************************************)
EXTENDS Naturals, FiniteSets

CONSTANTS FileRuns,     \* runs of the order's OrderPaid handler
          Importers,    \* presses of the owner: a document sent, a confirm button
          MaxVersions,  \* bound: versions imported
          MaxSessions,  \* bound: import sessions begun
          MaxMishaps    \* bound: sends that fail, leases that lapse, runs that die

ASSUME FileAssumption ==
  /\ MaxVersions \in Nat \ {0} /\ MaxSessions \in Nat /\ MaxMishaps \in Nat

VARIABLES versions,     \* variant_file_artifact.version of the newest row
          active,       \* the version with is_active
          importing,    \* admin_file_artifact_import: status, generation, version
          upload,       \* an upload between its read and its transaction
          fileJob,      \* file_delivery_job: status, version, claim_generation
          jobLeased,    \* processing_expires_at is ahead
          fileOrder,    \* "order".status
          paidEvent,    \* its OrderPaid is unpublished
          fileRun,      \* a run: what it does next, the version and generation it holds
          copies,       \* versions that reached the buyer, once per message
          mishaps

artifactVars == <<versions, active, importing, upload>>
jobVars == <<fileJob, jobLeased, fileOrder, paidEvent, fileRun, copies, mishaps>>
fileVars == <<artifactVars, jobVars>>

FileVersions == 0 .. MaxVersions
Idle == [at |-> "idle", gen |-> 0, file |-> 0]

FileTypeOK ==
  /\ versions \in FileVersions /\ active \in 1 .. versions
  /\ importing \in [status : {"none", "WAITING_DOCUMENT", "READY", "COMMITTED", "CANCELLED"},
                    gen : 0 .. MaxSessions, file : FileVersions]
  /\ upload \in [Importers -> [at : {"idle", "downloading", "verifying"},
                              gen : 0 .. MaxSessions, file : FileVersions]]
  /\ fileJob \in [status : {"none", "QUEUED", "PROCESSING", "SENT", "FAILED"},
                  file : FileVersions, gen : Nat]
  /\ jobLeased \in BOOLEAN /\ (jobLeased => fileJob.status = "PROCESSING")
  /\ fileOrder \in {"PAID", "COMPLETED"}
  /\ paidEvent \in BOOLEAN
  /\ fileRun \in [FileRuns -> [at : {"idle", "queued", "sending", "answered", "refused"},
                               gen : Nat, file : FileVersions]]
  /\ copies \in [1 .. MaxVersions -> Nat]
  /\ mishaps \in 0 .. MaxMishaps

\* The product was created with its first version, which is active.
FileInit ==
  /\ versions = 1 /\ active = 1
  /\ importing = [status |-> "none", gen |-> 0, file |-> 0]
  /\ upload = [i \in Importers |-> Idle]
  /\ fileJob = [status |-> "none", file |-> 0, gen |-> 0] /\ jobLeased = FALSE
  /\ fileOrder = "PAID" /\ paidEvent = TRUE
  /\ fileRun = [r \in FileRuns |-> Idle]
  /\ copies = [v \in 1 .. MaxVersions |-> 0] /\ mishaps = 0

-----------------------------------------------------------------------------
(* The owner imports a version.                                             *)

\* A new session takes the owner's row over, whatever the last one had come to.
StartImport ==
  /\ importing.gen < MaxSessions
  /\ importing' = [status |-> "WAITING_DOCUMENT", gen |-> importing.gen + 1, file |-> 0]
  /\ UNCHANGED <<versions, active, upload, jobVars>>

CancelImport ==
  /\ importing.status \in {"WAITING_DOCUMENT", "READY"}
  /\ importing' = [importing EXCEPT !.status = "CANCELLED", !.file = 0]
  /\ UNCHANGED <<versions, active, upload, jobVars>>

Pressed(i, what, file) ==
  /\ upload[i] = Idle
  /\ upload' = [upload EXCEPT ![i] = [at |-> what, gen |-> importing.gen, file |-> file]]
  /\ UNCHANGED <<versions, active, importing, jobVars>>

\* stageFileArtifactDocument: the document is downloaded between the two reads
\* of the session.
DownloadDocument(i) ==
  importing.status = "WAITING_DOCUMENT" /\ Pressed(i, "downloading", 0)

StageDocument(i) ==
  LET new == versions + 1 IN
  /\ upload[i].at = "downloading"
  /\ upload' = [upload EXCEPT ![i] = Idle]
  /\ IF importing.status = "WAITING_DOCUMENT" /\ importing.gen = upload[i].gen
     THEN /\ new <= MaxVersions
          /\ versions' = new
          /\ importing' = [importing EXCEPT !.status = "READY", !.file = new]
     ELSE UNCHANGED <<versions, importing>>
  /\ UNCHANGED <<active, jobVars>>

\* confirmFileArtifactImportSession: the button names the session, its
\* generation and the version; the stored file is verified between two reads.
VerifyStaged(i) ==
  importing.status = "READY" /\ Pressed(i, "verifying", importing.file)

\* Mutant: the session is not read again after the verification.
ActivateVerified(i) ==
  /\ upload[i].at = "verifying"
  /\ upload' = [upload EXCEPT ![i] = Idle]
  /\ active' = upload[i].file
  /\ importing' = [importing EXCEPT !.status = "COMMITTED"]
  /\ UNCHANGED <<versions, jobVars>>

IsStaged(p) ==
  importing = [status |-> "READY", gen |-> p.gen, file |-> p.file]

ActivateStaged(i) ==
  /\ upload[i].at = "verifying"
  /\ upload' = [upload EXCEPT ![i] = Idle]
  /\ IF IsStaged(upload[i])
     THEN /\ active' = upload[i].file
          /\ importing' = [importing EXCEPT !.status = "COMMITTED"]
     ELSE UNCHANGED <<active, importing>>
  /\ UNCHANGED <<versions, jobVars>>

-----------------------------------------------------------------------------
(* A run of OrderPaid.                                                      *)

\* A run that ends without success leaves the event to be retried.
RunEnds(r) == fileRun' = [fileRun EXCEPT ![r] = Idle]

\* The job is made once, of the version that is active then.
QueueFileDelivery(r) ==
  /\ paidEvent /\ fileRun[r].at = "idle"
  /\ \/ fileJob.status # "none" /\ UNCHANGED fileJob
     \/ /\ fileJob.status = "none" /\ fileOrder = "PAID"
        /\ fileJob' = [status |-> "QUEUED", file |-> active, gen |-> 0]
  /\ fileRun' = [fileRun EXCEPT ![r] = [at |-> "queued", gen |-> 0, file |-> fileJob'.file]]
  /\ UNCHANGED <<artifactVars, jobLeased, fileOrder, paidEvent, copies, mishaps>>

\* Mutant: a job being sent is claimed though its lease is fresh.
ClaimableUnsent == fileJob.status \in {"QUEUED", "FAILED", "PROCESSING"}

IsClaimableJob == fileJob.status \in {"QUEUED", "FAILED"} \/ (fileJob.status = "PROCESSING" /\ ~jobLeased)

\* processFileDelivery's claim.  A job already SENT lets the event be published.
ClaimFileJob(r) ==
  /\ fileRun[r].at = "queued"
  /\ \/ /\ fileJob.status = "SENT"
        /\ RunEnds(r) /\ paidEvent' = FALSE /\ UNCHANGED <<fileJob, jobLeased>>
     \/ /\ fileJob.status # "SENT" /\ ~IsClaimableJob
        /\ RunEnds(r) /\ UNCHANGED <<fileJob, jobLeased, paidEvent>>
     \/ /\ IsClaimableJob
        /\ fileJob' = [fileJob EXCEPT !.status = "PROCESSING", !.gen = @ + 1]
        /\ jobLeased' = TRUE
        /\ fileRun' = [fileRun EXCEPT ![r] = [at |-> "sending", gen |-> fileJob'.gen, file |-> fileRun[r].file]]
        /\ UNCHANGED paidEvent
  /\ UNCHANGED <<artifactVars, fileOrder, copies, mishaps>>

\* By the cached file_id, or by bytes whose size and hash are checked.  It may
\* arrive though the call fails; what does not pass the check is not sent.
SendDocument(r) ==
  LET v == fileRun[r].file IN
  /\ fileRun[r].at = "sending"
  /\ \/ /\ copies' = [copies EXCEPT ![v] = @ + 1]
        /\ fileRun' = [fileRun EXCEPT ![r].at = "answered"] /\ UNCHANGED mishaps
     \/ /\ mishaps < MaxMishaps /\ mishaps' = mishaps + 1
        /\ copies' \in {copies, [copies EXCEPT ![v] = @ + 1]}
        /\ fileRun' = [fileRun EXCEPT ![r].at = "refused"]
  /\ UNCHANGED <<artifactVars, fileJob, jobLeased, fileOrder, paidEvent>>

HoldsJob(r) == fileJob.status = "PROCESSING" /\ fileJob.gen = fileRun[r].gen

MarkProcessingFailed(r) ==
  /\ fileRun[r].at = "refused"
  /\ fileJob' = IF HoldsJob(r) THEN [fileJob EXCEPT !.status = "FAILED"] ELSE fileJob
  /\ jobLeased' = (jobLeased /\ ~HoldsJob(r))
  /\ RunEnds(r)
  /\ UNCHANGED <<artifactVars, fileOrder, paidEvent, copies, mishaps>>

\* Mutant: the order is completed by whoever has sent.
CompleteAnyway(r) ==
  /\ fileRun[r].at = "answered"
  /\ fileJob' = IF HoldsJob(r) THEN [fileJob EXCEPT !.status = "SENT"] ELSE fileJob
  /\ fileOrder' = "COMPLETED"
  /\ paidEvent' = (paidEvent /\ ~HoldsJob(r)) /\ jobLeased' = (jobLeased /\ ~HoldsJob(r))
  /\ RunEnds(r)
  /\ UNCHANGED <<artifactVars, copies, mishaps>>

\* The last transaction, fenced on the claim; the order goes through PROCESSING.
RecordSent(r) ==
  /\ fileRun[r].at = "answered"
  /\ \/ /\ HoldsJob(r)
        /\ fileJob' = [fileJob EXCEPT !.status = "SENT"] /\ jobLeased' = FALSE
        /\ fileOrder' = "COMPLETED" /\ paidEvent' = FALSE
     \/ ~HoldsJob(r) /\ UNCHANGED <<fileJob, jobLeased, fileOrder, paidEvent>>
  /\ RunEnds(r)
  /\ UNCHANGED <<artifactVars, copies, mishaps>>

Mishap == mishaps < MaxMishaps /\ mishaps' = mishaps + 1

FileRunDies(r) ==
  /\ fileRun[r].at # "idle" /\ Mishap /\ RunEnds(r)
  /\ UNCHANGED <<artifactVars, fileJob, jobLeased, fileOrder, paidEvent, copies>>

JobLeaseLapses ==
  /\ jobLeased /\ Mishap /\ jobLeased' = FALSE
  /\ UNCHANGED <<artifactVars, fileJob, fileOrder, paidEvent, fileRun, copies>>

FileNext ==
  \/ StartImport \/ CancelImport \/ JobLeaseLapses
  \/ \E i \in Importers :
       DownloadDocument(i) \/ StageDocument(i) \/ VerifyStaged(i) \/ ActivateStaged(i)
  \/ \E r \in FileRuns :
       \/ QueueFileDelivery(r) \/ ClaimFileJob(r) \/ SendDocument(r)
       \/ MarkProcessingFailed(r) \/ RecordSent(r) \/ FileRunDies(r)

FileSpec == FileInit /\ [][FileNext]_fileVars

-----------------------------------------------------------------------------
(* The buyer gets the version that was frozen for the order and no other,   *)
(* and a copy more only for a send that failed, a lease that lapsed or a     *)
(* run that died; the order is complete exactly when a send was recorded.    *)
FileIsSentAsFrozen ==
  /\ FileTypeOK
  /\ \A v \in 1 .. MaxVersions : copies[v] > 0 => v = fileJob.file /\ copies[v] <= 1 + mishaps
  /\ fileOrder = "COMPLETED" <=> fileJob.status = "SENT"
  /\ fileOrder = "COMPLETED" => copies[fileJob.file] > 0
  /\ ~paidEvent => fileOrder = "COMPLETED"

(* The buyer gets one file, and it is what the owner last confirmed when the  *)
(* order was taken up: a version of a session that was cancelled or begun    *)
(* anew while its file was verified is never activated.                     *)
FileIsWhatWasConfirmed ==
  /\ []FileIsSentAsFrozen
  /\ [][active' # active => active' = importing.file /\ importing.status = "READY"]_fileVars
=============================================================================
