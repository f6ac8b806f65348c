---------------------------- MODULE MediaImport ----------------------------
(***************************************************************************)
(* Importing one media file by name (files.ts), with the report mapping    *)
(* that says what it should contain, restarts (recover, http.ts) and the   *)
(* orderly stop of the server (lifecycle.ts, main.ts).                     *)
(*                                                                         *)
(* The server is one event loop.  Steps end where the code awaits: file    *)
(* operations, the two job queues, requests.  Everything between two       *)
(* awaits is one action; where it holds two transactions (AtAwait) it is   *)
(* two actions, and only a crash or a change on the disk falls between.    *)
(* The store is one record; commit may throw before or after the           *)
(* transaction became durable.  A file's fingerprint is its content, so    *)
(* contents of the same size stand for all others: a file of another size  *)
(* fails every check like one that cannot be read.                         *)
(***************************************************************************)
EXTENDS Integers, SequencesExt

CONSTANTS
    Imports,                     \* selections of a file with this name
    Contents, None,
    Reported,                    \* the content that the report names
    MaxStoreFaults, MaxFileFaults, MaxRestarts, MaxReports, MaxOpens  \* bounds

ASSUME ReportedAssumption == Reported \in Contents
ASSUME ImportsAssumption == IsFiniteSet(Imports)

Verdicts == {"verified", "mismatch"}
CopyStatuses == Verdicts \cup {"waiting_report", "verifying", "unavailable"}
Statuses == CopyStatuses \cup
    {"none", "uploading", "interrupted", "received", "duplicate", "conflict"}

(* The current copy.  The mapping is fixed once known (reports.ts), so     *)
(* verification keeps the verdict and verifiedAgainst that there is one.   *)
Videos == [id : Imports, content : Contents, status : CopyStatuses,
           verification : Verdicts \cup {None}, verifiedAgainst : BOOLEAN]
Part == "part"                  \* what a broken upload leaves on the disk
Anyone == "anyone"              \* for a transaction that no copy can refuse
NoVideo == [id |-> None, content |-> None, status |-> None,
            verification |-> None, verifiedAgainst |-> FALSE]

ASSUME NamesAssumption ==
    /\ None \notin Imports \cup Contents \cup Statuses \cup {Part}
    /\ Anyone \notin Imports

VARIABLES
    db,         \* imports, complete_files, videos and the mapping in the snapshot
    disk,       \* what each upload left on the disk, None if nothing
    hidden,     \* files that cannot be read at the moment
    phase,      \* "running", the three waits of a stop, "closed" or "down"
    queue, job, \* Files.queue and its running job
    reportQueue, reportAt,  \* Files.reportQueue and the step of its running job
    uploads, opening, served,   \* requests: uploads, a copy being opened, the last copy given
    workerError,
    storeFaults, fileFaults, restarts, reports, opens  \* counters for the bounds

jobs == <<queue, job>>
reporting == <<reportQueue, reportAt, reports>>
requests == <<uploads, opening, served, opens>>
disks == <<disk, hidden, fileFaults>>
vars == <<db, disks, phase, jobs, reporting, requests, workerError, storeFaults, restarts>>

Process(i) == [kind |-> "process", id |-> i]
Verify(i) == [kind |-> "verify", id |-> i]
NoJob == [kind |-> "none", id |-> None, at |-> "none",
          video |-> NoVideo, content |-> None, mapping |-> None]

TypeOK ==
    /\ db \in [imports : [Imports -> Statuses], mapping : {None, Reported},
               complete : [Imports -> {"none", "saved", "processed"}],
               video : Videos \cup {NoVideo}]
    /\ disk \in [Imports -> Contents \cup {None, Part}] /\ hidden \subseteq Imports
    /\ phase \in {"running", "requests", "reports", "media", "closed", "down"}
    /\ \A k \in DOMAIN queue : queue[k] \in [kind : {"process", "verify"}, id : Imports]
    /\ job.at \in {"none", "hash_new", "hash_old", "reject", "remove", "remove_then_verify",
                   "readable", "hash"}
    /\ job = NoJob \/ (job.id \in Imports /\ job.video \in Videos \cup {NoVideo})
    /\ \A k \in DOMAIN reportQueue : reportQueue[k] \in BOOLEAN
    /\ reportAt \in {"none", "merged", "marked"}
    /\ uploads \subseteq Imports
    /\ opening \in Videos \cup {NoVideo} /\ served \in Videos \cup {NoVideo}
    /\ workerError \in BOOLEAN

-----------------------------------------------------------------------------
(* The event loop.  Between the two transactions of one step no other      *)
(* code runs; requests are refused once the server is stopping.            *)
Alive == phase \in {"running", "requests", "reports", "media"}
AtAwait == job.at # "reject" /\ reportAt # "merged"
Up == Alive /\ AtAwait
Serving == phase = "running" /\ AtAwait

(* The store.                                                              *)
Readable(i) == disk[i] # None /\ i \notin hidden

SetImport(d, i, status) == [d EXCEPT !.imports[i] = status]
SetProcessed(d, i) == [d EXCEPT !.complete[i] = "processed"]
SlipWriteCurrent(d, video) == [d EXCEPT !.video = video]
writeCurrent(d, video) == [d EXCEPT !.video = video, !.imports[video.id] = video.status]
unavailable(d, video) == writeCurrent(d, [video EXCEPT !.status = "unavailable"])

(* commit: refused when the current copy is not the expected one; when the *)
(* transaction throws, it may have become durable, and if that cannot be   *)
(* verified the caller fails and workerError is set.                       *)
Commit(expected, new, result) ==
    \/ /\ expected # Anyone /\ db.video.id # expected /\ result = "refused"
       /\ UNCHANGED <<db, workerError, storeFaults>>
    \/ /\ expected \in {Anyone, db.video.id} /\ result = "saved" /\ db' = new
       /\ UNCHANGED <<workerError, storeFaults>>
    \/ /\ expected \in {Anyone, db.video.id} /\ result = "thrown" /\ db' \in {db, new}
       /\ storeFaults < MaxStoreFaults /\ storeFaults' = storeFaults + 1
       /\ workerError' = TRUE

Results == {"refused", "saved", "thrown"}
Finally(result, saved) == job' = IF result = "saved" THEN saved ELSE NoJob

-----------------------------------------------------------------------------
Init ==
    /\ db = [imports |-> [i \in Imports |-> "none"], mapping |-> None,
             complete |-> [i \in Imports |-> "none"], video |-> NoVideo]
    /\ disk = [i \in Imports |-> None] /\ hidden = {}
    /\ phase = "running" /\ queue = <<>> /\ job = NoJob
    /\ reportQueue = <<>> /\ reportAt = "none"
    /\ uploads = {} /\ opening = NoVideo /\ served = NoVideo /\ workerError = FALSE
    /\ storeFaults = 0 /\ fileFaults = 0 /\ restarts = 0 /\ reports = 0 /\ opens = 0

createBatch(i) ==
    /\ Serving /\ db.imports[i] = "none"
    /\ db' = SetImport(db, i, "uploading")
    /\ UNCHANGED <<disks, phase, jobs, reporting, requests, workerError, storeFaults, restarts>>

upload(i) ==
    /\ Serving /\ db.imports[i] = "uploading" /\ i \notin uploads
    /\ uploads' = uploads \cup {i}
    /\ UNCHANGED <<db, disks, phase, jobs, reporting, opening, served, opens, workerError,
                   storeFaults, restarts>>

(* The stream ended and the file is synced: registered, then queued.  The  *)
(* part file is opened with flag wx, so a second attempt always fails.     *)
UploadCompletes(i) ==
    /\ Up /\ i \in uploads /\ uploads' = uploads \ {i} /\ disk[i] = None
    /\ \E content \in Contents : disk' = [disk EXCEPT ![i] = content]
    /\ \E result \in Results :
         /\ Commit(Anyone, SetImport([db EXCEPT !.complete[i] = "saved"], i, "received"), result)
         /\ queue' = IF result = "saved" THEN Append(queue, Process(i)) ELSE queue
    /\ UNCHANGED <<hidden, fileFaults, phase, job, reporting, opening, served, opens, restarts>>

(* The stream broke; failUpload does the same for one that never started.  *)
(* Either way the reports of the batch are looked at again.                *)
Interrupted(i) ==
    \E result \in Results :
      /\ Commit(Anyone, SetImport(db, i, "interrupted"), result)
      /\ reportQueue' = IF result = "saved" THEN Append(reportQueue, FALSE) ELSE reportQueue

UploadFails(i) ==
    /\ Up /\ i \in uploads /\ uploads' = uploads \ {i}
    /\ \E left \in {disk[i], Part} : disk' = [disk EXCEPT ![i] = IF @ = None THEN left ELSE @]
    /\ \/ Interrupted(i)
       \/ /\ storeFaults < MaxStoreFaults /\ storeFaults' = storeFaults + 1  \* saving bytesReceived
          /\ UNCHANGED <<db, reportQueue, workerError>>
    /\ UNCHANGED <<hidden, fileFaults, phase, jobs, reportAt, reports, opening, served, opens,
                   restarts>>

failUpload(i) ==
    /\ Serving /\ i \notin uploads
    /\ db.imports[i] = "uploading" /\ db.complete[i] = "none" /\ Interrupted(i)
    /\ UNCHANGED <<disks, phase, jobs, reportAt, reports, requests, restarts>>

(* openVideo: admitted, then the file is tried, then admitted once more.   *)
Playable(video) ==
    /\ video.status = "verified" /\ video.verifiedAgainst
    /\ db.mapping # None

openVideo ==
    /\ Serving /\ opening = NoVideo /\ opens < MaxOpens /\ opens' = opens + 1
    /\ db.video # NoVideo /\ Playable(db.video) /\ opening' = db.video
    /\ UNCHANGED <<db, disks, phase, jobs, reporting, uploads, served, workerError,
                   storeFaults, restarts>>

SlipAdmitted(video) == db.video.id = video.id
Admitted(video) == db.video.id = video.id /\ Playable(db.video)

VideoOpened ==
    /\ Up /\ opening # NoVideo /\ Readable(opening.id) /\ opening' = NoVideo
    /\ served' = IF Admitted(opening) THEN db.video ELSE served
    /\ UNCHANGED <<db, disks, phase, jobs, reporting, uploads, opens, workerError,
                   storeFaults, restarts>>

VideoUnreadable ==
    /\ Up /\ opening # NoVideo /\ ~Readable(opening.id) /\ opening' = NoVideo
    /\ \E result \in Results : Commit(opening.id, unavailable(db, opening), result)
    /\ UNCHANGED <<disks, phase, jobs, reporting, uploads, served, opens, restarts>>

-----------------------------------------------------------------------------
(* The media queue: one job at a time, each a chain of awaits.             *)
media == <<disks, phase, reporting, requests, restarts>>

(* verifyCurrent up to its first await.                                    *)
StartVerify(d, i) ==
    IF d.video.id = i
    THEN [NoJob EXCEPT !.kind = "verify", !.id = i, !.at = "readable", !.video = d.video]
    ELSE NoJob

StartJob ==
    /\ Up /\ job = NoJob /\ queue # <<>> /\ queue' = Tail(queue)
    /\ LET next == Head(queue)
       IN job' = CASE next.kind = "verify" -> StartVerify(db, next.id)
                   [] next.kind = "process" /\ db.complete[next.id] = "processed" -> NoJob
                   [] OTHER -> [NoJob EXCEPT !.kind = "process", !.id = next.id, !.at = "hash_new"]
    /\ UNCHANGED <<db, media, workerError, storeFaults>>

Judged(i, content, mapping) ==
    LET verdict == IF content = mapping THEN "verified" ELSE "mismatch"
    IN [id |-> i, content |-> content,
        status |-> IF mapping = None THEN "waiting_report" ELSE verdict,
        verification |-> IF mapping = None THEN None ELSE verdict,
        verifiedAgainst |-> mapping # None /\ content = mapping]

(* processVideo after the fingerprint of the new file: without a previous  *)
(* copy it becomes the current one at once, otherwise mapping and previous *)
(* are remembered across the fingerprint of the old file.                  *)
NewCopy(i, content, mapping) == SetProcessed(writeCurrent(db, Judged(i, content, mapping)), i)

HashNewFails ==
    /\ Up /\ job.at = "hash_new" /\ ~Readable(job.id)
    /\ \E result \in Results : Commit(Anyone, SetImport(db, job.id, "unavailable"), result)
    /\ job' = NoJob /\ UNCHANGED <<queue, media>>

HashNew ==
    /\ Up /\ job.at = "hash_new" /\ Readable(job.id)
    /\ LET content == disk[job.id]
       IN IF db.video = NoVideo
          THEN \E result \in Results :
                 Commit(None, NewCopy(job.id, content, db.mapping), result) /\ job' = NoJob
          ELSE /\ job' = [job EXCEPT !.at = "hash_old", !.video = db.video, !.content = content,
                                     !.mapping = db.mapping]
               /\ UNCHANGED <<db, workerError, storeFaults>>
    /\ UNCHANGED <<queue, media>>

(* The old file cannot be read or contradicts its record.                  *)
Contradicts(video, content) ==
    \/ content # video.content
    \/ video.verification # None
         /\ (content = db.mapping) # (video.verification = "verified")
    \/ video.verifiedAgainst /\ content # db.mapping

HashOldFails ==
    /\ Up /\ job.at = "hash_old"
    /\ ~Readable(job.video.id) \/ Contradicts(job.video, disk[job.video.id])
    /\ \E result \in Results :
         /\ Commit(job.video.id, unavailable(db, job.video), result)
         /\ job' = IF result = "thrown" THEN NoJob ELSE [job EXCEPT !.at = "reject"]
    /\ UNCHANGED <<queue, media>>

Reject ==
    /\ Alive /\ job.at = "reject" /\ job' = NoJob
    /\ \E result \in Results :
         Commit(job.video.id, SetImport(db, job.id, "unavailable"), result)
    /\ UNCHANGED <<queue, media>>

(* The same content again, a rival that may not replace the current copy,  *)
(* or the right copy for a wrong one.                                      *)
SlipRival(old, new, mapping) == old = mapping
Rival(old, new, mapping) == mapping = None \/ new # mapping \/ old = mapping

(* removeTemporary, asked right after the commit: never the file of the    *)
(* current copy, never one that is still to be processed.                  *)
Removable(d, i) == d.video.id # i /\ d.complete[i] = "processed"

Removal(i) ==
    IF Removable(db', i) THEN [NoJob EXCEPT !.kind = "process", !.at = "remove", !.id = i]
    ELSE NoJob

HashOld ==
    /\ Up /\ job.at = "hash_old" /\ Readable(job.video.id)
    /\ LET i == job.id
           old == disk[job.video.id]
           new == job.content
           Settle(status) == SetProcessed(SetImport(db, i, status), i)
       IN /\ ~Contradicts(job.video, old)
          /\ \E result \in Results :
               \/ /\ old = new
                  /\ Commit(job.video.id, Settle("duplicate"), result)
                  /\ Finally(result,
                       IF Removable(db', i) THEN [job EXCEPT !.at = "remove_then_verify"]
                       ELSE StartVerify(db', job.video.id))
               \/ /\ old # new /\ Rival(old, new, job.mapping)
                  /\ Commit(job.video.id, Settle("conflict"), result)
                  /\ Finally(result, Removal(i))
               \/ /\ old # new /\ ~Rival(old, new, job.mapping)
                  /\ Commit(job.video.id, NewCopy(i, new, job.mapping), result)
                  /\ Finally(result, Removal(job.video.id))
    /\ UNCHANGED <<queue, media>>

(* A failing unlink is recorded and passed over.                           *)
RemoveFile ==
    /\ Up /\ job.at \in {"remove", "remove_then_verify"}
    /\ \/ /\ disk' = [disk EXCEPT ![job.id] = None]
          /\ UNCHANGED <<workerError, fileFaults>>
       \/ /\ fileFaults < MaxFileFaults /\ fileFaults' = fileFaults + 1
          /\ workerError' = TRUE /\ UNCHANGED disk
    /\ job' = IF job.at = "remove" THEN NoJob ELSE StartVerify(db, job.video.id)
    /\ UNCHANGED <<db, queue, hidden, phase, reporting, requests, storeFaults, restarts>>

(* verifyCurrent.  video is the record read before the await.              *)
FileUnreadable ==
    /\ Up /\ job' = NoJob
    /\ \/ job.at = "readable" /\ ~Readable(job.video.id)
       \/ job.at = "hash" /\ (~Readable(job.video.id) \/ disk[job.video.id] # job.video.content)
    /\ \E result \in Results : Commit(job.video.id, unavailable(db, job.video), result)
    /\ UNCHANGED <<queue, media>>

FileReadable ==
    /\ Up /\ job.at = "readable" /\ Readable(job.video.id)
    /\ LET video == job.video
           Become(status) == writeCurrent(db, [video EXCEPT !.status = status])
       IN \/ /\ db.video.id # job.id /\ job' = NoJob /\ UNCHANGED <<db, workerError, storeFaults>>
          \/ /\ db.video.id = job.id /\ video.verification # None /\ db.mapping # None
             /\ IF video.status # video.verification
                THEN \E result \in Results : Commit(job.id, Become(video.verification), result)
                ELSE UNCHANGED <<db, workerError, storeFaults>>
             /\ job' = NoJob
          \/ /\ db.video.id = job.id /\ video.verification = None /\ video.status \notin Verdicts
             /\ IF db.mapping = None
                THEN /\ \E result \in Results : Commit(job.id, Become("waiting_report"), result)
                     /\ job' = NoJob
                ELSE \E result \in Results :
                       /\ Commit(job.id, Become("verifying"), result)
                       /\ Finally(result, [job EXCEPT !.at = "hash", !.mapping = db.mapping])
    /\ UNCHANGED <<queue, media>>

HashCurrent ==
    /\ Up /\ job.at = "hash" /\ Readable(job.video.id) /\ disk[job.video.id] = job.video.content
    /\ \E result \in Results :
         Commit(job.id, writeCurrent(db, Judged(job.id, job.video.content, job.mapping)), result)
    /\ job' = NoJob /\ UNCHANGED <<queue, media>>

-----------------------------------------------------------------------------
(* The report queue.  A job that brings the mapping of this file, or one   *)
(* that does not: merged in a transaction, the batch marked, its files     *)
(* cleaned up, and then every copy that waits is queued for verification.  *)
ReportArrives ==
    /\ AtAwait /\ phase \in {"running", "requests"}
    /\ reports < MaxReports /\ reports' = reports + 1
    /\ \E brings \in BOOLEAN : reportQueue' = Append(reportQueue, brings)
    /\ UNCHANGED <<db, disks, phase, jobs, reportAt, requests, workerError, storeFaults, restarts>>

MergeReport ==
    /\ Up /\ reportAt = "none" /\ reportQueue # <<>>
    /\ \/ /\ db' = IF Head(reportQueue) THEN [db EXCEPT !.mapping = Reported] ELSE db
          /\ reportAt' = "merged"
          /\ UNCHANGED <<workerError, storeFaults, reportQueue>>
       \/ /\ storeFaults < MaxStoreFaults /\ storeFaults' = storeFaults + 1
          /\ workerError' = TRUE /\ reportAt' = "none" /\ reportQueue' = Tail(reportQueue)
          /\ UNCHANGED db
    /\ UNCHANGED <<disks, phase, jobs, reports, requests, restarts>>

FinishBatch ==
    /\ Alive /\ reportAt = "merged"
    /\ \/ reportAt' = "marked" /\ UNCHANGED <<reportQueue, workerError, storeFaults>>
       \/ /\ storeFaults < MaxStoreFaults /\ storeFaults' = storeFaults + 1
          /\ workerError' = TRUE /\ reportAt' = "none" /\ reportQueue' = Tail(reportQueue)
    /\ UNCHANGED <<db, disks, phase, jobs, reports, requests, restarts>>

CopiesToVerify ==
    IF db.video.status \in {"waiting_report", "unavailable"} THEN <<Verify(db.video.id)>> ELSE <<>>

QueueVerification ==
    /\ Up /\ reportAt = "marked" /\ reportAt' = "none" /\ reportQueue' = Tail(reportQueue)
    /\ queue' = queue \o CopiesToVerify
    /\ UNCHANGED <<db, disks, phase, job, reports, requests, workerError, storeFaults, restarts>>

-----------------------------------------------------------------------------
(* Stop: no new requests; the running ones end, then one queue is awaited  *)
(* and then the other; then the store is closed.                           *)
RequestsIdle == uploads = {} /\ opening = NoVideo
ReportsIdle == reportQueue = <<>> /\ reportAt = "none"
MediaIdle == queue = <<>> /\ job = NoJob

Idle == [requests |-> RequestsIdle, reports |-> ReportsIdle, media |-> MediaIdle]

SlipAfter ==
    [running |-> "requests", requests |-> "media", media |-> "reports", reports |-> "closed"]
After == [running |-> "requests", requests |-> "reports", reports |-> "media", media |-> "closed"]

Stopping ==
    /\ Up /\ phase' = After[phase]
    /\ IF phase = "running" THEN restarts < MaxRestarts ELSE Idle[phase]
    /\ UNCHANGED <<db, disks, jobs, reporting, requests, workerError, storeFaults, restarts>>

Crash ==
    /\ Alive /\ restarts < MaxRestarts /\ phase' = "down"
    /\ UNCHANGED <<db, disks, jobs, reporting, requests, workerError, storeFaults, restarts>>

(* recover: unfinished copies are processed again, unfinished uploads are  *)
(* given up, and the current copy is looked at.                            *)
Unprocessed == {i \in Imports : db.complete[i] = "saved"}

Recovered == [db EXCEPT !.imports = [i \in Imports |->
    IF @[i] = "uploading" /\ i \notin Unprocessed THEN "interrupted" ELSE @[i]]]

SlipRecoveryJobs(unprocessed) == IF db.video = NoVideo THEN <<>> ELSE <<Verify(db.video.id)>>
RecoveryJobs(unprocessed) ==
    [k \in DOMAIN unprocessed |-> Process(unprocessed[k])]
      \o (IF db.video = NoVideo THEN <<>> ELSE <<Verify(db.video.id)>>)

Start ==
    /\ phase \in {"closed", "down"} /\ phase' = "running" /\ restarts' = restarts + 1
    /\ db' = Recovered
    /\ \E unprocessed \in SetToSeqs(Unprocessed) : queue' = RecoveryJobs(unprocessed)
    /\ job' = NoJob /\ reportQueue' = <<>> /\ reportAt' = "none"
    /\ uploads' = {} /\ opening' = NoVideo /\ workerError' = FALSE
    /\ UNCHANGED <<disks, reports, served, opens, storeFaults>>

(* POST /api/initialize on a store that is there already: recover runs     *)
(* again beside everything else.                                           *)
Initialize ==
    /\ Serving /\ restarts < MaxRestarts /\ restarts' = restarts + 1
    /\ db' = Recovered
    /\ \E unprocessed \in SetToSeqs(Unprocessed) : queue' = queue \o RecoveryJobs(unprocessed)
    /\ UNCHANGED <<disks, phase, job, reporting, requests, workerError, storeFaults>>

(* A file becomes unreadable and readable again, or its bytes change.      *)
Vanish(i) ==
    /\ fileFaults < MaxFileFaults /\ fileFaults' = fileFaults + 1
    /\ Readable(i) /\ db.complete[i] # "none"
    /\ \/ hidden' = hidden \cup {i} /\ UNCHANGED disk
       \/ \E content \in Contents \ {disk[i]} :
            disk' = [disk EXCEPT ![i] = content] /\ UNCHANGED hidden
    /\ UNCHANGED <<db, phase, jobs, reporting, requests, workerError, storeFaults, restarts>>

Return(i) ==
    /\ i \in hidden /\ hidden' = hidden \ {i}
    /\ UNCHANGED <<db, disk, fileFaults, phase, jobs, reporting, requests, workerError,
                   storeFaults, restarts>>

MediaJob ==
    \/ StartJob \/ HashNewFails \/ HashNew \/ HashOldFails \/ Reject \/ HashOld
    \/ RemoveFile \/ FileUnreadable \/ FileReadable \/ HashCurrent
ReportJob == MergeReport \/ FinishBatch \/ QueueVerification
Request == VideoOpened \/ VideoUnreadable \/ \E i \in Imports : UploadCompletes(i) \/ UploadFails(i)

Next ==
    \/ \E i \in Imports : createBatch(i) \/ upload(i) \/ failUpload(i) \/ Vanish(i) \/ Return(i)
    \/ openVideo \/ ReportArrives \/ Initialize
    \/ MediaJob \/ ReportJob \/ Request
    \/ Stopping \/ Crash \/ Start

Spec == Init /\ [][Next]_vars

(* The event loop runs what is ready and file operations return; a server  *)
(* that is down is started again.  Users need not do anything.             *)
FairSpec ==
    Spec /\ WF_vars(MediaJob) /\ WF_vars(ReportJob) /\ WF_vars(Request) /\ WF_vars(Start)

-----------------------------------------------------------------------------
(* What the records say of the current copy is true in every state a crash *)
(* can leave behind: a verdict was made against the mapping and is the     *)
(* right one for the recorded content, the import's own record tells the   *)
(* same, and its file and those still to be processed were not removed     *)
(* (writeCurrent, processVideo, removeTemporary).                          *)
VerdictIsRight ==
    db.video.verification # None =>
      db.mapping # None /\ (db.video.verification = "verified") = (db.video.content = db.mapping)

StatusFollows ==
    /\ db.video.status \in Verdicts => db.video.status = db.video.verification
    /\ db.video.verifiedAgainst = (db.video.verification = "verified")

RecordsAgree == db.video # NoVideo => db.imports[db.video.id] = db.video.status

FilesKept ==
    /\ db.video # NoVideo => disk[db.video.id] # None
    /\ \A i \in Unprocessed : disk[i] # None

CurrentCopySound == VerdictIsRight /\ StatusFollows /\ RecordsAgree /\ FilesKept

(* The current copy is replaced only by one whose content is the reported  *)
(* one, and only when it is known to be wrong itself (processVideo,        *)
(* files.ts:472; the decision uses values read before an await).           *)
ReplacedOnlyByRight ==
    [][(db.video # NoVideo /\ db'.video.id # db.video.id) =>
         /\ db.mapping # None /\ db'.video.content = db.mapping
         /\ db.video.content # db.mapping]_vars

(* What a client is given to play is the current copy, verified, and not   *)
(* one that another request or job found unreadable in the meantime        *)
(* (openVideo checks before and after its await).                          *)
ServedIsVerified ==
    served # NoVideo => served.status = "verified" /\ served.content = db.mapping

(* Every complete file is dealt with, and a copy that waited is decided    *)
(* once its mapping is there, whatever restarts and uploads come between,  *)
(* unless the file cannot be read or an error is shown.                    *)
CopiesSettle ==
    /\ \A i \in Imports :
         (db.complete[i] = "saved") ~>
           (db.complete[i] = "processed" \/ db.imports[i] = "unavailable" \/ workerError)
    /\ (db.video.status \in {"waiting_report", "verifying"} /\ db.mapping # None) ~>
         (db.video.status \in Verdicts \cup {"unavailable"} \/ workerError)

(* Once the store is closed nothing is left that would use it: a report    *)
(* job still queues media jobs when the last request has ended (idle       *)
(* awaits the two queues in this order, files.ts:319).                     *)
ClosedStoreUntouched == phase = "closed" => RequestsIdle /\ ReportsIdle /\ MediaIdle

(* docs/client/files-and-status.md:197: with a mapping in force, a wrong   *)
(* copy gives way to a right one.  A rival is turned away only if it is    *)
(* wrong, if the current copy is right, or if there is no mapping.         *)
TurnedAwayForCause ==
    [][\A i \in Imports :
         (db.imports[i] # "conflict" /\ db'.imports[i] = "conflict" /\ db.mapping # None) =>
           db.video.content = db.mapping \/ disk[i] # db.mapping]_vars
=============================================================================
