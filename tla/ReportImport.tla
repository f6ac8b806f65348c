----------------------------- MODULE ReportImport -----------------------------
(***************************************************************************)
(* How status reports enter the client's store: the database that is made  *)
(* once (server/database.ts), the batch of chosen files, their uploads and *)
(* the queue that processes a batch when all its reports have ended        *)
(* (server/files.ts), and the application of the reports that arrived      *)
(* (applyReports in server/application.ts), by the rules of ReportMerge.   *)
(*                                                                         *)
(* One process runs on one event loop.  Code between two awaits is not     *)
(* interleaved with requests but may be cut by a crash, so it takes one    *)
(* step per durable write.  SQLite makes one write or one transaction      *)
(* durable as a whole.                                                     *)
(***************************************************************************)
EXTENDS ReportMerge

CONSTANTS Choices,      \* what a user may select at once: sequences of reports
          MaxFiles,     \* bound on the files imported
          MaxTroubles   \* bound on failed reads and writes, crashes, and
                        \* POST /api/initialize on a usable store, together

Reports == UNION {{chosen[k] : k \in DOMAIN chosen} : chosen \in Choices}

ASSUME ChoicesAssumption ==
  /\ \A chosen \in Choices : chosen \in Seq(Reports)
  /\ \A r \in Reports : {"from", "to"} \subseteq DOMAIN r /\ r.from \in Nat /\ r.to \in Nat
  \* Equal files are equal reports.
  /\ \A r, t \in Reports : (r.id = t.id /\ r.bytes = t.bytes) => r = t

VARIABLES file,         \* client.db: absent, creating (no COMMIT yet), broken, ready
          db,           \* the records of client.db, see Init
          up,           \* the process runs
          active,       \* activeUploads
          parts,        \* temporary files in uploads/
          reportQueue,  \* the batches to process, in order
          job,          \* the processBatch that runs
          workerError,
          faults, crashes, inits

process == <<active, reportQueue, job, workerError>>
bounds == <<faults, crashes, inits>>
vars == <<file, db, up, active, parts, reportQueue, job, workerError, faults, crashes, inits>>

Trouble == faults + crashes + inits < MaxTroubles

Imports == DOMAIN db.imports
Status(i) == db.imports[i].status
Of(i) == db.imports[i].report
BatchFiles(b) == {i \in Imports : db.imports[i].batch = b}
Firsts(files) == {i \in files : \A j \in files : i <= j}
NoJob == [at |-> "none"]
EmptySnapshot == [id |-> 1, from |-> 0, to |-> 0, plans |-> <<>>, actions |-> <<>>,
                  outputs |-> <<>>, deliveries |-> <<>>, diags |-> <<>>]

Init ==
  /\ file = "absent" /\ up = TRUE
  /\ db = [coverage |-> 0, snapshot |-> EmptySnapshot,
           saved |-> {},       \* the table of accepted reports, with their bytes
           imports |-> <<>>,   \* every file ever chosen: batch, report, status
           kept |-> {},        \* complete_files: the imports wholly received
           processed |-> {},   \* those whose temporary file may go
           done |-> {}]        \* the batches with reportsDone
  /\ active = {} /\ parts = {} /\ reportQueue = <<>> /\ job = NoJob /\ workerError = FALSE
  /\ faults = 0 /\ crashes = 0 /\ inits = 0

\* What a connection and every transaction check before they go on.
readBusinessState(d) ==
  /\ validateReport(d.snapshot)
  /\ d.snapshot.to = d.coverage /\ d.snapshot.from = 0
  /\ \A s \in d.saved : s.from <= s.to /\ s.to <= d.coverage
  /\ IF d.saved = {} THEN d.coverage = 0 /\ d.snapshot.plans = <<>> /\ d.snapshot.diags = <<>>
     ELSE \E s \in d.saved : s.to = d.coverage

\* Requests are served while the worker awaits a file and no database is made;
\* a store whose state does not pass the check is of no use.
Serving == up /\ file # "creating" /\ job.at \in {"none", "reading", "tidying"}
Ready == Serving /\ file = "ready" /\ readBusinessState(db)

SetStatus(d, i, status) == [d EXCEPT !.imports[i].status = status]

------------------------------------------------------------------------------
(* The store. *)

\* Reports that were arriving when the process stopped must be chosen again.
recover ==
  db' = [db EXCEPT !.imports = [i \in Imports |->
           [db.imports[i] EXCEPT !.status =
              IF Status(i) \in {"uploading", "received"} THEN "interrupted" ELSE Status(i)]]]

CreateFile ==
  /\ Serving /\ file = "absent" /\ file' = "creating"
  /\ UNCHANGED <<db, up, parts, process, bounds>>

CommitInitial ==
  /\ up /\ file = "creating" /\ file' = "ready" /\ recover
  /\ UNCHANGED <<up, parts, process, bounds>>

InitializeFails ==
  /\ up /\ file = "creating" /\ Trouble
  /\ file' = "broken" /\ faults' = faults + 1
  /\ UNCHANGED <<db, up, parts, process, crashes, inits>>

\* A second POST /api/initialize finds the store ready and recovers all the same.
InitializeAgain ==
  /\ Ready /\ Trouble /\ inits' = inits + 1 /\ recover
  /\ UNCHANGED <<file, up, parts, process, faults, crashes>>

Crash ==
  /\ up /\ Trouble /\ crashes' = crashes + 1
  /\ up' = FALSE /\ file' = IF file = "creating" THEN "broken" ELSE file
  /\ active' = {} /\ reportQueue' = <<>> /\ job' = NoJob /\ workerError' = FALSE
  /\ UNCHANGED <<db, parts, faults, inits>>

\* Start-up recovers a usable store and leaves any other as it is.
Start ==
  /\ ~up /\ up' = TRUE
  /\ IF file = "ready" /\ readBusinessState(db) THEN recover ELSE db' = db
  /\ UNCHANGED <<file, parts, process, bounds>>

------------------------------------------------------------------------------
(* Batches and uploads. *)

createBatch ==
  /\ Ready
  /\ \E chosen \in Choices :
       /\ Len(db.imports) + Len(chosen) <= MaxFiles
       /\ db' = [db EXCEPT !.imports = @ \o [k \in DOMAIN chosen |->
                   [batch |-> Len(db.imports) + 1, report |-> chosen[k],
                    status |-> "uploading"]]]
  /\ UNCHANGED <<file, up, parts, process, bounds>>

upload(i) ==
  /\ Ready /\ Status(i) = "uploading" /\ i \notin active
  /\ active' = active \union {i}
  /\ UNCHANGED <<file, db, up, parts, reportQueue, job, workerError, bounds>>

enqueueReport(i) == reportQueue' = Append(reportQueue, db.imports[i].batch)

\* Every byte arrived and is synced; the file is created for this upload only.
UploadReceived(i) ==
  /\ Ready /\ i \in active /\ i \notin parts
  /\ db' = SetStatus([db EXCEPT !.kept = @ \union {i}], i, "received")
  /\ enqueueReport(i)
  /\ active' = active \ {i} /\ parts' = parts \union {i}
  /\ UNCHANGED <<file, up, job, workerError, bounds>>

SlipBrokenSilent(i) ==
  /\ Ready /\ i \in active
  /\ db' = IF i \in db.kept THEN db ELSE SetStatus(db, i, "interrupted")
  /\ active' = active \ {i}
  /\ \E made \in BOOLEAN : parts' = IF made THEN parts \union {i} ELSE parts
  /\ UNCHANGED <<file, up, reportQueue, job, workerError, bounds>>

\* Too many bytes, too few, a lost connection, or a file that already exists.
UploadBroken(i) ==
  /\ Ready /\ i \in active
  /\ db' = IF i \in db.kept THEN db ELSE SetStatus(db, i, "interrupted")
  /\ enqueueReport(i)
  /\ active' = active \ {i}
  /\ \E made \in BOOLEAN : parts' = IF made THEN parts \union {i} ELSE parts
  /\ UNCHANGED <<file, up, job, workerError, bounds>>

\* A write of the store fails: nothing is recorded and nobody is woken.
UploadUnrecorded(i) ==
  /\ Ready /\ i \in active /\ Trouble /\ faults' = faults + 1
  /\ active' = active \ {i} /\ parts' = parts \union {i} /\ workerError' = TRUE
  /\ UNCHANGED <<file, db, up, reportQueue, job, crashes, inits>>

failUpload(i) ==
  /\ Ready /\ i \notin active /\ i \notin db.kept /\ Status(i) = "uploading"
  /\ db' = SetStatus(db, i, "interrupted")
  /\ enqueueReport(i)
  /\ UNCHANGED <<file, up, active, parts, job, workerError, bounds>>

------------------------------------------------------------------------------
(* Processing a batch. *)

\* Nothing to do while a report of the batch may still arrive, or afterwards.
Idle(b) == b \in db.done \/ \E i \in Imports : db.imports[i].batch = b /\ Status(i) = "uploading"

NextJob ==
  /\ Ready /\ job.at = "none" /\ reportQueue # <<>>
  /\ reportQueue' = Tail(reportQueue)
  /\ LET b == Head(reportQueue)
         received == {i \in BatchFiles(b) : Status(i) = "received"}
     IN job' = IF Idle(b) THEN NoJob
               ELSE [at |-> IF received = {} THEN "applying" ELSE "reading",
                     batch |-> b, todo |-> received, inputs |-> {}]
  /\ UNCHANGED <<file, db, up, active, parts, workerError, bounds>>

\* One file after the other is moved on; when none is left, `next` begins with
\* those that passed.
Moved(i, passed, next) ==
  LET inputs == IF passed THEN job.inputs \union {i} ELSE job.inputs
  IN IF job.todo = {i} THEN [job EXCEPT !.at = next, !.todo = inputs, !.inputs = {}]
     ELSE [job EXCEPT !.todo = @ \ {i}, !.inputs = inputs]

\* After the last file the work goes on without another await.
ReadFile ==
  /\ Ready /\ job.at = "reading"
  /\ \E i \in Firsts(job.todo) :
       \/ /\ i \in parts
          /\ job' = Moved(i, TRUE, "parsing")
          /\ UNCHANGED <<db, faults>>
       \/ /\ Trouble /\ faults' = faults + 1
          /\ db' = SetStatus(db, i, "failed")
          /\ job' = Moved(i, FALSE, IF job.inputs = {} THEN "applying" ELSE "parsing")
  /\ UNCHANGED <<file, up, active, parts, reportQueue, workerError, crashes, inits>>

parseReport ==
  /\ up /\ job.at = "parsing"
  /\ \E i \in Firsts(job.todo) :
       LET good == Of(i).sound /\ validateReport(Of(i)) IN
       /\ db' = IF good THEN db ELSE SetStatus(db, i, "failed")
       /\ job' = Moved(i, good, "applying")
  /\ UNCHANGED <<file, up, active, parts, reportQueue, workerError, bounds>>

Existing(r) == {s \in db.saved : s.id = r.id}
Decision(r) == reportDecision(db.coverage, r.from, r.to)

\* Of those left, the one with the earliest end that need not wait for another,
\* or the earliest of all; equal ends keep the order of the selection.
SlipEarliestFirst(i) == TRUE
NeedNotWait(i) == Existing(Of(i)) # {} \/ Decision(Of(i)) # "gap"
Before(i, j) == Of(i).to < Of(j).to \/ (Of(i).to = Of(j).to /\ i <= j)
Picked ==
  LET ready == {i \in job.todo : NeedNotWait(i)}
      from == IF ready = {} THEN job.todo ELSE ready
  IN {i \in from : \A j \in from : Before(i, j)}

Row(r) == [id |-> r.id, bytes |-> r.bytes, from |-> r.from, to |-> r.to]
SlipCoveredNotKept(i) ==
  IF Decision(Of(i)) = "covered" THEN SetStatus(db, i, "covered")
  ELSE SetStatus([db EXCEPT !.saved = @ \union {Row(Of(i))},
                            !.snapshot = Merged(db.snapshot, Of(i)),
                            !.coverage = Of(i).to], i, "accepted")
Accept(i) ==
  LET saved == [db EXCEPT !.saved = @ \union {Row(Of(i))}]
  IN IF Decision(Of(i)) = "covered" THEN SetStatus(saved, i, "covered")
     ELSE SetStatus([saved EXCEPT !.snapshot = Merged(db.snapshot, Of(i)),
                                  !.coverage = Of(i).to], i, "accepted")

Contradicts(r) ==
  IF Decision(r) = "gap" THEN ~validateReportAgainstHistory(db.snapshot, r)
  ELSE ~Mergeable(db.snapshot, r)

\* The report is judged, and the state is d from now on.
Judged(i, d) ==
  /\ db' = d /\ workerError' = workerError
  /\ job' = [job EXCEPT !.todo = @ \ {i}]

KnownReport(i) ==
  \E s \in Existing(Of(i)) :
    Judged(i, SetStatus(db, i, IF s.bytes = Of(i).bytes THEN "duplicate" ELSE "conflict"))
RefusedReport(i) ==
  /\ Existing(Of(i)) = {} /\ Contradicts(Of(i))
  /\ Judged(i, SetStatus(db, i, "failed"))
GapReport(i) ==
  /\ Existing(Of(i)) = {} /\ ~Contradicts(Of(i)) /\ Decision(Of(i)) = "gap"
  /\ Judged(i, SetStatus(db, i, "gap"))
\* One transaction, which the store checks before it commits.
AcceptedReport(i) ==
  /\ Existing(Of(i)) = {} /\ ~Contradicts(Of(i)) /\ Decision(Of(i)) # "gap"
  /\ IF readBusinessState(Accept(i)) THEN Judged(i, Accept(i))
     ELSE db' = db /\ job' = NoJob /\ workerError' = TRUE

applyReports ==
  /\ up /\ job.at = "applying" /\ job.todo # {}
  /\ \E i \in Picked :
       KnownReport(i) \/ RefusedReport(i) \/ GapReport(i) \/ AcceptedReport(i)
  /\ UNCHANGED <<file, up, active, parts, reportQueue, bounds>>

\* The batch is done; its temporary files are released one after the other.
ReportsDone ==
  /\ up /\ job.at = "applying" /\ job.todo = {}
  /\ LET whole == BatchFiles(job.batch) \intersect db.kept IN
     /\ db' = [db EXCEPT !.done = @ \union {job.batch},
                         !.processed = @ \union Firsts(whole)]
     /\ job' = IF whole = {} THEN NoJob ELSE [job EXCEPT !.at = "tidying", !.todo = whole]
  /\ UNCHANGED <<file, up, active, parts, reportQueue, workerError, bounds>>

removeTemporary ==
  /\ Ready /\ job.at = "tidying"
  /\ \E i \in Firsts(job.todo) :
       /\ parts' = parts \ {i}
       /\ job' = IF job.todo = {i} THEN NoJob ELSE [job EXCEPT !.todo = @ \ {i}]
       /\ db' = [db EXCEPT !.processed = @ \union Firsts(job.todo \ {i})]
  /\ UNCHANGED <<file, up, active, reportQueue, workerError, bounds>>

\* A write of the store throws: the batch stays as it is, and is not tried again.
JobFails ==
  /\ up /\ job # NoJob /\ Trouble /\ faults' = faults + 1
  /\ job' = NoJob /\ workerError' = TRUE
  /\ UNCHANGED <<file, db, up, active, parts, reportQueue, crashes, inits>>

------------------------------------------------------------------------------
Worker ==
  NextJob \/ ReadFile \/ parseReport \/ applyReports \/ ReportsDone \/ removeTemporary
Next ==
  \/ CreateFile \/ CommitInitial \/ InitializeFails \/ InitializeAgain \/ Crash \/ Start
  \/ createBatch \/ Worker \/ JobFails
  \/ \E i \in Imports : \/ upload(i) \/ UploadReceived(i) \/ UploadBroken(i)
                        \/ UploadUnrecorded(i) \/ failUpload(i)
Spec == Init /\ [][Next]_vars

------------------------------------------------------------------------------
\* The coverage the client claims, and confirms to the device, is backed by
\* reports it keeps: every water mark up to it lies in an accepted report, and
\* the report offered as confirmation ends there (ackId, syncParams).
CoverageGrounded ==
  /\ \A w \in 1 .. db.coverage : \E s \in db.saved : s.from < w /\ w <= s.to
  /\ \A s \in db.saved : s.to <= db.coverage
  /\ db.coverage > 0 => \E s \in db.saved : s.to = db.coverage

\* What an import says happened is so, after any crash and retry: an accepted,
\* covered or duplicate report is kept with its own bytes, a conflicting one
\* was met by other bytes, and only those two are kept.
JudgementsHold ==
  /\ \A i \in Imports :
       /\ Status(i) \in {"accepted", "covered", "duplicate"} => Row(Of(i)) \in db.saved
       /\ Status(i) = "conflict" => \E s \in Existing(Of(i)) : s.bytes # Of(i).bytes
  /\ \A s, t \in db.saved : s.id = t.id => s = t
  /\ \A s \in db.saved : \E i \in Imports :
       Row(Of(i)) = s /\ Status(i) \in {"accepted", "covered"}

\* A report is put aside for a gap only if, when its batch is done, the gap is
\* still there, in whatever order the files were selected and arrived; on a
\* disk that works and a store nobody initialises again.
GapsRemain ==
  [][(inits = 0 /\ ~workerError) => \A b \in db'.done \ db.done : \A i \in Imports :
       (db.imports[i].batch = b /\ Status(i) = "gap") => Of(i).from > db'.coverage]_vars

\* As long as a report of the batch is on its way, none is put aside for a gap
\* (docs/client/files-and-status.md:78).
GapsWaitForUploads ==
  [][\A i \in Imports : (Status(i) # "gap" /\ db'.imports[i].status = "gap") =>
        \A k \in active : db.imports[k].batch # db.imports[i].batch]_vars

\* The rules for merging never produce a state the store refuses: the worker
\* fails only when the disk does.
OnlyDiskFails == workerError => faults > 0

\* No wake-up is lost: when the worker has nothing to do, a report received in
\* full waits only for another of its batch that is still to arrive, unless the
\* disk failed or the store was initialised again.
ReceivedIsJudged ==
  (up /\ job = NoJob /\ reportQueue = <<>> /\ ~workerError /\ inits = 0) =>
    \A i \in Imports : Status(i) = "received" =>
      \E k \in Imports : db.imports[k].batch = db.imports[i].batch /\ Status(k) = "uploading"
==============================================================================
