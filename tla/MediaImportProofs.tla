--------------------------- MODULE MediaImportProofs ---------------------------
(***************************************************************************)
(* What holds of importing a media file for every number of selections,    *)
(* contents, faults and restarts: the records of the current copy are      *)
(* true, only a right copy replaces a wrong one, what is played is         *)
(* verified, and a closed store is left alone.                             *)
(***************************************************************************)
EXTENDS MediaImport, SequenceTheorems, FiniteSetTheorems, TLAPS

(* The stop: what has ended stays ended, because what could begin it has   *)
(* ended before.                                                           *)
StopInv ==
  /\ phase \in {"running", "requests", "reports", "media", "closed", "down"}
  /\ phase \in {"reports", "media", "closed"} => RequestsIdle
  /\ phase \in {"media", "closed"} => ReportsIdle
  /\ phase = "closed" => MediaIdle

LEMMA StopKept == StopInv /\ [Next]_vars => StopInv'
<1> SUFFICES ASSUME StopInv, [Next]_vars PROVE StopInv'
  OBVIOUS
<1> USE DEF StopInv, RequestsIdle, ReportsIdle, MediaIdle, jobs, reporting, requests, disks, media
<1>1. ASSUME NEW i \in Imports, createBatch(i) \/ upload(i) \/ failUpload(i) \/ Vanish(i) \/ Return(i)
      PROVE  StopInv'
  BY <1>1 DEF createBatch, upload, failUpload, Vanish, Return, Serving, Interrupted, AtAwait
<1>2. CASE openVideo \/ ReportArrives \/ Initialize
  BY <1>2 DEF openVideo, ReportArrives, Initialize, Serving, AtAwait
<1>3. CASE MediaJob
  BY <1>3 DEF MediaJob, StartJob, HashNewFails, HashNew, HashOldFails, Reject, HashOld,
     RemoveFile, FileUnreadable, FileReadable, HashCurrent, Up, Alive
<1>4. CASE ReportJob
  BY <1>4 DEF ReportJob, MergeReport, FinishBatch, QueueVerification, Up, Alive
<1>5. CASE Request
  <2>1. CASE VideoOpened \/ VideoUnreadable
    BY <2>1 DEF VideoOpened, VideoUnreadable, Up, Alive
  <2>2. ASSUME NEW i \in Imports, UploadCompletes(i)
        PROVE  StopInv'
    BY <2>2 DEF UploadCompletes, Up, Alive
  <2>3. ASSUME NEW i \in Imports, UploadFails(i)
        PROVE  StopInv'
    BY <2>3 DEF UploadFails, Up, Alive
  <2>4. QED
    BY <1>5, <2>1, <2>2, <2>3 DEF Request
<1>6. CASE Stopping
  <2>1. /\ phase \in {"running", "requests", "reports", "media"} /\ phase' = After[phase]
        /\ phase # "running" => Idle[phase]
        /\ UNCHANGED <<jobs, reporting, requests>>
    BY <1>6 DEF Stopping, Up, Alive
  <2>2. CASE phase = "running"
    BY <2>1, <2>2 DEF After
  <2>3. CASE phase = "requests"
    BY <2>1, <2>3 DEF After, Idle
  <2>4. CASE phase = "reports"
    BY <2>1, <2>4 DEF After, Idle
  <2>5. CASE phase = "media"
    BY <2>1, <2>5 DEF After, Idle
  <2>6. QED
    BY <2>1, <2>2, <2>3, <2>4, <2>5
<1>7. CASE Crash \/ Start
  BY <1>7 DEF Crash, Start
<1>8. CASE UNCHANGED vars
  BY <1>8 DEF vars
<1>9. QED
  BY <1>1, <1>2, <1>3, <1>4, <1>5, <1>6, <1>7, <1>8 DEF Next

(* Once the store is closed, no request, report job or media job is left   *)
(* that would use it: the two queues are awaited in the one order that     *)
(* works.                                                                  *)
THEOREM NothingUsesAClosedStore == Spec => []ClosedStoreUntouched
<1>1. Init => StopInv
  BY DEF Init, StopInv
<1>2. StopInv => ClosedStoreUntouched
  BY DEF StopInv, ClosedStoreUntouched
<1>3. QED
  BY <1>1, <1>2, StopKept, PTL DEF Spec

-----------------------------------------------------------------------------
(* The store.  What a remembered copy says is measured by the store as it  *)
(* is now.                                                                 *)
Stages == {"none", "saved", "processed"}
Db == [imports : [Imports -> Statuses], mapping : {None, Reported},
       complete : [Imports -> Stages], video : Videos \cup {NoVideo}]

(* A verdict was made against the mapping and is right for the content.    *)
Sound(d, v) ==
  /\ v.verification # None =>
       d.mapping # None /\ ((v.verification = "verified") <=> (v.content = d.mapping))
  /\ v.verifiedAgainst <=> (v.verification = "verified")

(* A copy read from the store earlier: it may have been replaced, but not  *)
(* by another one of the same import.                                      *)
Known(d, v) ==
  v # NoVideo =>
    /\ v \in Videos /\ Sound(d, v) /\ d.complete[v.id] = "processed"
    /\ v.id = d.video.id => v.content = d.video.content

Follows(v) == v.status \in Verdicts => v.status = v.verification

Records(d) ==
  /\ d \in Db
  /\ Known(d, d.video)
  /\ d.video # NoVideo => Follows(d.video) /\ d.imports[d.video.id] = d.video.status
  /\ \A i \in Imports : d.imports[i] \in {"none", "uploading"} => d.complete[i] = "none"

LEMMA NamesApart ==
  /\ None \notin Imports /\ None \notin Contents /\ Reported # None
  /\ None \notin Statuses /\ None # "verified" /\ None # Part
  /\ Anyone \notin Imports
  /\ CopyStatuses \subseteq Statuses /\ Verdicts \subseteq CopyStatuses
BY NamesAssumption, ReportedAssumption DEF Statuses, CopyStatuses, Verdicts

LEMMA NoVideoIsNone ==
  /\ NoVideo.id = None /\ NoVideo.verification = None /\ NoVideo.status = None
  /\ NoVideo \notin Videos
  /\ \A v \in Videos : v.id \in Imports /\ v.content \in Contents /\ v.status \in CopyStatuses
       /\ v # NoVideo
<1>1. NoVideo.id = None /\ NoVideo.verification = None /\ NoVideo.status = None
  BY DEF NoVideo
<1>2. \A v \in Videos : v.id \in Imports /\ v.content \in Contents /\ v.status \in CopyStatuses
  BY DEF Videos
<1>3. QED
  BY <1>1, <1>2, NamesApart

(* The writes to the store, field by field.                                *)
LEMMA SetImportFields ==
  ASSUME NEW d \in Db, NEW i \in Imports, NEW s \in Statuses
  PROVE  LET e == SetImport(d, i, s) IN
         /\ e \in Db /\ e.video = d.video /\ e.mapping = d.mapping /\ e.complete = d.complete
         /\ \A k \in Imports : e.imports[k] = IF k = i THEN s ELSE d.imports[k]
BY DEF SetImport, Db

LEMMA StageFields ==
  ASSUME NEW d \in Db, NEW i \in Imports, NEW stage \in Stages
  PROVE  LET e == [d EXCEPT !.complete[i] = stage] IN
         /\ e \in Db /\ e.video = d.video /\ e.mapping = d.mapping /\ e.imports = d.imports
         /\ \A k \in Imports : e.complete[k] = IF k = i THEN stage ELSE d.complete[k]
BY DEF Db

LEMMA WriteFields ==
  ASSUME NEW d \in Db, NEW v \in Videos
  PROVE  LET e == writeCurrent(d, v) IN
         /\ e \in Db /\ e.video = v /\ e.mapping = d.mapping /\ e.complete = d.complete
         /\ \A k \in Imports : e.imports[k] = IF k = v.id THEN v.status ELSE d.imports[k]
<1>1. v.id \in Imports /\ v.status \in Statuses
  BY NoVideoIsNone, NamesApart
<1>2. QED
  BY <1>1 DEF writeCurrent, Db

(* What a step may do to the store.                                        *)
Forward(d, e) ==
  \A k \in Imports : \/ e.complete[k] = d.complete[k]
                     \/ d.complete[k] = "none" /\ e.complete[k] = "saved"
                     \/ d.complete[k] = "saved" /\ e.complete[k] = "processed"

(* One import that is not the current copy is dealt with.                  *)
Settles(d, e, i) ==
  /\ i \in Imports /\ i # d.video.id /\ e \in Db
  /\ e.video = d.video /\ e.mapping = d.mapping
  /\ \A k \in Imports : k # i => e.imports[k] = d.imports[k] /\ e.complete[k] = d.complete[k]
  /\ Forward(d, e)
  /\ e.imports[i] \in {"none", "uploading"} => e.complete[i] = "none"

(* The current copy gets another status, or a new copy takes its place.    *)
Writes(d, e, v) ==
  /\ v \in Videos /\ e \in Db /\ e.video = v /\ e.mapping = d.mapping
  /\ Sound(d, v) /\ Follows(v)
  /\ e.imports[v.id] = v.status /\ e.complete[v.id] = "processed"
  /\ \A k \in Imports : k # v.id => e.imports[k] = d.imports[k] /\ e.complete[k] = d.complete[k]
  /\ \/ v.id = d.video.id /\ v.content = d.video.content
     \/ d.complete[v.id] = "saved"

(* Everything but the statuses of uploads and the mapping stays.           *)
Restores(d, e) ==
  /\ e \in Db /\ e.video = d.video /\ e.complete = d.complete
  /\ e.mapping = d.mapping \/ e.mapping = Reported
  /\ \A k \in Imports : e.imports[k] = d.imports[k]
                       \/ (d.imports[k] = "uploading" /\ e.imports[k] = "interrupted")

Moves(d, e) ==
  e = d \/ (\E i \in Imports : Settles(d, e, i)) \/ (\E v \in Videos : Writes(d, e, v)) \/ Restores(d, e)

(* What is remembered stays known, stages go on, a mapping remains, and a  *)
(* new current copy was waiting to be processed.                           *)
LEMMA RecordsMove ==
  ASSUME NEW d, NEW e, Records(d), Moves(d, e)
  PROVE  /\ Records(e) /\ Forward(d, e)
         /\ \A v : Known(d, v) => Known(e, v)
         /\ d.mapping # None => e.mapping = d.mapping
         /\ e.video = d.video \/ (e.video \in Videos /\
              (e.video.id = d.video.id \/ d.complete[e.video.id] = "saved"))
<1>1. /\ d \in Db /\ d.mapping \in {None, Reported} /\ d.video \in Videos \cup {NoVideo}
      /\ \A k \in Imports : d.complete[k] \in Stages
  BY DEF Records, Db
<1>2. CASE e = d
  BY <1>2 DEF Records, Forward
<1>3. ASSUME NEW i \in Imports, Settles(d, e, i)
      PROVE  /\ Records(e) /\ Forward(d, e) /\ (\A v : Known(d, v) => Known(e, v))
             /\ e.mapping = d.mapping /\ e.video = d.video
  <2>1. \A v : Known(d, v) => Known(e, v)
    <3>1. SUFFICES ASSUME NEW v, Known(d, v), v # NoVideo PROVE Known(e, v)
      BY DEF Known
    <3>2. v.id \in Imports
      BY <3>1, NoVideoIsNone DEF Known
    <3>3. QED
      BY <1>3, <3>1, <3>2 DEF Known, Sound, Settles, Forward
  <2>2. d.video # NoVideo => d.video.id \in Imports
    BY <1>1, NoVideoIsNone
  <2>3. QED
    BY <1>3, <2>1, <2>2 DEF Records, Settles
<1>4. ASSUME NEW w \in Videos, Writes(d, e, w)
      PROVE  /\ Records(e) /\ Forward(d, e) /\ (\A v : Known(d, v) => Known(e, v))
             /\ e.mapping = d.mapping
             /\ e.video \in Videos /\ (e.video.id = d.video.id \/ d.complete[e.video.id] = "saved")
  <2>1. w.id \in Imports /\ w # NoVideo
    BY NoVideoIsNone
  <2>2. w.id = d.video.id => d.complete[w.id] = "processed"
    BY <1>1, <2>1, NoVideoIsNone, NamesApart DEF Records, Known
  <2>3. Forward(d, e)
    BY <1>4, <2>2 DEF Writes, Forward
  <2>4. \A v : Known(d, v) => Known(e, v)
    <3>1. SUFFICES ASSUME NEW v, Known(d, v), v # NoVideo PROVE Known(e, v)
      BY DEF Known
    <3>2. v.id \in Imports /\ d.complete[v.id] = "processed"
      BY <3>1, NoVideoIsNone DEF Known
    <3>3. Sound(e, v) /\ e.complete[v.id] = "processed"
      BY <1>4, <2>3, <3>1, <3>2 DEF Known, Sound, Writes, Forward
    <3>4. v.id = w.id => v.content = w.content
      BY <1>4, <3>1, <3>2 DEF Known, Writes
    <3>5. QED
      BY <1>4, <3>1, <3>3, <3>4 DEF Known, Writes
  <2>5. Known(e, e.video)
    BY <1>4 DEF Known, Writes, Sound
  <2>6. \A k \in Imports : e.imports[k] \in {"none", "uploading"} => e.complete[k] = "none"
    <3>1. w.status \notin {"none", "uploading"}
      BY NoVideoIsNone DEF CopyStatuses, Verdicts
    <3>2. QED
      BY <1>4, <3>1 DEF Records, Writes
  <2>7. QED
    BY <1>4, <2>3, <2>4, <2>5, <2>6 DEF Records, Writes
<1>5. ASSUME Restores(d, e)
      PROVE  /\ Records(e) /\ Forward(d, e) /\ (\A v : Known(d, v) => Known(e, v))
             /\ (d.mapping # None => e.mapping = d.mapping) /\ e.video = d.video
  <2>1. d.mapping # None => e.mapping = d.mapping
    BY <1>1, <1>5 DEF Restores
  <2>2. \A v : Known(d, v) => Known(e, v)
    BY <1>5, <2>1 DEF Known, Sound, Restores
  <2>3. d.video # NoVideo => d.video.id \in Imports /\ d.video.status \notin {"none", "uploading"}
    BY <1>1, NoVideoIsNone DEF CopyStatuses, Verdicts
  <2>4. QED
    BY <1>5, <2>1, <2>2, <2>3 DEF Records, Restores, Forward
<1>6. QED
  BY <1>2, <1>3, <1>4, <1>5 DEF Moves

-----------------------------------------------------------------------------
(* The rest of the state, measured by a store d.                           *)
Ats == {"none", "hash_new", "hash_old", "reject", "remove", "remove_then_verify",
        "readable", "hash"}
Jobs == [kind : {"none", "process", "verify"}, id : Imports \cup {None}, at : Ats,
         video : Videos \cup {NoVideo}, content : Contents \cup {None},
         mapping : {None, Reported}]
QueueJobs == [kind : {"process", "verify"}, id : Imports]

(* The running job handles a file that waits to be processed, removes one  *)
(* nobody needs, or verifies the copy it remembers.                        *)
AtWork(d, j) ==
  /\ j \in Jobs /\ Known(d, j.video)
  /\ j.mapping # None => j.mapping = d.mapping
  /\ j.at = "none" => j = NoJob
  /\ j.at \in {"hash_new", "hash_old", "reject"} =>
       j.id \in Imports /\ d.complete[j.id] = "saved"
  /\ j.at = "hash_old" => j.content \in Contents
  /\ j.at \in {"hash_old", "reject", "remove_then_verify", "readable", "hash"} =>
       j.video # NoVideo
  /\ j.at \in {"remove", "remove_then_verify"} =>
       j.id \in Imports /\ j.id # d.video.id /\ d.complete[j.id] = "processed"
  /\ j.at \in {"readable", "hash"} => j.id = j.video.id

Requested(d, open, arriving) ==
  /\ open \in Videos \cup {NoVideo} /\ Known(d, open)
  /\ arriving \subseteq Imports /\ \A i \in arriving : d.complete[i] = "none"

Files(d, f) ==
  /\ f \in [Imports -> Contents \cup {None, Part}]
  /\ \A i \in Imports : d.complete[i] # "none" => f[i] \in Contents \cup {None}
  /\ d.video # NoVideo => f[d.video.id] # None
  /\ \A i \in Imports : d.complete[i] = "saved" => f[i] # None

Queued(d, q) ==
  /\ q \in Seq(QueueJobs)
  /\ \A k \in DOMAIN q : q[k].kind = "process" => d.complete[q[k].id] # "none"

Shown(d, v) ==
  /\ v \in Videos \cup {NoVideo}
  /\ v # NoVideo => v.status = "verified" /\ v.content = d.mapping

Plain ==
  /\ hidden \subseteq Imports /\ workerError \in BOOLEAN
  /\ phase \in {"running", "requests", "reports", "media", "closed", "down"}
  /\ reportQueue \in Seq(BOOLEAN) /\ reportAt \in {"none", "merged", "marked"}
  /\ reportQueue = <<>> => reportAt = "none"

IInv ==
  /\ Records(db) /\ AtWork(db, job) /\ Requested(db, opening, uploads)
  /\ Files(db, disk) /\ Queued(db, queue) /\ Shown(db, served) /\ Plain

(* Nothing that waits is processed by a step of anyone but the job.        *)
Calm(d, e) == \A k \in Imports : d.complete[k] = "saved" => e.complete[k] = "saved"
NoneArrives(d, e) == \A k \in Imports : d.complete[k] = "none" => e.complete[k] = "none"

LEMMA NoJobFields ==
  NoJob \in Jobs /\ NoJob.at = "none" /\ NoJob.video = NoVideo /\ NoJob.mapping = None
BY DEF NoJob, Jobs, Ats

LEMMA IdleAtWork == ASSUME NEW d PROVE AtWork(d, NoJob)
BY NoJobFields DEF AtWork, Known

LEMMA AtWorkStays ==
  ASSUME NEW d, NEW e, NEW j, Records(d), Moves(d, e), Calm(d, e), AtWork(d, j)
  PROVE  AtWork(e, j)
<1>1. /\ Records(e) /\ Forward(d, e)
      /\ \A v : Known(d, v) => Known(e, v)
      /\ d.mapping # None => e.mapping = d.mapping
      /\ e.video = d.video \/ (e.video \in Videos /\
           (e.video.id = d.video.id \/ d.complete[e.video.id] = "saved"))
  BY RecordsMove
<1>2. e.video \in Videos => e.video.id \in Imports /\ e.complete[e.video.id] = "processed"
  BY <1>1, NoVideoIsNone DEF Records, Known
<1>3. e.video.id = d.video.id
  BY <1>1, <1>2 DEF Calm
<1>4. j.mapping # None => e.mapping = d.mapping
  BY <1>1 DEF AtWork
<1>5. Known(e, j.video)
  BY <1>1 DEF AtWork
<1>6. \A k \in Imports : (d.complete[k] = "saved" => e.complete[k] = "saved")
                         /\ (d.complete[k] = "processed" => e.complete[k] = "processed")
  BY <1>1 DEF Calm, Forward
<1>7. QED
  BY <1>3, <1>4, <1>5, <1>6 DEF AtWork

LEMMA FilesMove ==
  ASSUME NEW d, NEW e, NEW f, Records(d), Moves(d, e), Files(d, f),
         \A k \in Imports : (d.complete[k] = "none" /\ e.complete[k] = "saved") => f[k] \in Contents
  PROVE  Files(e, f)
<1>1. /\ Records(e) /\ Forward(d, e)
      /\ e.video = d.video \/ (e.video \in Videos /\
           (e.video.id = d.video.id \/ d.complete[e.video.id] = "saved"))
  BY RecordsMove
<1>2. e.video \in Videos => e.video.id \in Imports /\ e.video # NoVideo
  BY NoVideoIsNone
<1>3. d.video = NoVideo => d.video.id \notin Imports
  BY NoVideoIsNone, NamesApart
<1>4. e.video # NoVideo => f[e.video.id] # None
  BY <1>1, <1>2, <1>3 DEF Files
<1>5. \A i \in Imports : e.complete[i] # "none" => f[i] \in Contents \cup {None}
  BY <1>1 DEF Files, Forward
<1>6. \A i \in Imports : e.complete[i] = "saved" => f[i] # None
  BY <1>1, NamesApart DEF Files, Forward
<1>7. QED
  BY <1>4, <1>5, <1>6 DEF Files

LEMMA QueuedMove ==
  ASSUME NEW d, NEW e, NEW q, Forward(d, e), Queued(d, q)
  PROVE  Queued(e, q)
<1>1. \A k \in DOMAIN q : q[k] \in QueueJobs
  BY DEF Queued
<1>2. \A k \in DOMAIN q : q[k].id \in Imports
  BY <1>1 DEF QueueJobs
<1>3. QED
  BY <1>2 DEF Queued, Forward

LEMMA ShownMove ==
  ASSUME NEW d, NEW e, NEW v, Records(d), Moves(d, e), Shown(d, v)
  PROVE  Shown(e, v)
<1>1. d.mapping # None => e.mapping = d.mapping
  BY RecordsMove
<1>2. v # NoVideo => d.mapping # None
  BY NoVideoIsNone, NamesApart DEF Shown
<1>3. QED
  BY <1>1, <1>2 DEF Shown

(* A step that may move the store, the job and the requests that end.      *)
LEMMA QuietStep ==
  ASSUME IInv, Moves(db, db'), NoneArrives(db, db'), AtWork(db', job'),
         disk' = disk, Queued(db', queue'), opening' \in {opening, NoVideo, db.video},
         \A i \in uploads' : i \in uploads \/ (i \in Imports /\ db.complete[i] = "none"),
         served' = served, Plain'
  PROVE  IInv'
<1>1. Records(db') /\ Forward(db, db') /\ \A v : Known(db, v) => Known(db', v)
  BY RecordsMove DEF IInv
<1>2. Files(db', disk')
  BY FilesMove, NamesApart DEF IInv, NoneArrives
<1>3. Shown(db', served')
  BY ShownMove DEF IInv
<1>4. Requested(db', opening', uploads')
  <2>1. db.video \in Videos \cup {NoVideo} /\ Known(db, db.video) /\ Known(db, NoVideo)
    BY DEF IInv, Records, Db, Known
  <2>2. opening' \in Videos \cup {NoVideo} /\ Known(db', opening')
    BY <1>1, <2>1 DEF IInv, Requested
  <2>3. \A i \in uploads' : i \in Imports /\ db'.complete[i] = "none"
    BY DEF IInv, Requested, NoneArrives
  <2>4. QED
    BY <2>2, <2>3 DEF Requested
<1>5. QED
  BY <1>1, <1>2, <1>3, <1>4 DEF IInv

(* The same for steps of others than the job.                              *)
LEMMA OutsideStep ==
  ASSUME IInv, Moves(db, db'), NoneArrives(db, db'), Calm(db, db'), job' \in {job, NoJob},
         disk' = disk, Queued(db, queue'), opening' \in {opening, NoVideo, db.video},
         \A i \in uploads' : i \in uploads \/ (i \in Imports /\ db.complete[i] = "none"),
         served' = served, Plain'
  PROVE  IInv'
<1>1. Forward(db, db') /\ AtWork(db', job)
  BY RecordsMove, AtWorkStays DEF IInv
<1>2. AtWork(db', job') /\ Queued(db', queue')
  BY <1>1, IdleAtWork, QueuedMove
<1>3. QED
  BY <1>2, QuietStep

LEMMA CommitMoves ==
  ASSUME NEW expected, NEW new, NEW result, Commit(expected, new, result),
         expected \in {Anyone, db.video.id} => Moves(db, new)
  PROVE  /\ Moves(db, db') /\ workerError' \in {workerError, TRUE}
         /\ db' = db \/ (expected \in {Anyone, db.video.id} /\ db' = new)
         /\ result = "saved" => expected \in {Anyone, db.video.id} /\ db' = new
         /\ result = "refused" => db' = db
BY DEF Commit, Moves

(* What settles an import that is not the current copy.                    *)
LEMMA ImportSettles ==
  ASSUME Records(db), NEW i \in Imports, i # db.video.id, NEW s \in Statuses \ {"none", "uploading"}
  PROVE  /\ Moves(db, SetImport(db, i, s))
         /\ NoneArrives(db, SetImport(db, i, s)) /\ Calm(db, SetImport(db, i, s))
<1> DEFINE e == SetImport(db, i, s)
<1>1. /\ e \in Db /\ e.video = db.video /\ e.mapping = db.mapping /\ e.complete = db.complete
      /\ \A k \in Imports : e.imports[k] = IF k = i THEN s ELSE db.imports[k]
  BY SetImportFields DEF Records
<1> HIDE DEF e
<1>2. Settles(db, e, i)
  BY <1>1 DEF Settles, Forward
<1>3. QED
  BY <1>1, <1>2 DEF Moves, NoneArrives, Calm, e

LEMMA ImportProcessed ==
  ASSUME Records(db), NEW i \in Imports, i # db.video.id, NEW s \in Statuses \ {"none", "uploading"},
         db.complete[i] = "saved"
  PROVE  LET e == SetProcessed(SetImport(db, i, s), i) IN
         Moves(db, e) /\ NoneArrives(db, e) /\ e.complete[i] = "processed"
<1> DEFINE d == SetImport(db, i, s)
           e == SetProcessed(d, i)
<1>1. /\ d \in Db /\ d.video = db.video /\ d.mapping = db.mapping /\ d.complete = db.complete
      /\ \A k \in Imports : d.imports[k] = IF k = i THEN s ELSE db.imports[k]
  BY SetImportFields DEF Records
<1> HIDE DEF d
<1>2. /\ e \in Db /\ e.video = d.video /\ e.mapping = d.mapping /\ e.imports = d.imports
      /\ \A k \in Imports : e.complete[k] = IF k = i THEN "processed" ELSE d.complete[k]
  BY <1>1, StageFields DEF SetProcessed, Stages
<1> HIDE DEF e
<1>3. Settles(db, e, i)
  BY <1>1, <1>2 DEF Settles, Forward
<1>4. QED
  BY <1>1, <1>2, <1>3 DEF Moves, NoneArrives, d, e

(* The current copy gets another status.                                   *)
LEMMA StatusWrites ==
  ASSUME Records(db), NEW v, v # NoVideo, Known(db, v), v.id = db.video.id,
         NEW s \in CopyStatuses, s \in Verdicts => s = v.verification
  PROVE  LET e == writeCurrent(db, [v EXCEPT !.status = s]) IN
         Moves(db, e) /\ NoneArrives(db, e) /\ Calm(db, e) /\ e.complete = db.complete
<1> DEFINE w == [v EXCEPT !.status = s]
           e == writeCurrent(db, w)
<1>1. /\ w \in Videos /\ w.id = v.id /\ w.content = v.content /\ w.status = s
      /\ w.verification = v.verification /\ w.verifiedAgainst = v.verifiedAgainst
  BY DEF Known, Videos
<1> HIDE DEF w
<1>2. /\ e \in Db /\ e.video = w /\ e.mapping = db.mapping /\ e.complete = db.complete
      /\ \A k \in Imports : e.imports[k] = IF k = w.id THEN w.status ELSE db.imports[k]
  BY <1>1, WriteFields DEF Records
<1> HIDE DEF e
<1>3. w.id \in Imports
  BY <1>1, NoVideoIsNone
<1>4. Sound(db, w) /\ Follows(w)
  BY <1>1 DEF Known, Sound, Follows
<1>5. Writes(db, e, w)
  BY <1>1, <1>2, <1>3, <1>4 DEF Writes, Known
<1>6. QED
  BY <1>1, <1>2, <1>5 DEF Moves, NoneArrives, Calm, e, w

(* A content is judged by the mapping in force, or by none.                *)
LEMMA JudgedSound ==
  ASSUME NEW d \in Db, NEW i \in Imports, NEW content \in Contents, NEW mapping,
         mapping \in {None, d.mapping}
  PROVE  LET v == Judged(i, content, mapping) IN
         /\ v \in Videos /\ v.id = i /\ v.content = content
         /\ Sound(d, v) /\ Follows(v)
<1> DEFINE v == Judged(i, content, mapping)
<1>1. CASE mapping = None
  <2>1. v = [id |-> i, content |-> content, status |-> "waiting_report", verification |-> None,
             verifiedAgainst |-> FALSE]
    BY <1>1 DEF Judged
  <2>2. QED
    BY <2>1, NamesApart DEF Videos, Sound, Follows, CopyStatuses, Verdicts
<1>2. CASE mapping # None
  <2>1. CASE content = mapping
    <3>1. v = [id |-> i, content |-> content, status |-> "verified", verification |-> "verified",
               verifiedAgainst |-> TRUE]
      BY <1>2, <2>1 DEF Judged
    <3>2. QED
      BY <1>2, <2>1, <3>1 DEF Videos, Sound, Follows, CopyStatuses, Verdicts
  <2>2. CASE content # mapping
    <3>1. v = [id |-> i, content |-> content, status |-> "mismatch", verification |-> "mismatch",
               verifiedAgainst |-> FALSE]
      BY <1>2, <2>2 DEF Judged
    <3>2. QED
      BY <1>2, <2>2, <3>1 DEF Videos, Sound, Follows, CopyStatuses, Verdicts
  <2>3. QED
    BY <2>1, <2>2
<1>3. QED
  BY <1>1, <1>2

(* A new copy takes the place of the current one, if there is one.         *)
LEMMA NewCopyWrites ==
  ASSUME Records(db), NEW i \in Imports, db.complete[i] = "saved", NEW content \in Contents,
         NEW mapping, mapping \in {None, db.mapping}
  PROVE  LET e == NewCopy(i, content, mapping) IN
         Moves(db, e) /\ NoneArrives(db, e) /\ e.video.id = i /\ e.video.content = content
<1> DEFINE v == Judged(i, content, mapping)
           d == writeCurrent(db, v)
           e == NewCopy(i, content, mapping)
<1>1. db \in Db /\ v \in Videos /\ v.id = i /\ v.content = content /\ Sound(db, v) /\ Follows(v)
  BY JudgedSound DEF Records
<1> HIDE DEF v
<1>2. /\ d \in Db /\ d.video = v /\ d.mapping = db.mapping /\ d.complete = db.complete
      /\ \A k \in Imports : d.imports[k] = IF k = i THEN v.status ELSE db.imports[k]
  BY <1>1, WriteFields
<1>3. e = SetProcessed(d, i)
  BY DEF NewCopy, v
<1> HIDE DEF d, e
<1>4. /\ e \in Db /\ e.video = d.video /\ e.mapping = d.mapping /\ e.imports = d.imports
      /\ \A k \in Imports : e.complete[k] = IF k = i THEN "processed" ELSE d.complete[k]
  BY <1>2, <1>3, StageFields DEF SetProcessed, Stages
<1>5. Writes(db, e, v)
  BY <1>1, <1>2, <1>4 DEF Writes
<1>6. NoneArrives(db, e)
  BY <1>2, <1>4 DEF NoneArrives
<1>7. QED
  BY <1>1, <1>2, <1>4, <1>5, <1>6 DEF Moves, e

-----------------------------------------------------------------------------
(* Only a copy that was processed can be the current one.                  *)
LEMMA ArrivingApart ==
  ASSUME Records(db), NEW i \in Imports, db.complete[i] # "processed"
  PROVE  i # db.video.id
<1>1. db.video # NoVideo => db.complete[db.video.id] = "processed"
  BY DEF Records, Known
<1>2. NoVideo.id # i
  BY NoVideoIsNone, NamesApart
<1>3. QED
  BY <1>1, <1>2

(* Requests.                                                               *)
LEMMA CreateBatchStep ==
  ASSUME IInv, NEW i \in Imports, createBatch(i)
  PROVE  IInv'
<1>1. /\ db.imports[i] = "none" /\ db' = SetImport(db, i, "uploading")
      /\ UNCHANGED <<disks, phase, jobs, reporting, requests, workerError>>
  BY DEF createBatch
<1>2. db.complete[i] = "none" /\ db \in Db /\ Records(db)
  BY <1>1 DEF IInv, Records
<1>3. i # db.video.id
  BY <1>2, ArrivingApart
<1>4. /\ db' \in Db /\ db'.video = db.video /\ db'.mapping = db.mapping /\ db'.complete = db.complete
      /\ \A k \in Imports : db'.imports[k] = IF k = i THEN "uploading" ELSE db.imports[k]
  BY <1>1, <1>2, SetImportFields DEF Statuses
<1>5. Settles(db, db', i)
  BY <1>2, <1>3, <1>4 DEF Settles, Forward
<1>6. Moves(db, db') /\ NoneArrives(db, db') /\ Calm(db, db')
  BY <1>4, <1>5 DEF Moves, NoneArrives, Calm
<1>7. Plain'
  BY <1>1 DEF IInv, Plain, disks, reporting
<1>8. QED
  BY <1>1, <1>6, <1>7, OutsideStep DEF IInv, disks, jobs, requests

LEMMA UploadStep ==
  ASSUME IInv, NEW i \in Imports, upload(i)
  PROVE  IInv'
<1>1. /\ db.imports[i] = "uploading" /\ uploads' = uploads \cup {i} /\ db' = db
      /\ UNCHANGED <<disks, phase, jobs, reporting, opening, served, workerError>>
  BY DEF upload
<1>2. db.complete[i] = "none"
  BY <1>1 DEF IInv, Records
<1>3. Moves(db, db') /\ NoneArrives(db, db') /\ Calm(db, db')
  BY <1>1 DEF Moves, NoneArrives, Calm
<1>4. Plain'
  BY <1>1 DEF IInv, Plain, disks, reporting
<1>5. QED
  BY <1>1, <1>2, <1>3, <1>4, OutsideStep DEF IInv, disks, jobs

LEMMA UploadCompletesStep ==
  ASSUME IInv, NEW i \in Imports, UploadCompletes(i)
  PROVE  IInv'
<1> DEFINE d == [db EXCEPT !.complete[i] = "saved"]
           e == SetImport(d, i, "received")
<1>1. /\ i \in uploads /\ uploads' = uploads \ {i}
      /\ UNCHANGED <<hidden, phase, job, reporting, opening, served>>
  BY DEF UploadCompletes
<1>2. PICK content \in Contents : disk' = [disk EXCEPT ![i] = content]
  BY DEF UploadCompletes
<1>3. PICK result \in Results :
        /\ Commit(Anyone, e, result)
        /\ queue' = IF result = "saved" THEN Append(queue, Process(i)) ELSE queue
  BY DEF UploadCompletes
<1>4. Records(db) /\ db.complete[i] = "none" /\ i # db.video.id /\ db \in Db
  BY <1>1, ArrivingApart DEF IInv, Requested, Records
<1>5. /\ d \in Db /\ d.video = db.video /\ d.mapping = db.mapping /\ d.imports = db.imports
      /\ \A k \in Imports : d.complete[k] = IF k = i THEN "saved" ELSE db.complete[k]
  BY <1>4, StageFields DEF Stages
<1> HIDE DEF d
<1>6. /\ e \in Db /\ e.video = d.video /\ e.mapping = d.mapping /\ e.complete = d.complete
      /\ \A k \in Imports : e.imports[k] = IF k = i THEN "received" ELSE d.imports[k]
  BY <1>5, SetImportFields DEF Statuses
<1> HIDE DEF e
<1>7. Settles(db, e, i)
  BY <1>4, <1>5, <1>6 DEF Settles, Forward
<1>8. Moves(db, e) /\ Calm(db, e)
  BY <1>4, <1>5, <1>6, <1>7 DEF Moves, Calm
<1>9. Moves(db, db') /\ (db' = db \/ db' = e) /\ (result = "saved" => db' = e)
      /\ workerError' \in {workerError, TRUE}
  BY <1>3, <1>8, CommitMoves
<1>10. Calm(db, db') /\ \A k \in Imports : k # i => db'.complete[k] = db.complete[k]
  BY <1>5, <1>6, <1>8, <1>9 DEF Calm
<1>11. Records(db') /\ Forward(db, db') /\ (\A v : Known(db, v) => Known(db', v))
       /\ AtWork(db', job')
  BY <1>1, <1>4, <1>9, <1>10, RecordsMove, AtWorkStays DEF IInv
<1>12. Files(db', disk')
  <2>1. Files(db, disk')
    BY <1>2, <1>4, NamesApart DEF IInv, Files
  <2>2. disk'[i] \in Contents
    BY <1>2 DEF IInv, Files
  <2>3. QED
    BY <1>4, <1>9, <1>10, <2>1, <2>2, FilesMove
<1>13. Queued(db', queue')
  <2>1. Queued(db', queue)
    BY <1>11, QueuedMove DEF IInv
  <2>2. CASE result # "saved"
    BY <1>3, <2>1, <2>2
  <2>3. CASE result = "saved"
    <3>1. Process(i) \in QueueJobs /\ Process(i).id = i
      BY DEF Process, QueueJobs
    <3>2. db'.complete[i] = "saved"
      BY <1>5, <1>6, <1>9, <2>3
    <3>3. queue \in Seq(QueueJobs) /\ queue' = Append(queue, Process(i))
      BY <1>3, <2>3 DEF IInv, Queued
    <3>4. /\ queue' \in Seq(QueueJobs) /\ Len(queue) \in Nat /\ Len(queue') = Len(queue) + 1
          /\ \A k \in 1 .. Len(queue) : queue'[k] = queue[k]
          /\ queue'[Len(queue) + 1] = Process(i)
      BY <3>1, <3>3, AppendProperties
    <3>5. DOMAIN queue = 1 .. Len(queue) /\ DOMAIN queue' = 1 .. Len(queue')
      BY <3>3, <3>4
    <3>6. \A k \in DOMAIN queue' : k \in DOMAIN queue \/ k = Len(queue) + 1
      BY <3>4, <3>5
    <3>7. QED
      BY <2>1, <3>1, <3>2, <3>4, <3>5, <3>6 DEF Queued
  <2>4. QED
    BY <2>2, <2>3
<1>14. Requested(db', opening', uploads')
  BY <1>1, <1>10, <1>11 DEF IInv, Requested
<1>15. Shown(db', served')
  BY <1>1, <1>4, <1>9, ShownMove DEF IInv
<1>16. Plain'
  BY <1>1, <1>9 DEF IInv, Plain, reporting
<1>17. QED
  BY <1>11, <1>12, <1>13, <1>14, <1>15, <1>16 DEF IInv

LEMMA InterruptedMoves ==
  ASSUME IInv, NEW i \in Imports, db.complete[i] = "none", Interrupted(i)
  PROVE  /\ Moves(db, db') /\ NoneArrives(db, db') /\ Calm(db, db')
         /\ reportQueue' \in Seq(BOOLEAN) /\ workerError' \in BOOLEAN
         /\ reportQueue' = <<>> => reportQueue = <<>>
<1> DEFINE e == SetImport(db, i, "interrupted")
<1>1. PICK result \in Results :
        /\ Commit(Anyone, e, result)
        /\ reportQueue' = IF result = "saved" THEN Append(reportQueue, FALSE) ELSE reportQueue
  BY DEF Interrupted
<1>2. Records(db) /\ i # db.video.id
  BY ArrivingApart DEF IInv
<1>3. Moves(db, e) /\ NoneArrives(db, e) /\ Calm(db, e)
  BY <1>2, ImportSettles DEF Statuses
<1> HIDE DEF e
<1>4. Moves(db, db') /\ (db' = db \/ db' = e) /\ workerError' \in {workerError, TRUE}
  BY <1>1, <1>3, CommitMoves
<1>5. reportQueue \in Seq(BOOLEAN) /\ workerError \in BOOLEAN
  BY DEF IInv, Plain
<1>6. reportQueue' \in Seq(BOOLEAN) /\ (reportQueue' = <<>> => reportQueue = <<>>)
  <2>1. Append(reportQueue, FALSE) \in Seq(BOOLEAN) /\ Append(reportQueue, FALSE) # <<>>
    BY <1>5, AppendProperties
  <2>2. QED
    BY <1>1, <1>5, <2>1
<1>7. workerError' \in BOOLEAN
  BY <1>4, <1>5
<1>8. QED
  BY <1>3, <1>4, <1>6, <1>7 DEF NoneArrives, Calm

LEMMA UploadFailsStep ==
  ASSUME IInv, NEW i \in Imports, UploadFails(i)
  PROVE  IInv'
<1>1. /\ i \in uploads /\ uploads' = uploads \ {i}
      /\ UNCHANGED <<hidden, phase, jobs, reportAt, opening, served>>
      /\ \E left \in {disk[i], Part} : disk' = [disk EXCEPT ![i] = IF disk[i] = None THEN left ELSE disk[i]]
  BY DEF UploadFails
<1>2. Records(db) /\ db.complete[i] = "none" /\ i # db.video.id
  BY <1>1, ArrivingApart DEF IInv, Requested
<1>3. /\ Moves(db, db') /\ NoneArrives(db, db') /\ Calm(db, db')
      /\ reportQueue' \in Seq(BOOLEAN) /\ workerError' \in BOOLEAN
      /\ reportQueue' = <<>> => reportQueue = <<>>
  <2>1. CASE Interrupted(i)
    BY <1>2, <2>1, InterruptedMoves
  <2>2. CASE UNCHANGED <<db, reportQueue, workerError>>
    BY <2>2 DEF Moves, NoneArrives, Calm, IInv, Plain
  <2>3. QED
    BY <2>1, <2>2 DEF UploadFails
<1>4. Records(db') /\ Forward(db, db') /\ (\A v : Known(db, v) => Known(db', v))
      /\ AtWork(db', job')
  BY <1>1, <1>2, <1>3, RecordsMove, AtWorkStays DEF IInv, jobs
<1>5. Files(db', disk')
  <2>1. Files(db, disk')
    BY <1>1, <1>2 DEF IInv, Files
  <2>2. QED
    BY <1>2, <1>3, <2>1, NamesApart, FilesMove DEF NoneArrives
<1>6. Queued(db', queue') /\ Shown(db', served')
  BY <1>1, <1>2, <1>3, <1>4, QueuedMove, ShownMove DEF IInv, jobs
<1>7. Requested(db', opening', uploads')
  BY <1>1, <1>3, <1>4 DEF IInv, Requested, NoneArrives
<1>8. Plain'
  BY <1>1, <1>3 DEF IInv, Plain
<1>9. QED
  BY <1>4, <1>5, <1>6, <1>7, <1>8 DEF IInv

LEMMA FailUploadStep ==
  ASSUME IInv, NEW i \in Imports, failUpload(i)
  PROVE  IInv'
<1>1. /\ db.complete[i] = "none" /\ Interrupted(i)
      /\ UNCHANGED <<disks, phase, jobs, reportAt, requests>>
  BY DEF failUpload
<1>2. /\ Moves(db, db') /\ NoneArrives(db, db') /\ Calm(db, db')
      /\ reportQueue' \in Seq(BOOLEAN) /\ workerError' \in BOOLEAN
      /\ reportQueue' = <<>> => reportQueue = <<>>
  BY <1>1, InterruptedMoves
<1>3. Plain'
  BY <1>1, <1>2 DEF IInv, Plain, disks
<1>4. QED
  BY <1>1, <1>2, <1>3, OutsideStep DEF IInv, disks, jobs, requests

LEMMA OpenStep ==
  ASSUME IInv, openVideo
  PROVE  IInv'
<1>1. /\ opening' = db.video /\ db' = db
      /\ UNCHANGED <<disks, phase, jobs, reporting, uploads, served, workerError>>
  BY DEF openVideo
<1>2. Moves(db, db') /\ NoneArrives(db, db') /\ Calm(db, db')
  BY <1>1 DEF Moves, NoneArrives, Calm
<1>3. Plain'
  BY <1>1 DEF IInv, Plain, disks, reporting
<1>4. QED
  BY <1>1, <1>2, <1>3, OutsideStep DEF IInv, disks, jobs

(* What is given to play was the current copy, verified, at that moment.   *)
LEMMA VideoOpenedStep ==
  ASSUME IInv, VideoOpened
  PROVE  IInv'
<1>1. /\ opening' = NoVideo /\ db' = db /\ served' = IF Admitted(opening) THEN db.video ELSE served
      /\ opening # NoVideo
      /\ UNCHANGED <<disks, phase, jobs, reporting, uploads, workerError>>
  BY DEF VideoOpened
<1>2. Plain'
  BY <1>1 DEF IInv, Plain, disks, reporting
<1>3. Shown(db', served')
  <2>1. CASE ~Admitted(opening)
    BY <1>1, <2>1 DEF IInv
  <2>2. CASE Admitted(opening)
    <3>1. db.video \in Videos \cup {NoVideo} /\ db.video.status = "verified" /\ db.mapping # None
      BY <2>2 DEF IInv, Records, Db, Admitted, Playable
    <3>2. db.video.id = opening.id /\ opening.id \in Imports
      BY <1>1, <2>2, NoVideoIsNone DEF Admitted, IInv, Requested
    <3>3. db.video # NoVideo
      BY <3>2, NoVideoIsNone, NamesApart
    <3>4. db.video.verification = "verified"
      BY <3>1, <3>3 DEF IInv, Records, Follows, Verdicts
    <3>5. db.video.content = db.mapping
      BY <3>3, <3>4, NamesApart DEF IInv, Records, Known, Sound
    <3>6. QED
      BY <1>1, <2>2, <3>1, <3>5 DEF Shown
  <2>3. QED
    BY <2>1, <2>2
<1>4. Known(db, NoVideo)
  BY DEF Known
<1>5. QED
  BY <1>1, <1>2, <1>3, <1>4 DEF IInv, disks, jobs, Requested

LEMMA UnreadableMoves ==
  ASSUME Records(db), NEW v \in Videos \cup {NoVideo}, v # NoVideo, Known(db, v), NEW result \in Results,
         Commit(v.id, unavailable(db, v), result)
  PROVE  /\ Moves(db, db') /\ NoneArrives(db, db') /\ Calm(db, db') /\ db'.complete = db.complete
         /\ workerError' \in {workerError, TRUE}
<1> DEFINE e == unavailable(db, v)
<1>1. v.id # Anyone
  BY NoVideoIsNone, NamesApart
<1>2. v.id = db.video.id =>
        Moves(db, e) /\ NoneArrives(db, e) /\ Calm(db, e) /\ e.complete = db.complete
  BY StatusWrites DEF unavailable, CopyStatuses, Verdicts
<1> HIDE DEF e
<1>3. /\ Moves(db, db') /\ workerError' \in {workerError, TRUE}
      /\ db' = db \/ (v.id = db.video.id /\ db' = e)
  <2>1. Commit(v.id, e, result)
    BY DEF e
  <2>2. QED
    BY <1>1, <1>2, <2>1, CommitMoves
<1>4. QED
  BY <1>2, <1>3 DEF NoneArrives, Calm

LEMMA VideoUnreadableStep ==
  ASSUME IInv, VideoUnreadable
  PROVE  IInv'
<1>1. /\ opening # NoVideo /\ opening' = NoVideo
      /\ UNCHANGED <<disks, phase, jobs, reporting, uploads, served>>
      /\ \E result \in Results : Commit(opening.id, unavailable(db, opening), result)
  BY DEF VideoUnreadable
<1>2. /\ Moves(db, db') /\ NoneArrives(db, db') /\ Calm(db, db') /\ workerError' \in {workerError, TRUE}
  BY <1>1, UnreadableMoves DEF IInv, Requested
<1>3. Plain'
  BY <1>1, <1>2 DEF IInv, Plain, disks, reporting
<1>4. QED
  BY <1>1, <1>2, <1>3, OutsideStep DEF IInv, disks, jobs

-----------------------------------------------------------------------------
(* The media queue.  A step of its job moves the store and the job only.   *)
LEMMA JobStep ==
  ASSUME IInv, Moves(db, db'), NoneArrives(db, db'), AtWork(db', job'),
         UNCHANGED <<queue, media>>, workerError' \in {workerError, TRUE}
  PROVE  IInv'
<1>1. Forward(db, db')
  BY RecordsMove DEF IInv
<1>2. Queued(db', queue')
  BY <1>1, QueuedMove DEF IInv, media
<1>3. Plain'
  BY DEF IInv, Plain, media, disks, reporting
<1>4. QED
  BY <1>2, <1>3, QuietStep DEF media, disks, requests

LEMMA StayMoves == Moves(db, db) /\ NoneArrives(db, db) /\ Calm(db, db)
BY DEF Moves, NoneArrives, Calm

LEMMA VerifyAtWork ==
  ASSUME NEW d, Records(d), NEW i \in Imports
  PROVE  AtWork(d, StartVerify(d, i))
<1>1. CASE d.video.id # i
  BY <1>1, IdleAtWork DEF StartVerify
<1>2. CASE d.video.id = i
  <2>1. d.video # NoVideo /\ d.video \in Videos /\ Known(d, d.video)
    BY <1>2, NoVideoIsNone, NamesApart DEF Records, Db
  <2> DEFINE j == [NoJob EXCEPT !.kind = "verify", !.id = i, !.at = "readable", !.video = d.video]
  <2>2. StartVerify(d, i) = j
    BY <1>2 DEF StartVerify
  <2>3. j \in Jobs /\ j.at = "readable" /\ j.id = i /\ j.video = d.video /\ j.mapping = None
    BY <2>1, NoJobFields DEF Jobs, Ats
  <2> HIDE DEF j
  <2>4. AtWork(d, j)
    BY <1>2, <2>1, <2>3 DEF AtWork
  <2>5. QED
    BY <2>2, <2>4
<1>3. QED
  BY <1>1, <1>2

LEMMA ProcessAtWork ==
  ASSUME NEW d, NEW i \in Imports, d.complete[i] = "saved"
  PROVE  AtWork(d, [NoJob EXCEPT !.kind = "process", !.id = i, !.at = "hash_new"])
<1> DEFINE j == [NoJob EXCEPT !.kind = "process", !.id = i, !.at = "hash_new"]
<1>1. j \in Jobs /\ j.at = "hash_new" /\ j.id = i /\ j.video = NoVideo /\ j.mapping = None
  BY NoJobFields DEF Jobs, Ats
<1> HIDE DEF j
<1>2. AtWork(d, j)
  BY <1>1 DEF AtWork, Known
<1>3. QED
  BY <1>2 DEF j

(* What removeTemporary is given, by the store it is asked of.             *)
LEMMA RemovalAtWork ==
  ASSUME NEW i \in Imports
  PROVE  AtWork(db', Removal(i))
<1>1. CASE ~Removable(db', i)
  BY <1>1, IdleAtWork DEF Removal
<1>2. CASE Removable(db', i)
  <2> DEFINE j == [NoJob EXCEPT !.kind = "process", !.at = "remove", !.id = i]
  <2>1. Removal(i) = j
    BY <1>2 DEF Removal
  <2>2. j \in Jobs /\ j.at = "remove" /\ j.id = i /\ j.video = NoVideo /\ j.mapping = None
    BY NoJobFields DEF Jobs, Ats
  <2> HIDE DEF j
  <2>3. AtWork(db', j)
    BY <1>2, <2>2 DEF AtWork, Known, Removable
  <2>4. QED
    BY <2>1, <2>3
<1>3. QED
  BY <1>1, <1>2

LEMMA StartJobStep ==
  ASSUME IInv, StartJob
  PROVE  IInv'
<1> DEFINE next == Head(queue)
<1>1. /\ queue # <<>> /\ queue' = Tail(queue) /\ db' = db /\ UNCHANGED <<media, workerError>>
      /\ job' = CASE next.kind = "verify" -> StartVerify(db, next.id)
                  [] next.kind = "process" /\ db.complete[next.id] = "processed" -> NoJob
                  [] OTHER -> [NoJob EXCEPT !.kind = "process", !.id = next.id, !.at = "hash_new"]
  BY DEF StartJob
<1>2. queue \in Seq(QueueJobs)
  BY DEF IInv, Queued
<1>3. /\ next \in QueueJobs /\ Tail(queue) \in Seq(QueueJobs)
      /\ \A k \in 1 .. Len(Tail(queue)) : Tail(queue)[k] = queue[k + 1]
      /\ Len(Tail(queue)) = Len(queue) - 1 /\ Len(queue) \in Nat
  BY <1>1, <1>2, HeadTailProperties, LenProperties
<1>4. DOMAIN queue = 1 .. Len(queue) /\ DOMAIN Tail(queue) = 1 .. Len(Tail(queue))
  BY <1>2, <1>3, LenProperties
<1>5. 1 \in DOMAIN queue /\ next = queue[1]
  BY <1>1, <1>2, <1>3, <1>4, EmptySeq
<1>6. next.id \in Imports /\ (next.kind = "process" => db.complete[next.id] # "none")
      /\ next.kind \in {"process", "verify"}
  BY <1>3, <1>5 DEF IInv, Queued, QueueJobs
<1>7. \A k \in DOMAIN Tail(queue) : k + 1 \in DOMAIN queue /\ Tail(queue)[k] = queue[k + 1]
  BY <1>3, <1>4
<1>8. Queued(db', queue')
  BY <1>1, <1>3, <1>7 DEF IInv, Queued
<1> HIDE DEF next
<1>9. AtWork(db, job')
  <2>1. CASE next.kind = "verify"
    BY <1>1, <1>6, <2>1, VerifyAtWork DEF IInv
  <2>2. CASE next.kind = "process" /\ db.complete[next.id] = "processed"
    BY <1>1, <2>2, IdleAtWork
  <2>3. CASE next.kind = "process" /\ db.complete[next.id] # "processed"
    <3>1. db.complete[next.id] = "saved"
      BY <1>6, <2>3 DEF IInv, Records, Db, Stages
    <3>2. job' = [NoJob EXCEPT !.kind = "process", !.id = next.id, !.at = "hash_new"]
      BY <1>1, <2>3
    <3>3. QED
      BY <1>6, <3>1, <3>2, ProcessAtWork
  <2>4. QED
    BY <1>6, <2>1, <2>2, <2>3
<1>10. Plain'
  BY <1>1 DEF IInv, Plain, media, disks, reporting
<1>11. QED
  BY <1>1, <1>8, <1>9, <1>10, StayMoves, QuietStep DEF media, disks, requests

LEMMA HashNewFailsStep ==
  ASSUME IInv, HashNewFails
  PROVE  IInv'
<1> DEFINE e == SetImport(db, job.id, "unavailable")
<1>1. /\ job.at = "hash_new" /\ job' = NoJob /\ UNCHANGED <<queue, media>>
      /\ \E result \in Results : Commit(Anyone, e, result)
  BY DEF HashNewFails
<1>2. job.id \in Imports /\ Records(db) /\ job.id # db.video.id
  BY <1>1, ArrivingApart DEF IInv, AtWork
<1>3. Moves(db, e) /\ NoneArrives(db, e)
  BY <1>2, ImportSettles DEF Statuses, CopyStatuses
<1> HIDE DEF e
<1>4. Moves(db, db') /\ (db' = db \/ db' = e) /\ workerError' \in {workerError, TRUE}
  BY <1>1, <1>3, CommitMoves
<1>5. NoneArrives(db, db')
  BY <1>3, <1>4 DEF NoneArrives
<1>6. QED
  BY <1>1, <1>4, <1>5, IdleAtWork, JobStep

LEMMA HashNewStep ==
  ASSUME IInv, HashNew
  PROVE  IInv'
<1> DEFINE content == disk[job.id]
           e == NewCopy(job.id, content, db.mapping)
<1>1. job.at = "hash_new" /\ Readable(job.id) /\ UNCHANGED <<queue, media>>
  BY DEF HashNew
<1>2. job.id \in Imports /\ Records(db) /\ db.complete[job.id] = "saved"
  BY <1>1 DEF IInv, AtWork
<1>3. content \in Contents
  BY <1>1, <1>2 DEF IInv, Files, Readable
<1>4. CASE db.video = NoVideo
  <2>1. job' = NoJob /\ \E result \in Results : Commit(None, e, result)
    BY <1>4 DEF HashNew
  <2>2. Moves(db, e) /\ NoneArrives(db, e)
    BY <1>2, <1>3, NewCopyWrites
  <2> HIDE DEF e
  <2>3. Moves(db, db') /\ (db' = db \/ db' = e) /\ workerError' \in {workerError, TRUE}
    BY <2>1, <2>2, CommitMoves
  <2>4. NoneArrives(db, db')
    BY <2>2, <2>3 DEF NoneArrives
  <2>5. QED
    BY <1>1, <2>1, <2>3, <2>4, IdleAtWork, JobStep
<1>5. CASE db.video # NoVideo
  <2>1. /\ job' = [job EXCEPT !.at = "hash_old", !.video = db.video, !.content = content,
                              !.mapping = db.mapping]
        /\ UNCHANGED <<db, workerError>>
    BY <1>5 DEF HashNew
  <2> HIDE DEF content
  <2>2. job \in Jobs /\ db.video \in Videos \cup {NoVideo} /\ db.mapping \in {None, Reported}
    BY DEF IInv, AtWork, Records, Db
  <2>3. /\ job' \in Jobs /\ job'.at = "hash_old" /\ job'.video = db.video
        /\ job'.content = content /\ job'.mapping = db.mapping /\ job'.id = job.id
    BY <1>3, <2>1, <2>2 DEF Jobs, Ats
  <2>4. AtWork(db, job')
    BY <1>2, <1>3, <1>5, <2>3 DEF AtWork, Records
  <2>5. QED
    BY <1>1, <2>1, <2>4, StayMoves, JobStep
<1>6. QED
  BY <1>4, <1>5

LEMMA HashOldFailsStep ==
  ASSUME IInv, HashOldFails
  PROVE  IInv'
<1> DEFINE j == [job EXCEPT !.at = "reject"]
<1>1. job.at = "hash_old" /\ UNCHANGED <<queue, media>>
  BY DEF HashOldFails
<1>2. PICK result \in Results : /\ Commit(job.video.id, unavailable(db, job.video), result)
                                /\ job' = IF result = "thrown" THEN NoJob ELSE j
  BY DEF HashOldFails
<1>3. job \in Jobs /\ job.video # NoVideo /\ Known(db, job.video) /\ Records(db) /\ AtWork(db, job)
  BY <1>1 DEF IInv, AtWork
<1>4. /\ Moves(db, db') /\ NoneArrives(db, db') /\ Calm(db, db') /\ workerError' \in {workerError, TRUE}
  <2>1. job.video \in Videos \cup {NoVideo}
    BY <1>3 DEF Jobs
  <2>2. QED
    BY <1>2, <1>3, <2>1, UnreadableMoves
<1>5. /\ j \in Jobs /\ j.at = "reject" /\ j.id = job.id /\ j.video = job.video
      /\ j.mapping = job.mapping /\ j.content = job.content
  BY <1>3 DEF Jobs, Ats
<1> HIDE DEF j
<1>6. AtWork(db, j)
  BY <1>1, <1>3, <1>5 DEF AtWork
<1>7. AtWork(db', job')
  BY <1>2, <1>3, <1>4, <1>6, AtWorkStays, IdleAtWork
<1>8. QED
  BY <1>1, <1>4, <1>7, JobStep

LEMMA RejectStep ==
  ASSUME IInv, Reject
  PROVE  IInv'
<1> DEFINE e == SetImport(db, job.id, "unavailable")
<1>1. /\ job.at = "reject" /\ job' = NoJob /\ UNCHANGED <<queue, media>>
      /\ \E result \in Results : Commit(job.video.id, e, result)
  BY DEF Reject
<1>2. job.id \in Imports /\ Records(db) /\ job.id # db.video.id
  BY <1>1, ArrivingApart DEF IInv, AtWork
<1>3. Moves(db, e) /\ NoneArrives(db, e)
  BY <1>2, ImportSettles DEF Statuses, CopyStatuses
<1> HIDE DEF e
<1>4. Moves(db, db') /\ (db' = db \/ db' = e) /\ workerError' \in {workerError, TRUE}
  BY <1>1, <1>3, CommitMoves
<1>5. NoneArrives(db, db')
  BY <1>3, <1>4 DEF NoneArrives
<1>6. QED
  BY <1>1, <1>4, <1>5, IdleAtWork, JobStep

(* The three ways to decide between two contents, each followed by the     *)
(* removal of the file that lost.                                          *)
LEMMA HashOldStep ==
  ASSUME IInv, HashOld
  PROVE  IInv'
<1> DEFINE i == job.id
           old == disk[job.video.id]
           new == job.content
           Settle(status) == SetProcessed(SetImport(db, i, status), i)
           copy == NewCopy(i, new, job.mapping)
<1>1. job.at = "hash_old" /\ Readable(job.video.id) /\ UNCHANGED <<queue, media>>
  BY DEF HashOld
<1>2. /\ job \in Jobs /\ job.video \in Videos /\ Known(db, job.video) /\ Records(db)
      /\ i \in Imports /\ db.complete[i] = "saved" /\ new \in Contents
      /\ job.mapping \in {None, db.mapping} /\ job.video.id \in Imports
  BY <1>1, NoVideoIsNone DEF IInv, AtWork, Jobs
<1>3. i # db.video.id
  BY <1>2, ArrivingApart
<1>4. ASSUME NEW e, NEW result \in Results, Moves(db, e), NoneArrives(db, e),
             Commit(job.video.id, e, result), AtWork(db', job')
      PROVE  IInv'
  <2>1. Moves(db, db') /\ (db' = db \/ db' = e) /\ workerError' \in {workerError, TRUE}
    BY <1>4, CommitMoves
  <2>2. NoneArrives(db, db')
    BY <1>4, <2>1 DEF NoneArrives
  <2>3. QED
    BY <1>1, <1>4, <2>1, <2>2, JobStep
<1>5. ASSUME NEW result \in Results, Commit(job.video.id, Settle("duplicate"), result),
             Finally(result, IF Removable(db', i) THEN [job EXCEPT !.at = "remove_then_verify"]
                             ELSE StartVerify(db', job.video.id))
      PROVE  IInv'
  <2> DEFINE e == Settle("duplicate")
             j == [job EXCEPT !.at = "remove_then_verify"]
  <2>1. Moves(db, e) /\ NoneArrives(db, e)
    BY <1>2, <1>3, ImportProcessed DEF Statuses
  <2>2. Commit(job.video.id, e, result)
    BY <1>5
  <2> HIDE DEF e
  <2>3. Moves(db, db')
    BY <2>1, <2>2, CommitMoves
  <2>4. /\ Records(db') /\ Known(db', job.video)
        /\ db.mapping # None => db'.mapping = db.mapping
    BY <1>2, <2>3, RecordsMove
  <2>5. /\ j \in Jobs /\ j.at = "remove_then_verify" /\ j.id = i /\ j.video = job.video
        /\ j.mapping = job.mapping
    BY <1>2 DEF Jobs, Ats
  <2> HIDE DEF j
  <2>6. Removable(db', i) => AtWork(db', j)
    BY <1>2, <2>4, <2>5, NoVideoIsNone DEF AtWork, Removable
  <2>7. AtWork(db', StartVerify(db', job.video.id))
    BY <1>2, <2>4, VerifyAtWork
  <2>8. AtWork(db', job')
    BY <1>5, <2>6, <2>7, IdleAtWork DEF Finally, j
  <2>9. QED
    BY <1>4, <2>1, <2>2, <2>8
<1>6. ASSUME NEW result \in Results, Commit(job.video.id, Settle("conflict"), result),
             Finally(result, Removal(i))
      PROVE  IInv'
  <2> DEFINE e == Settle("conflict")
  <2>1. Moves(db, e) /\ NoneArrives(db, e)
    BY <1>2, <1>3, ImportProcessed DEF Statuses
  <2>2. Commit(job.video.id, e, result)
    BY <1>6
  <2> HIDE DEF e
  <2>3. AtWork(db', job')
    BY <1>2, <1>6, RemovalAtWork, IdleAtWork DEF Finally
  <2>4. QED
    BY <1>4, <2>1, <2>2, <2>3
<1>7. ASSUME NEW result \in Results, Commit(job.video.id, copy, result),
             Finally(result, Removal(job.video.id))
      PROVE  IInv'
  <2>1. Moves(db, copy) /\ NoneArrives(db, copy)
    BY <1>2, NewCopyWrites
  <2> HIDE DEF copy
  <2>2. AtWork(db', job')
    BY <1>2, <1>7, RemovalAtWork, IdleAtWork DEF Finally
  <2>3. QED
    BY <1>4, <1>7, <2>1, <2>2
<1> HIDE DEF i, old, new, Settle, copy
<1>8. \E result \in Results :
        \/ /\ Commit(job.video.id, Settle("duplicate"), result)
           /\ Finally(result, IF Removable(db', i) THEN [job EXCEPT !.at = "remove_then_verify"]
                              ELSE StartVerify(db', job.video.id))
        \/ Commit(job.video.id, Settle("conflict"), result) /\ Finally(result, Removal(i))
        \/ Commit(job.video.id, copy, result) /\ Finally(result, Removal(job.video.id))
  BY DEF HashOld, i, new, Settle, copy
<1>9. QED
  BY <1>5, <1>6, <1>7, <1>8

LEMMA RemoveFileStep ==
  ASSUME IInv, RemoveFile
  PROVE  IInv'
<1>1. /\ job.at \in {"remove", "remove_then_verify"} /\ db' = db
      /\ disk' = disk \/ disk' = [disk EXCEPT ![job.id] = None]
      /\ job' = IF job.at = "remove" THEN NoJob ELSE StartVerify(db, job.video.id)
      /\ UNCHANGED <<queue, hidden, phase, reporting, requests>>
      /\ workerError' \in {workerError, TRUE}
  BY DEF RemoveFile
<1>2. Records(db) /\ AtWork(db, job) /\ Files(db, disk)
  BY DEF IInv
<1>3. /\ job.id \in Imports /\ job.id # db.video.id /\ db.complete[job.id] = "processed"
      /\ job \in Jobs
  BY <1>1, <1>2 DEF AtWork
<1>4. AtWork(db, job')
  <2>1. CASE job.at = "remove"
    BY <1>1, <2>1, IdleAtWork
  <2>2. CASE job.at = "remove_then_verify"
    <3>1. job.video.id \in Imports
      BY <1>2, <2>2, NoVideoIsNone DEF AtWork, Known
    <3>2. QED
      BY <1>1, <1>2, <2>2, <3>1, VerifyAtWork
  <2>3. QED
    BY <1>1, <2>1, <2>2
<1>5. Files(db, disk')
  <2>1. CASE disk' = disk
    BY <1>2, <2>1
  <2>2. CASE disk' = [disk EXCEPT ![job.id] = None]
    <3>1. /\ disk' \in [Imports -> Contents \cup {None, Part}] /\ disk'[job.id] = None
          /\ \A k \in Imports : k # job.id => disk'[k] = disk[k]
      BY <1>2, <1>3, <2>2 DEF Files
    <3>2. db.video # NoVideo => db.video.id \in Imports
      BY <1>2, NoVideoIsNone DEF Records, Known
    <3>3. QED
      BY <1>2, <1>3, <3>1, <3>2 DEF Files
  <2>3. QED
    BY <1>1, <2>1, <2>2
<1>6. Plain'
  BY <1>1 DEF IInv, Plain, reporting
<1>7. QED
  BY <1>1, <1>4, <1>5, <1>6 DEF IInv, requests

LEMMA FileUnreadableStep ==
  ASSUME IInv, FileUnreadable
  PROVE  IInv'
<1>1. /\ job.at \in {"readable", "hash"} /\ job' = NoJob /\ UNCHANGED <<queue, media>>
      /\ \E result \in Results : Commit(job.video.id, unavailable(db, job.video), result)
  BY DEF FileUnreadable
<1>2. /\ Records(db) /\ job.video # NoVideo /\ Known(db, job.video)
      /\ job.video \in Videos \cup {NoVideo}
  BY <1>1 DEF IInv, AtWork, Jobs
<1>3. Moves(db, db') /\ NoneArrives(db, db') /\ workerError' \in {workerError, TRUE}
  BY <1>1, <1>2, UnreadableMoves
<1>4. QED
  BY <1>1, <1>3, IdleAtWork, JobStep

(* The copy that the job remembers gets another status.                    *)
LEMMA BecomeMoves ==
  ASSUME Records(db), NEW v \in Videos, Known(db, v), v.id = db.video.id,
         NEW s \in CopyStatuses, s \in Verdicts => s = v.verification, NEW result \in Results,
         Commit(v.id, writeCurrent(db, [v EXCEPT !.status = s]), result)
  PROVE  /\ Moves(db, db') /\ NoneArrives(db, db') /\ Calm(db, db')
         /\ workerError' \in {workerError, TRUE}
         /\ result # "thrown" => db'.mapping = db.mapping
<1> DEFINE e == writeCurrent(db, [v EXCEPT !.status = s])
<1>1. Moves(db, e) /\ NoneArrives(db, e) /\ Calm(db, e)
  BY StatusWrites, NoVideoIsNone
<1>2. e.mapping = db.mapping
  BY DEF writeCurrent, Records, Db
<1> HIDE DEF e
<1>3. Commit(v.id, e, result)
  BY DEF e
<1>4. /\ Moves(db, db') /\ workerError' \in {workerError, TRUE} /\ (db' = db \/ db' = e)
  BY <1>1, <1>3, CommitMoves
<1>5. QED
  BY <1>1, <1>2, <1>4 DEF NoneArrives, Calm

LEMMA FileReadableStep ==
  ASSUME IInv, FileReadable
  PROVE  IInv'
<1> DEFINE video == job.video
           Become(status) == writeCurrent(db, [video EXCEPT !.status = status])
           j == [job EXCEPT !.at = "hash", !.mapping = db.mapping]
<1>1. job.at = "readable" /\ UNCHANGED <<queue, media>>
  BY DEF FileReadable
<1>2. /\ job \in Jobs /\ video \in Videos /\ Known(db, video) /\ Records(db) /\ job.id = video.id
      /\ video.verification \in Verdicts \cup {None} /\ db.mapping \in {None, Reported}
  BY <1>1 DEF IInv, AtWork, Jobs, Videos, Records, Db
<1>3. CASE db.video.id # job.id
  BY <1>1, <1>3, StayMoves, IdleAtWork, JobStep DEF FileReadable
<1>4. CASE /\ db.video.id = job.id /\ video.verification # None
           /\ IF video.status # video.verification
              THEN \E result \in Results : Commit(job.id, Become(video.verification), result)
              ELSE UNCHANGED <<db, workerError>>
           /\ job' = NoJob
  <2>1. CASE UNCHANGED <<db, workerError>>
    BY <1>1, <1>4, <2>1, StayMoves, IdleAtWork, JobStep
  <2>2. ASSUME NEW result \in Results, Commit(job.id, Become(video.verification), result)
        PROVE  IInv'
    <3>1. video.verification \in CopyStatuses
      BY <1>2, <1>4 DEF CopyStatuses
    <3>2. Moves(db, db') /\ NoneArrives(db, db') /\ workerError' \in {workerError, TRUE}
      BY <1>2, <1>4, <2>2, <3>1, BecomeMoves
    <3>3. QED
      BY <1>1, <1>4, <3>2, IdleAtWork, JobStep
  <2>3. QED
    BY <1>4, <2>1, <2>2
<1>5. ASSUME db.video.id = job.id, job' = NoJob, NEW result \in Results,
             Commit(job.id, Become("waiting_report"), result)
      PROVE  IInv'
  <2>1. Moves(db, db') /\ NoneArrives(db, db') /\ workerError' \in {workerError, TRUE}
    BY <1>2, <1>5, BecomeMoves DEF CopyStatuses, Verdicts
  <2>2. QED
    BY <1>1, <1>5, <2>1, IdleAtWork, JobStep
<1>6. ASSUME db.video.id = job.id, NEW result \in Results,
             Commit(job.id, Become("verifying"), result), Finally(result, j)
      PROVE  IInv'
  <2>1. /\ Moves(db, db') /\ NoneArrives(db, db') /\ Calm(db, db')
        /\ workerError' \in {workerError, TRUE}
    BY <1>2, <1>6, BecomeMoves DEF CopyStatuses, Verdicts
  <2>2. j \in Jobs /\ j.at = "hash" /\ j.id = job.id /\ j.video = video /\ j.mapping = db.mapping
    BY <1>2 DEF Jobs, Ats
  <2> HIDE DEF j
  <2>3. AtWork(db, j)
    BY <1>2, <2>2, NoVideoIsNone DEF AtWork
  <2>4. AtWork(db', job')
    BY <1>2, <1>6, <2>1, <2>3, AtWorkStays, IdleAtWork DEF Finally
  <2>5. QED
    BY <1>1, <2>1, <2>4, JobStep
<1> HIDE DEF video, Become, j
<1>7. \/ db.video.id # job.id
      \/ /\ db.video.id = job.id /\ video.verification # None
         /\ IF video.status # video.verification
            THEN \E result \in Results : Commit(job.id, Become(video.verification), result)
            ELSE UNCHANGED <<db, workerError>>
         /\ job' = NoJob
      \/ /\ db.video.id = job.id /\ job' = NoJob
         /\ \E result \in Results : Commit(job.id, Become("waiting_report"), result)
      \/ /\ db.video.id = job.id
         /\ \E result \in Results : Commit(job.id, Become("verifying"), result) /\ Finally(result, j)
  BY DEF FileReadable, video, Become, j
<1>8. QED
  BY <1>3, <1>4, <1>5, <1>6, <1>7

(* The verdict on the content that was remembered is the verdict on the    *)
(* current copy: a replaced one makes the commit refuse.                   *)
LEMMA HashCurrentStep ==
  ASSUME IInv, HashCurrent
  PROVE  IInv'
<1> DEFINE v == Judged(job.id, job.video.content, job.mapping)
           e == writeCurrent(db, v)
<1>1. /\ job.at = "hash" /\ job' = NoJob /\ UNCHANGED <<queue, media>>
      /\ \E result \in Results : Commit(job.id, e, result)
  BY DEF HashCurrent
<1>2. /\ Known(db, job.video) /\ Records(db) /\ job.id = job.video.id /\ job.video \in Videos
      /\ job.id \in Imports /\ job.video.content \in Contents /\ job.mapping \in {None, db.mapping}
      /\ db.complete[job.id] = "processed" /\ job.id # Anyone /\ db \in Db
  BY <1>1, NoVideoIsNone, NamesApart DEF IInv, AtWork, Jobs, Known, Records
<1>3. v \in Videos /\ v.id = job.id /\ v.content = job.video.content /\ Sound(db, v) /\ Follows(v)
  BY <1>2, JudgedSound
<1> HIDE DEF v
<1>4. /\ e \in Db /\ e.video = v /\ e.mapping = db.mapping /\ e.complete = db.complete
      /\ \A k \in Imports : e.imports[k] = IF k = v.id THEN v.status ELSE db.imports[k]
  BY <1>2, <1>3, WriteFields
<1> HIDE DEF e
<1>5. NoneArrives(db, e)
  BY <1>4 DEF NoneArrives
<1>6. job.id = db.video.id => Moves(db, e)
  <2>1. SUFFICES ASSUME job.id = db.video.id PROVE Writes(db, e, v)
    BY <1>3 DEF Moves
  <2>2. v.content = db.video.content
    BY <1>2, <1>3, <2>1, NoVideoIsNone DEF Known
  <2>3. QED
    BY <1>2, <1>3, <1>4, <2>1, <2>2 DEF Writes
<1>7. Moves(db, db') /\ (db' = db \/ db' = e) /\ workerError' \in {workerError, TRUE}
  BY <1>1, <1>2, <1>6, CommitMoves
<1>8. NoneArrives(db, db')
  BY <1>5, <1>7 DEF NoneArrives
<1>9. QED
  BY <1>1, <1>7, <1>8, IdleAtWork, JobStep

-----------------------------------------------------------------------------
(* The report queue, the stop and the restart: nobody's file changes.      *)
LEMMA ElsewhereStep ==
  ASSUME IInv, Moves(db, db'), NoneArrives(db, db'), Calm(db, db'), job' \in {job, NoJob},
         Queued(db, queue'), opening' \in {opening, NoVideo}, uploads' \in {uploads, {}},
         UNCHANGED <<disks, served>>, reportQueue' \in Seq(BOOLEAN),
         reportAt' \in {"none", "merged", "marked"}, reportQueue' = <<>> => reportAt' = "none",
         phase' \in {"running", "requests", "reports", "media", "closed", "down"},
         workerError' \in BOOLEAN
  PROVE  IInv'
<1>1. Plain'
  BY DEF IInv, Plain, disks
<1>2. QED
  BY <1>1, OutsideStep DEF disks

LEMMA ReportArrivesStep ==
  ASSUME IInv, ReportArrives
  PROVE  IInv'
<1>1. PICK brings \in BOOLEAN : reportQueue' = Append(reportQueue, brings)
  BY DEF ReportArrives
<1>2. db' = db /\ UNCHANGED <<disks, phase, jobs, reportAt, requests, workerError>>
  BY DEF ReportArrives
<1>3. reportQueue' \in Seq(BOOLEAN) /\ reportQueue' # <<>>
  <2>1. reportQueue \in Seq(BOOLEAN)
    BY DEF IInv, Plain
  <2>2. QED
    BY <1>1, <2>1, AppendProperties
<1>4. QED
  BY <1>2, <1>3, StayMoves, ElsewhereStep DEF IInv, Plain, jobs, requests

LEMMA TailsAreReports ==
  ASSUME IInv, reportQueue # <<>>
  PROVE  Tail(reportQueue) \in Seq(BOOLEAN)
BY HeadTailProperties DEF IInv, Plain

LEMMA MergeReportStep ==
  ASSUME IInv, MergeReport
  PROVE  IInv'
<1> DEFINE e == [db EXCEPT !.mapping = Reported]
<1>1. /\ db' \in {db, e} /\ reportQueue # <<>>
      /\ \/ reportQueue' = reportQueue /\ reportAt' = "merged"
         \/ reportQueue' = Tail(reportQueue) /\ reportAt' = "none"
      /\ workerError' \in {workerError, TRUE}
      /\ UNCHANGED <<disks, phase, jobs, requests>>
  BY DEF MergeReport
<1>2. Records(db) /\ db \in Db
  BY DEF IInv, Records
<1>3. /\ e \in Db /\ e.video = db.video /\ e.imports = db.imports /\ e.complete = db.complete
      /\ e.mapping = Reported
  BY <1>2 DEF Db
<1> HIDE DEF e
<1>4. Restores(db, e)
  BY <1>3 DEF Restores
<1>5. Moves(db, db') /\ NoneArrives(db, db') /\ Calm(db, db')
  BY <1>1, <1>3, <1>4 DEF Moves, NoneArrives, Calm
<1>6. reportQueue' \in Seq(BOOLEAN) /\ workerError' \in BOOLEAN
  BY <1>1, TailsAreReports DEF IInv, Plain
<1>7. QED
  BY <1>1, <1>5, <1>6, ElsewhereStep DEF IInv, Plain, jobs, requests

(* Queues of media jobs, put one behind the other.                         *)
LEMMA QueuedConcat ==
  ASSUME NEW d, NEW q, NEW r, Queued(d, q), Queued(d, r)
  PROVE  Queued(d, q \o r)
<1>1. q \in Seq(QueueJobs) /\ r \in Seq(QueueJobs)
  BY DEF Queued
<1>2. /\ Len(q) \in Nat /\ DOMAIN q = 1 .. Len(q) /\ Len(r) \in Nat /\ DOMAIN r = 1 .. Len(r)
  BY <1>1, LenProperties
<1>3. /\ q \o r \in Seq(QueueJobs) /\ Len(q \o r) = Len(q) + Len(r)
      /\ \A k \in 1 .. Len(q) + Len(r) : (q \o r)[k] = IF k <= Len(q) THEN q[k] ELSE r[k - Len(q)]
  BY <1>1, ConcatProperties
<1>4. DOMAIN (q \o r) = 1 .. Len(q) + Len(r)
  BY <1>3, LenProperties
<1>5. ASSUME NEW k \in DOMAIN (q \o r)
      PROVE  (\E m \in DOMAIN q : (q \o r)[k] = q[m]) \/ (\E m \in DOMAIN r : (q \o r)[k] = r[m])
  <2>1. CASE k <= Len(q)
    BY <1>2, <1>3, <1>4, <2>1
  <2>2. CASE ~(k <= Len(q))
    <3>1. k - Len(q) \in 1 .. Len(r) /\ (q \o r)[k] = r[k - Len(q)]
      BY <1>2, <1>3, <1>4, <2>2
    <3>2. QED
      BY <1>2, <3>1
  <2>3. QED
    BY <2>1, <2>2
<1> DEFINE c == q \o r
<1> HIDE DEF c
<1>6. QED
  BY <1>3, <1>5 DEF Queued, c

LEMMA QueuedVerify ==
  ASSUME NEW d, NEW q, q = <<>> \/ \E i \in Imports : q = <<Verify(i)>>
  PROVE  Queued(d, q)
<1>1. CASE q = <<>>
  BY <1>1, EmptySeq DEF Queued
<1>2. ASSUME NEW i \in Imports, q = <<Verify(i)>>
      PROVE  Queued(d, q)
  <2>1. Verify(i) \in QueueJobs /\ Verify(i).kind = "verify"
    BY DEF Verify, QueueJobs
  <2>2. q \in Seq(QueueJobs) /\ DOMAIN q = {1} /\ q[1].kind = "verify"
    BY <1>2, <2>1
  <2>3. QED
    BY <2>2 DEF Queued
<1>3. QED
  BY <1>1, <1>2

LEMMA ReportJobSteps ==
  ASSUME IInv, FinishBatch \/ QueueVerification
  PROVE  IInv'
<1>1. /\ reportAt # "none" /\ db' = db
      /\ \/ reportQueue' = reportQueue /\ reportAt' = "marked"
         \/ reportQueue' = Tail(reportQueue) /\ reportAt' = "none"
      /\ workerError' \in {workerError, TRUE}
      /\ queue' \in {queue, queue \o CopiesToVerify}
      /\ UNCHANGED <<disks, phase, job, requests>>
  BY DEF FinishBatch, QueueVerification, jobs
<1>2. reportQueue # <<>> /\ reportQueue \in Seq(BOOLEAN) /\ workerError \in BOOLEAN
  BY <1>1 DEF IInv, Plain
<1>3. reportQueue' \in Seq(BOOLEAN) /\ workerError' \in BOOLEAN
  BY <1>1, <1>2, TailsAreReports
<1>4. Queued(db, CopiesToVerify)
  <2>1. CASE db.video.status \in {"waiting_report", "unavailable"}
    <3>1. db.video # NoVideo /\ db.video \in Videos \cup {NoVideo}
      BY <2>1, NoVideoIsNone, NamesApart DEF IInv, Records, Db, Statuses, CopyStatuses
    <3>2. QED
      BY <2>1, <3>1, NoVideoIsNone, QueuedVerify DEF CopiesToVerify
  <2>2. CASE db.video.status \notin {"waiting_report", "unavailable"}
    BY <2>2, QueuedVerify DEF CopiesToVerify
  <2>3. QED
    BY <2>1, <2>2
<1>5. Queued(db, queue')
  BY <1>1, <1>4, QueuedConcat DEF IInv
<1>6. QED
  BY <1>1, <1>2, <1>3, <1>5, StayMoves, ElsewhereStep DEF IInv, Plain, requests

LEMMA PhaseStep ==
  ASSUME IInv, Stopping \/ Crash
  PROVE  IInv'
<1>1. /\ db' = db /\ UNCHANGED <<disks, jobs, reporting, requests, workerError>>
      /\ phase' \in {"running", "requests", "reports", "media", "closed", "down"}
  <2>1. CASE Stopping
    <3>1. phase \in {"running", "requests", "reports", "media"}
      BY <2>1 DEF Stopping, Up, Alive
    <3>2. QED
      BY <2>1, <3>1 DEF Stopping, After
  <2>2. CASE Crash
    BY <2>2 DEF Crash
  <2>3. QED
    BY <2>1, <2>2
<1>2. QED
  BY <1>1, StayMoves, ElsewhereStep DEF IInv, Plain, jobs, reporting, requests

LEMMA RecoveredMoves ==
  ASSUME Records(db)
  PROVE  Moves(db, Recovered) /\ NoneArrives(db, Recovered) /\ Calm(db, Recovered)
<1> DEFINE f == [i \in Imports |->
             IF db.imports[i] = "uploading" /\ i \notin Unprocessed THEN "interrupted"
             ELSE db.imports[i]]
           e == [db EXCEPT !.imports = f]
<1>1. db \in Db
  BY DEF Records
<1>2. f \in [Imports -> Statuses]
  BY <1>1 DEF Db, Statuses
<1>3. \A i \in Imports : f[i] = db.imports[i] \/ (db.imports[i] = "uploading" /\ f[i] = "interrupted")
  OBVIOUS
<1> HIDE DEF f
<1>4. /\ e \in Db /\ e.video = db.video /\ e.complete = db.complete /\ e.mapping = db.mapping
      /\ e.imports = f
  BY <1>1, <1>2 DEF Db
<1>5. Recovered = e
  BY DEF Recovered, f
<1> HIDE DEF e
<1>6. Restores(db, e)
  BY <1>3, <1>4 DEF Restores
<1>7. QED
  BY <1>4, <1>5, <1>6 DEF Moves, NoneArrives, Calm

(* The jobs that a start queues are for files that are on the disk.        *)
LEMMA RecoveryQueued ==
  ASSUME Records(db), NEW unprocessed \in SetToSeqs(Unprocessed)
  PROVE  Queued(db, RecoveryJobs(unprocessed))
<1> DEFINE n == Cardinality(Unprocessed)
           r == [k \in DOMAIN unprocessed |-> Process(unprocessed[k])]
           v == IF db.video = NoVideo THEN <<>> ELSE <<Verify(db.video.id)>>
<1>1. Unprocessed \in SUBSET Imports /\ \A i \in Unprocessed : db.complete[i] = "saved"
  BY DEF Unprocessed
<1>2. n \in Nat
  BY <1>1, ImportsAssumption, FS_Subset, FS_CardinalityType
<1>3. unprocessed \in [1 .. n -> Unprocessed]
  BY DEF SetToSeqs
<1> HIDE DEF n
<1>4. \A k \in 1 .. n : Process(unprocessed[k]) \in QueueJobs
                        /\ Process(unprocessed[k]).id \in Unprocessed
  BY <1>1, <1>3 DEF Process, QueueJobs
<1>5. r = [k \in 1 .. n |-> Process(unprocessed[k])]
  BY <1>3
<1>6. r \in Seq(QueueJobs) /\ DOMAIN r = 1 .. n
  BY <1>2, <1>4, <1>5
<1>7. Queued(db, r)
  <2>1. \A k \in DOMAIN r : db.complete[r[k].id] = "saved"
    BY <1>1, <1>4, <1>5, <1>6
  <2> HIDE DEF r
  <2>2. QED
    BY <1>6, <2>1 DEF Queued
<1>8. Queued(db, v)
  <2>1. CASE db.video = NoVideo
    BY <2>1, QueuedVerify
  <2>2. CASE db.video # NoVideo
    <3>1. db.video.id \in Imports
      BY <2>2, NoVideoIsNone DEF Records, Known
    <3>2. QED
      BY <2>2, <3>1, QueuedVerify
  <2>3. QED
    BY <2>1, <2>2
<1>9. RecoveryJobs(unprocessed) = r \o v
  BY DEF RecoveryJobs
<1> HIDE DEF r, v
<1>10. QED
  BY <1>7, <1>8, <1>9, QueuedConcat

LEMMA RecoverStep ==
  ASSUME IInv, Start \/ Initialize
  PROVE  IInv'
<1>1. Moves(db, db') /\ NoneArrives(db, db') /\ Calm(db, db')
  BY RecoveredMoves DEF IInv, Start, Initialize
<1>2. PICK unprocessed \in SetToSeqs(Unprocessed) :
        queue' \in {RecoveryJobs(unprocessed), queue \o RecoveryJobs(unprocessed)}
  BY DEF Start, Initialize
<1>3. Queued(db, queue')
  BY <1>2, RecoveryQueued, QueuedConcat DEF IInv
<1>4. CASE Start
  BY <1>1, <1>3, <1>4, EmptySeq, ElsewhereStep DEF Start
<1>5. CASE Initialize
  BY <1>1, <1>3, <1>5, ElsewhereStep DEF Initialize, IInv, Plain, reporting, requests
<1>6. QED
  BY <1>4, <1>5

LEMMA DiskStep ==
  ASSUME IInv, NEW i \in Imports, Vanish(i) \/ Return(i)
  PROVE  IInv'
<1>1. /\ db' = db /\ UNCHANGED <<phase, jobs, reporting, requests, workerError>>
      /\ disk' = disk \/ \E content \in Contents : disk' = [disk EXCEPT ![i] = content]
      /\ hidden' \subseteq hidden \cup {i}
  BY DEF Vanish, Return
<1>2. Files(db, disk')
  <2>1. Files(db, disk)
    BY DEF IInv
  <2>2. ASSUME NEW content \in Contents, disk' = [disk EXCEPT ![i] = content]
        PROVE  Files(db, disk')
    <3>1. /\ disk' \in [Imports -> Contents \cup {None, Part}] /\ disk'[i] = content
          /\ \A k \in Imports : k # i => disk'[k] = disk[k]
      BY <2>1, <2>2 DEF Files
    <3>2. db.video # NoVideo => db.video.id \in Imports
      BY NoVideoIsNone DEF IInv, Records, Known
    <3>3. QED
      BY <2>1, <3>1, <3>2, NamesApart DEF Files
  <2>3. QED
    BY <1>1, <2>1, <2>2
<1>3. Plain'
  BY <1>1 DEF IInv, Plain, reporting
<1>4. QED
  BY <1>1, <1>2, <1>3 DEF IInv, jobs, requests

LEMMA IInvKept == IInv /\ [Next]_vars => IInv'
<1> SUFFICES ASSUME IInv, [Next]_vars PROVE IInv'
  OBVIOUS
<1>1. ASSUME NEW i \in Imports, createBatch(i) \/ upload(i) \/ failUpload(i) \/ Vanish(i) \/ Return(i)
      PROVE  IInv'
  BY <1>1, CreateBatchStep, UploadStep, FailUploadStep, DiskStep
<1>2. CASE openVideo \/ ReportArrives \/ Initialize
  BY <1>2, OpenStep, ReportArrivesStep, RecoverStep
<1>3. CASE MediaJob
  BY <1>3, StartJobStep, HashNewFailsStep, HashNewStep, HashOldFailsStep, RejectStep, HashOldStep,
     RemoveFileStep, FileUnreadableStep, FileReadableStep, HashCurrentStep DEF MediaJob
<1>4. CASE ReportJob
  BY <1>4, MergeReportStep, ReportJobSteps DEF ReportJob
<1>5. CASE Request
  BY <1>5, VideoOpenedStep, VideoUnreadableStep, UploadCompletesStep, UploadFailsStep DEF Request
<1>6. CASE Stopping \/ Crash \/ Start
  BY <1>6, PhaseStep, RecoverStep
<1>7. CASE UNCHANGED vars
  BY <1>7 DEF vars, disks, jobs, reporting, requests, IInv, Plain
<1>8. QED
  BY <1>1, <1>2, <1>3, <1>4, <1>5, <1>6, <1>7 DEF Next

LEMMA IInvStarts == Init => IInv
<1> SUFFICES ASSUME Init PROVE IInv
  OBVIOUS
<1>1. /\ db = [imports |-> [i \in Imports |-> "none"], mapping |-> None,
               complete |-> [i \in Imports |-> "none"], video |-> NoVideo]
      /\ disk = [i \in Imports |-> None] /\ hidden = {} /\ phase = "running" /\ queue = <<>>
      /\ job = NoJob /\ reportQueue = <<>> /\ reportAt = "none" /\ uploads = {}
      /\ opening = NoVideo /\ served = NoVideo /\ workerError = FALSE
  BY DEF Init
<1>2. db \in Db
  BY <1>1 DEF Db, Statuses, Stages
<1>3. /\ db.video = NoVideo /\ db.mapping = None
      /\ \A i \in Imports : db.complete[i] = "none" /\ db.imports[i] = "none"
  BY <1>1
<1>4. Records(db) /\ Requested(db, opening, uploads) /\ Shown(db, served)
  BY <1>1, <1>2, <1>3 DEF Records, Requested, Shown, Known
<1>5. Files(db, disk)
  BY <1>1, <1>3 DEF Files
<1>6. Queued(db, queue)
  BY <1>1, QueuedVerify
<1>7. Plain
  BY <1>1, EmptySeq DEF Plain
<1>8. QED
  BY <1>1, <1>4, <1>5, <1>6, <1>7, IdleAtWork DEF IInv

(* In every reachable state the records, the files, the queue, the running *)
(* job and the requests fit one another: each works with a copy whose      *)
(* record was right when it was read and still is, or was replaced.        *)
THEOREM CopyInvariant == Spec => []IInv
BY IInvStarts, IInvKept, PTL DEF Spec

(* Every variable keeps its type, the queued and the running job and the   *)
(* requests included.                                                      *)
THEOREM TypeInvariant == Spec => []TypeOK
<1>1. IInv => TypeOK
  <2> SUFFICES ASSUME IInv PROVE TypeOK
    OBVIOUS
  <2>1. db \in [imports : [Imports -> Statuses], mapping : {None, Reported},
                complete : [Imports -> {"none", "saved", "processed"}],
                video : Videos \cup {NoVideo}]
    BY DEF IInv, Records, Db, Stages
  <2>2. \A k \in DOMAIN queue : queue[k] \in [kind : {"process", "verify"}, id : Imports]
    <3>1. \A k \in DOMAIN queue : queue[k] \in QueueJobs
      BY DEF IInv, Queued
    <3>2. QED
      BY <3>1 DEF QueueJobs
  <2>3. job.at \in Ats /\ (job = NoJob \/ (job.id \in Imports /\ job.video \in Videos \cup {NoVideo}))
    BY NoVideoIsNone DEF IInv, AtWork, Jobs, Ats
  <2>4. /\ \A k \in DOMAIN reportQueue : reportQueue[k] \in BOOLEAN
        /\ reportAt \in {"none", "merged", "marked"} /\ hidden \subseteq Imports
        /\ phase \in {"running", "requests", "reports", "media", "closed", "down"}
        /\ workerError \in BOOLEAN
    BY DEF IInv, Plain
  <2>5. /\ disk \in [Imports -> Contents \cup {None, Part}] /\ uploads \subseteq Imports
        /\ opening \in Videos \cup {NoVideo} /\ served \in Videos \cup {NoVideo}
    BY DEF IInv, Files, Requested, Shown
  <2>6. QED
    BY <2>1, <2>2, <2>3, <2>4, <2>5 DEF TypeOK, Ats
<1>2. QED
  BY <1>1, CopyInvariant, PTL

(* Whatever a crash leaves behind, a verdict was made against the mapping  *)
(* and is right for the recorded content, the import's own record tells    *)
(* the same, and no file that is current or still to be processed was      *)
(* removed (writeCurrent, processVideo, removeTemporary).                  *)
THEOREM CopyRecordsAreTrue == Spec => []CurrentCopySound
<1>1. IInv => CurrentCopySound
  <2> SUFFICES ASSUME IInv PROVE CurrentCopySound
    OBVIOUS
  <2>1. CASE db.video = NoVideo
    <3>1. VerdictIsRight /\ StatusFollows /\ RecordsAgree
      <4>1. /\ db.video.verification = None /\ db.video.status = None
            /\ db.video.verifiedAgainst = FALSE
        BY <2>1 DEF NoVideo
      <4>2. None \notin Verdicts /\ None # "verified"
        BY NamesApart DEF Statuses, CopyStatuses
      <4>3. StatusFollows
        BY <4>1, <4>2 DEF StatusFollows
      <4>4. QED
        BY <2>1, <4>1, <4>3 DEF VerdictIsRight, RecordsAgree
    <3>2. FilesKept
      BY <2>1 DEF FilesKept, IInv, Files, Unprocessed
    <3>3. QED
      BY <3>1, <3>2 DEF CurrentCopySound
  <2>2. CASE db.video # NoVideo
    <3>1. Sound(db, db.video) /\ Follows(db.video) /\ db.video \in Videos
          /\ db.imports[db.video.id] = db.video.status
      BY <2>2 DEF IInv, Records, Known
    <3>2. VerdictIsRight
      BY <3>1, NamesApart DEF VerdictIsRight, Sound
    <3>3. StatusFollows
      BY <3>1 DEF StatusFollows, Sound, Follows, Videos
    <3>4. RecordsAgree
      BY <3>1 DEF RecordsAgree
    <3>5. FilesKept
      BY DEF FilesKept, IInv, Files, Unprocessed
    <3>6. QED
      BY <3>2, <3>3, <3>4, <3>5 DEF CurrentCopySound
  <2>3. QED
    BY <2>1, <2>2
<1>2. QED
  BY <1>1, CopyInvariant, PTL

(* A client is given only a verified copy of the reported content: the     *)
(* record is read again after the file was opened (openVideo).             *)
THEOREM OnlyVerifiedIsServed == Spec => []ServedIsVerified
<1>1. IInv => ServedIsVerified
  BY DEF IInv, Shown, ServedIsVerified
<1>2. QED
  BY <1>1, CopyInvariant, PTL

-----------------------------------------------------------------------------
(* Which steps replace the current copy.                                   *)
SameCopy == db'.video.id = db.video.id

LEMMA CalmKeepsCopy ==
  ASSUME IInv, Moves(db, db'), Calm(db, db')
  PROVE  SameCopy
<1>1. /\ Records(db')
      /\ db'.video = db.video \/ (db'.video \in Videos /\
           (db'.video.id = db.video.id \/ db.complete[db'.video.id] = "saved"))
  BY RecordsMove DEF IInv
<1>2. db'.video \in Videos => db'.video.id \in Imports /\ db'.complete[db'.video.id] = "processed"
  BY <1>1, NoVideoIsNone DEF Records, Known
<1>3. QED
  BY <1>1, <1>2 DEF Calm, SameCopy

LEMMA CommitKeepsCopy ==
  ASSUME NEW expected, NEW new, NEW result, Commit(expected, new, result),
         expected \in {Anyone, db.video.id} => new.video.id = db.video.id
  PROVE  SameCopy
BY DEF Commit, SameCopy

(* The records of imports, and of a copy that is only judged again.        *)
LEMMA UploadCompletesKeepsCopy ==
  ASSUME IInv, NEW i \in Imports, UploadCompletes(i)
  PROVE  SameCopy
<1> DEFINE d == [db EXCEPT !.complete[i] = "saved"]
           e == SetImport(d, i, "received")
<1>1. PICK result \in Results : Commit(Anyone, e, result)
  BY DEF UploadCompletes
<1>2. d \in Db /\ d.video = db.video
  BY StageFields DEF Stages, IInv, Records
<1> HIDE DEF d
<1>3. e.video = d.video
  BY <1>2, SetImportFields DEF Statuses
<1> HIDE DEF e
<1>4. QED
  BY <1>1, <1>2, <1>3, CommitKeepsCopy

LEMMA UploadFailsKeepsCopy ==
  ASSUME IInv, NEW i \in Imports, UploadFails(i) \/ failUpload(i)
  PROVE  SameCopy
<1>1. db' = db \/ (Interrupted(i) /\ db.complete[i] = "none")
  BY DEF UploadFails, failUpload, IInv, Requested
<1>2. Moves(db, db') /\ Calm(db, db')
  BY <1>1, InterruptedMoves, StayMoves
<1>3. QED
  BY <1>2, CalmKeepsCopy

LEMMA UnreadableKeepsCopy ==
  ASSUME IInv, VideoUnreadable \/ HashOldFails \/ FileUnreadable
  PROVE  SameCopy
<1>1. /\ opening \in Videos \cup {NoVideo} /\ Known(db, opening) /\ Records(db)
      /\ job.video \in Videos \cup {NoVideo} /\ Known(db, job.video)
      /\ job.at \in {"hash_old", "readable", "hash"} => job.video # NoVideo
  BY DEF IInv, Requested, AtWork, Jobs
<1>2. CASE VideoUnreadable
  <2>1. Moves(db, db') /\ Calm(db, db')
    BY <1>1, <1>2, UnreadableMoves DEF VideoUnreadable
  <2>2. QED
    BY <2>1, CalmKeepsCopy
<1>3. CASE HashOldFails \/ FileUnreadable
  <2>1. Moves(db, db') /\ Calm(db, db')
    BY <1>1, <1>3, UnreadableMoves DEF HashOldFails, FileUnreadable
  <2>2. QED
    BY <2>1, CalmKeepsCopy
<1>4. QED
  BY <1>2, <1>3

LEMMA SettledKeepsCopy ==
  ASSUME IInv, HashNewFails \/ Reject
  PROVE  SameCopy
<1> DEFINE e == SetImport(db, job.id, "unavailable")
<1>1. job.id \in Imports /\ job.id # db.video.id /\ Records(db)
  BY ArrivingApart DEF IInv, AtWork, HashNewFails, Reject
<1>2. Moves(db, e) /\ Calm(db, e)
  BY <1>1, ImportSettles DEF Statuses, CopyStatuses
<1>3. \E expected, result : Commit(expected, e, result)
  BY DEF HashNewFails, Reject
<1> HIDE DEF e
<1>4. db' \in {db, e}
  BY <1>3 DEF Commit
<1>5. Moves(db, db') /\ Calm(db, db')
  BY <1>2, <1>4, StayMoves
<1>6. QED
  BY <1>5, CalmKeepsCopy

LEMMA VerifyKeepsCopy ==
  ASSUME IInv, FileReadable \/ HashCurrent
  PROVE  SameCopy
<1>1. /\ job.video \in Videos /\ job.id = job.video.id /\ job.id # Anyone
      /\ job.id \in Imports /\ db \in Db /\ Records(db)
  BY NoVideoIsNone, NamesApart DEF IInv, AtWork, Jobs, FileReadable, HashCurrent, Records
<1>2. ASSUME NEW w, NEW result, w.id = job.id, Commit(job.id, writeCurrent(db, w), result)
      PROVE  SameCopy
  <2>1. writeCurrent(db, w).video = w
    BY <1>1 DEF writeCurrent, Db
  <2>2. QED
    BY <1>1, <1>2, <2>1, CommitKeepsCopy
<1>3. \A s : [job.video EXCEPT !.status = s].id = job.id
  BY <1>1 DEF Videos
<1>4. CASE FileReadable
  <2>1. \/ db' = db
        \/ \E s, result :
             Commit(job.id, writeCurrent(db, [job.video EXCEPT !.status = s]), result)
    BY <1>1, <1>4 DEF FileReadable, Videos, CopyStatuses
  <2>2. QED
    BY <1>2, <1>3, <2>1 DEF SameCopy
<1>5. CASE HashCurrent
  <2>1. Judged(job.id, job.video.content, job.mapping).id = job.id
    BY DEF Judged
  <2>2. QED
    BY <1>2, <1>5, <2>1 DEF HashCurrent
<1>6. QED
  BY <1>4, <1>5

(* The one step that replaces a copy, by what it remembered of both.       *)
Replaced ==
  (db.video # NoVideo /\ db'.video.id # db.video.id) =>
    /\ db.mapping # None /\ db'.video.content = db.mapping
    /\ db.video.content # db.mapping

LEMMA HashNewReplaces ==
  ASSUME IInv, HashNew
  PROVE  Replaced
BY DEF HashNew, Replaced

LEMMA HashOldReplaces ==
  ASSUME IInv, HashOld
  PROVE  Replaced
<1> DEFINE i == job.id
           old == disk[job.video.id]
           new == job.content
           Settle(status) == SetProcessed(SetImport(db, i, status), i)
           copy == NewCopy(i, new, job.mapping)
<1>1. job.at = "hash_old" /\ ~Contradicts(job.video, old)
  BY DEF HashOld
<1>2. /\ job.video \in Videos /\ Known(db, job.video) /\ Records(db) /\ db \in Db
      /\ i \in Imports /\ db.complete[i] = "saved" /\ new \in Contents
      /\ job.mapping \in {None, db.mapping} /\ job.video # NoVideo /\ job.video.id # Anyone
  BY <1>1, NoVideoIsNone, NamesApart DEF IInv, AtWork, Jobs, Records
<1>3. i # db.video.id
  BY <1>2, ArrivingApart
<1>4. ASSUME NEW s \in {"duplicate", "conflict"}, NEW result, Commit(job.video.id, Settle(s), result)
      PROVE  Replaced
  <2>1. Settle(s).video = db.video
    <3>1. SetImport(db, i, s) \in Db /\ SetImport(db, i, s).video = db.video
      BY <1>2, SetImportFields DEF Statuses
    <3>2. QED
      BY <1>2, <3>1, StageFields DEF SetProcessed, Stages
  <2>2. QED
    BY <1>4, <2>1, CommitKeepsCopy DEF SameCopy, Replaced
<1>5. ASSUME old # new, ~Rival(old, new, job.mapping), NEW result,
             Commit(job.video.id, copy, result)
      PROVE  Replaced
  <2>1. SUFFICES ASSUME db'.video.id # db.video.id PROVE Replaced
    BY DEF Replaced
  <2>2. job.video.id = db.video.id /\ db' = copy
    BY <1>2, <1>5, <2>1 DEF Commit
  <2>3. copy.video.content = new
    BY <1>2, NewCopyWrites
  <2>4. job.mapping = db.mapping /\ new = db.mapping /\ old # db.mapping /\ db.mapping # None
    BY <1>2, <1>5 DEF Rival
  <2>5. old = db.video.content
    BY <1>1, <1>2, <2>2 DEF Contradicts, Known
  <2>6. QED
    BY <2>2, <2>3, <2>4, <2>5 DEF Replaced
<1> HIDE DEF old, new, copy
<1>6. \E result \in Results :
        \/ Commit(job.video.id, Settle("duplicate"), result)
        \/ Commit(job.video.id, Settle("conflict"), result)
        \/ old # new /\ ~Rival(old, new, job.mapping) /\ Commit(job.video.id, copy, result)
  BY DEF HashOld, old, new, copy
<1>7. QED
  BY <1>4, <1>5, <1>6

LEMMA ReplacedStep == IInv /\ [Next]_vars => Replaced
<1> SUFFICES ASSUME IInv, [Next]_vars PROVE Replaced
  OBVIOUS
<1>1. SameCopy => Replaced
  BY DEF SameCopy, Replaced
<1>2. db' = db => SameCopy
  BY DEF SameCopy
<1>3. ASSUME NEW i \in Imports, createBatch(i)
      PROVE  SameCopy
  <2>1. SetImport(db, i, "uploading").video = db.video
    BY SetImportFields DEF IInv, Records, Statuses
  <2>2. QED
    BY <1>3, <2>1 DEF createBatch, SameCopy
<1>4. ASSUME NEW i \in Imports, upload(i) \/ Vanish(i) \/ Return(i)
      PROVE  SameCopy
  BY <1>2, <1>4 DEF upload, Vanish, Return
<1>5. ASSUME NEW i \in Imports, UploadCompletes(i) \/ UploadFails(i) \/ failUpload(i)
      PROVE  SameCopy
  BY <1>5, UploadCompletesKeepsCopy, UploadFailsKeepsCopy
<1>6. CASE openVideo \/ ReportArrives \/ VideoOpened \/ StartJob \/ RemoveFile \/ FinishBatch
           \/ QueueVerification \/ Stopping \/ Crash \/ UNCHANGED vars
  BY <1>1, <1>2, <1>6 DEF openVideo, ReportArrives, VideoOpened, StartJob, RemoveFile, FinishBatch,
     QueueVerification, Stopping, Crash, vars
<1>7. CASE Initialize \/ Start
  <2>1. db' = Recovered
    BY <1>7 DEF Initialize, Start
  <2>2. QED
    BY <1>1, <2>1, RecoveredMoves, CalmKeepsCopy DEF IInv
<1>8. CASE MergeReport
  <2>1. db \in Db /\ db' \in {db, [db EXCEPT !.mapping = Reported]}
    BY <1>8 DEF MergeReport, IInv, Records
  <2>2. QED
    BY <1>1, <2>1 DEF Db, SameCopy
<1>9. CASE VideoUnreadable \/ HashOldFails \/ FileUnreadable \/ HashNewFails \/ Reject
           \/ FileReadable \/ HashCurrent
  BY <1>1, <1>9, UnreadableKeepsCopy, SettledKeepsCopy, VerifyKeepsCopy
<1>10. CASE HashNew \/ HashOld
  BY <1>10, HashNewReplaces, HashOldReplaces
<1>11. QED
  BY <1>1, <1>3, <1>4, <1>5, <1>6, <1>7, <1>8, <1>9, <1>10
     DEF Next, MediaJob, ReportJob, Request

(* A copy gives way only when it is wrong and only to a right one, though  *)
(* both were judged before the wait for the disk (processVideo).           *)
THEOREM OnlyRightReplacesWrong == Spec => ReplacedOnlyByRight
<1>1. IInv /\ [Next]_vars => Replaced
  BY ReplacedStep
<1>2. QED
  BY <1>1, CopyInvariant, PTL DEF Spec, ReplacedOnlyByRight, Replaced
=============================================================================
