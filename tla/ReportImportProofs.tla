-------------------------- MODULE ReportImportProofs --------------------------
(***************************************************************************)
(* What holds of importing reports for every selection of reports and any  *)
(* number of files, faults and crashes: the claimed coverage is grounded   *)
(* in kept reports, and what an import says happened stays so.             *)
(***************************************************************************)
EXTENDS ReportImport, SequenceTheorems, TLAPS

Statuses == {"uploading", "received", "interrupted", "failed", "accepted", "covered",
             "duplicate", "conflict", "gap"}
Import == [batch : Nat, report : Reports, status : Statuses]
Rows == {Row(r) : r \in Reports}
Working == {"reading", "parsing", "applying"}

\* The records the model is made of keep their form.
Shape ==
  /\ db = [coverage |-> db.coverage, snapshot |-> db.snapshot, saved |-> db.saved,
           imports |-> db.imports, kept |-> db.kept, processed |-> db.processed,
           done |-> db.done]
  /\ db.coverage \in Nat /\ db.saved \subseteq Rows /\ db.imports \in Seq(Import)

JobShape ==
  \/ job = NoJob
  \/ /\ job = [at |-> job.at, batch |-> job.batch, todo |-> job.todo, inputs |-> job.inputs]
     /\ job.at \in Working \union {"tidying"}

\* Uploads, received files and the files of the running job keep apart: a file
\* is written by one of them at a time, and a judged one by none.
Apart ==
  /\ active \subseteq Imports /\ db.kept \subseteq Imports
  /\ \A i \in active : i \notin db.kept /\ Status(i) \in {"uploading", "interrupted"}
  /\ \A i \in Imports : Status(i) = "uploading" => i \notin db.kept
  /\ \A i \in Imports : Status(i) = "received" => i \in db.kept
  /\ job.at \in Working =>
       /\ job.todo \intersect job.inputs = {}
       /\ \A i \in job.todo \union job.inputs :
            i \in Imports /\ i \in db.kept /\ Status(i) \in {"received", "interrupted"}

IInv == Shape /\ JobShape /\ Apart /\ CoverageGrounded /\ JudgementsHold

\* One import gets another status and nothing else changes.
LEMMA SetStatusEffect ==
  ASSUME NEW d, NEW i, NEW status \in Statuses,
         d = [coverage |-> d.coverage, snapshot |-> d.snapshot, saved |-> d.saved,
              imports |-> d.imports, kept |-> d.kept, processed |-> d.processed,
              done |-> d.done],
         d.imports \in Seq(Import), i \in DOMAIN d.imports
  PROVE  LET e == SetStatus(d, i, status) IN
         /\ e = [coverage |-> d.coverage, snapshot |-> d.snapshot, saved |-> d.saved,
                 imports |-> e.imports, kept |-> d.kept, processed |-> d.processed,
                 done |-> d.done]
         /\ e.imports \in Seq(Import) /\ DOMAIN e.imports = DOMAIN d.imports
         /\ \A k \in DOMAIN d.imports :
              /\ e.imports[k].report = d.imports[k].report
              /\ e.imports[k].batch = d.imports[k].batch
              /\ e.imports[k].status = IF k = i THEN status ELSE d.imports[k].status
<1> DEFINE new == [d.imports EXCEPT ![i].status = status]
<1>1. SetStatus(d, i, status) = [d EXCEPT !.imports = new]
  BY DEF SetStatus
<1>2. d.imports[i] \in Import
  OBVIOUS
<1>3. [d.imports[i] EXCEPT !.status = status] \in Import
  BY <1>2 DEF Import
<1>4. new \in Seq(Import) /\ DOMAIN new = DOMAIN d.imports
  BY <1>3
<1>5. \A k \in DOMAIN d.imports : new[k] = IF k = i THEN [d.imports[i] EXCEPT !.status = status]
                                           ELSE d.imports[k]
  OBVIOUS
<1>6. \A k \in DOMAIN d.imports :
        /\ new[k].report = d.imports[k].report
        /\ new[k].batch = d.imports[k].batch
        /\ new[k].status = IF k = i THEN status ELSE d.imports[k].status
  BY <1>2, <1>5 DEF Import
<1>7. QED
  BY <1>1, <1>4, <1>6

\* In the next state some imports may have another status; what was accepted,
\* and every report and batch, is as before.
SameReports ==
  /\ db' = [coverage |-> db.coverage, snapshot |-> db'.snapshot, saved |-> db.saved,
            imports |-> db'.imports, kept |-> db'.kept, processed |-> db'.processed,
            done |-> db'.done]
  /\ db'.imports \in Seq(Import) /\ DOMAIN db'.imports = Imports
  /\ \A k \in Imports : db'.imports[k].report = Of(k)

Judging == {"accepted", "covered", "duplicate", "conflict"}

\* A change of status that neither makes a judgement nor withdraws one keeps
\* the judgements and the coverage.
LEMMA StatusStep ==
  ASSUME IInv, SameReports,
         \A k \in Imports : db'.imports[k].status = Status(k)
            \/ (Status(k) \notin Judging /\ db'.imports[k].status \notin Judging)
  PROVE  Shape' /\ CoverageGrounded' /\ JudgementsHold' /\ Imports' = Imports
<1>1. Shape'
  BY DEF IInv, Shape, SameReports
<1>2. db'.coverage = db.coverage /\ db'.saved = db.saved /\ Imports' = Imports
  BY DEF SameReports, Imports
<1>3. CoverageGrounded'
  BY <1>2 DEF IInv, CoverageGrounded
<1>4. \A k \in Imports : Of(k)' = Of(k) /\ Status(k)' = db'.imports[k].status
  BY <1>2 DEF SameReports, Of, Status
<1>5. \A r : Existing(r)' = Existing(r)
  BY <1>2 DEF Existing
<1>6. \A k \in Imports : Status(k)' \in Judging => Status(k)' = Status(k)
  BY <1>4
<1>7. \A k \in Imports : Status(k) \in Judging => Status(k)' = Status(k)
  BY <1>4
<1>8. JudgementsHold'
  <2>1. \A k \in Imports' : Status(k)' \in {"accepted", "covered", "duplicate"} => Row(Of(k)') \in db'.saved
    BY <1>2, <1>4, <1>6 DEF IInv, JudgementsHold, Judging
  <2>2. \A k \in Imports' : Status(k)' = "conflict" => \E s \in Existing(Of(k))' : s.bytes # Of(k)'.bytes
    BY <1>2, <1>4, <1>5, <1>6 DEF IInv, JudgementsHold, Judging
  <2>3. \A s \in db'.saved : \E k \in Imports' : Row(Of(k)') = s /\ Status(k)' \in {"accepted", "covered"}
    BY <1>2, <1>4, <1>7 DEF IInv, JudgementsHold, Judging
  <2>4. \A s, t \in db'.saved : s.id = t.id => s = t
    BY <1>2 DEF IInv, JudgementsHold
  <2>5. QED
    BY <2>1, <2>2, <2>3, <2>4 DEF JudgementsHold, Row
<1>9. QED
  BY <1>1, <1>2, <1>3, <1>8

\* The same when only one import is touched.
LEMMA OneStatusStep ==
  ASSUME IInv, NEW i \in Imports, NEW status \in Statuses, status \notin Judging,
         Status(i) \notin Judging, db' = SetStatus(db, i, status)
  PROVE  /\ Shape' /\ CoverageGrounded' /\ JudgementsHold' /\ Imports' = Imports
         /\ db'.kept = db.kept
         /\ \A k \in Imports : Status(k)' = IF k = i THEN status ELSE Status(k)
<1>1. /\ db' = [coverage |-> db.coverage, snapshot |-> db.snapshot, saved |-> db.saved,
                imports |-> db'.imports, kept |-> db.kept, processed |-> db.processed,
                done |-> db.done]
      /\ db'.imports \in Seq(Import) /\ DOMAIN db'.imports = DOMAIN db.imports
      /\ \A k \in DOMAIN db.imports :
           /\ db'.imports[k].report = db.imports[k].report
           /\ db'.imports[k].status = IF k = i THEN status ELSE db.imports[k].status
  BY SetStatusEffect DEF IInv, Shape, Imports
<1>2. SameReports
  BY <1>1 DEF SameReports, Imports, Of
<1>3. \A k \in Imports : Status(k)' = IF k = i THEN status ELSE Status(k)
  BY <1>1 DEF Imports, Status
<1>4. \A k \in Imports : db'.imports[k].status = Status(k)
            \/ (Status(k) \notin Judging /\ db'.imports[k].status \notin Judging)
  BY <1>1 DEF Imports, Status
<1>5. Shape' /\ CoverageGrounded' /\ JudgementsHold' /\ Imports' = Imports
  BY <1>2, <1>4, StatusStep
<1>6. db'.kept = db.kept
  BY <1>1
<1>7. QED
  BY <1>3, <1>5, <1>6

\* Whatever does not touch the records keeps what they say.
LEMMA RecordsKept ==
  ASSUME IInv, db' = db
  PROVE  /\ Shape' /\ CoverageGrounded' /\ JudgementsHold' /\ Imports' = Imports
         /\ \A k : Status(k)' = Status(k)
BY DEF IInv, Shape, CoverageGrounded, JudgementsHold, Imports, Status, Of, Row, Existing

-----------------------------------------------------------------------------
\* Steps that touch no record: an upload or the job may end, none begins.
LEMMA QuietStep ==
  ASSUME IInv, db' = db, active' \subseteq active, job' \in {job, NoJob}
  PROVE  IInv'
<1>1. /\ Shape' /\ CoverageGrounded' /\ JudgementsHold' /\ Imports' = Imports
      /\ \A k : Status(k)' = Status(k)
  BY RecordsKept
<1>2. JobShape'
  BY DEF IInv, JobShape, NoJob
<1>3. Apart'
  <2>1. CASE job' = job
    BY <1>1, <2>1 DEF IInv, Apart
  <2>2. CASE job' = NoJob
    BY <1>1, <2>2 DEF IInv, Apart, NoJob, Working
  <2>3. QED
    BY <2>1, <2>2
<1>4. QED
  BY <1>1, <1>2, <1>3 DEF IInv

\* Recovery interrupts what was arriving, and judges nothing.
LEMMA RecoverStep ==
  ASSUME IInv, recover, active' = active, job' = job
  PROVE  IInv'
<1> DEFINE new == [i \in Imports |->
           [db.imports[i] EXCEPT !.status = IF Status(i) \in {"uploading", "received"}
                                            THEN "interrupted" ELSE Status(i)]]
<1>1. db' = [db EXCEPT !.imports = new]
  BY DEF recover
<1>2. \A i \in Imports : db.imports[i] \in Import
  BY DEF IInv, Shape, Imports
<1>3. \A i \in Imports :
        /\ new[i] \in Import /\ new[i].report = Of(i)
        /\ new[i].status = IF Status(i) \in {"uploading", "received"} THEN "interrupted" ELSE Status(i)
  BY <1>2 DEF Import, Of, Status, Statuses
<1>4. new \in Seq(Import) /\ DOMAIN new = Imports
  <2>1. Imports = 1 .. Len(db.imports) /\ Len(db.imports) \in Nat
    BY DEF IInv, Shape, Imports
  <2>2. DOMAIN new = Imports
    OBVIOUS
  <2>3. new \in [1 .. Len(db.imports) -> Import]
    BY <1>3, <2>1, <2>2
  <2>4. QED
    BY <2>1, <2>2, <2>3
<1>5. SameReports /\ db'.kept = db.kept /\ db'.imports = new
  BY <1>1, <1>3, <1>4 DEF SameReports, IInv, Shape
<1>6. \A k \in Imports : db'.imports[k].status = Status(k)
            \/ (Status(k) \notin Judging /\ db'.imports[k].status \notin Judging)
  BY <1>3, <1>5 DEF Judging
<1>7. Shape' /\ CoverageGrounded' /\ JudgementsHold' /\ Imports' = Imports
  BY <1>5, <1>6, StatusStep
<1>8. \A k \in Imports : Status(k)' = IF Status(k) \in {"uploading", "received"}
                                      THEN "interrupted" ELSE Status(k)
  BY <1>3, <1>5 DEF Status
<1>9. JobShape' /\ Apart'
  BY <1>5, <1>7, <1>8 DEF IInv, JobShape, Apart
<1>10. QED
  BY <1>7, <1>9 DEF IInv

\* New imports wait for their upload; the ones before keep their number.
LEMMA CreateBatchStep ==
  ASSUME IInv, createBatch
  PROVE  IInv'
<1>1. PICK chosen \in Choices :
        db' = [db EXCEPT !.imports = @ \o [k \in DOMAIN chosen |->
                [batch |-> Len(db.imports) + 1, report |-> chosen[k], status |-> "uploading"]]]
  BY DEF createBatch
<1> DEFINE more == [k \in DOMAIN chosen |->
                [batch |-> Len(db.imports) + 1, report |-> chosen[k], status |-> "uploading"]]
           new == db.imports \o more
<1>2. chosen \in Seq(Reports)
  BY ChoicesAssumption
<1>3. db.imports \in Seq(Import) /\ Len(db.imports) \in Nat
  BY DEF IInv, Shape
<1>4. more \in Seq(Import)
  <2>1. DOMAIN chosen = 1 .. Len(chosen) /\ Len(chosen) \in Nat
    BY <1>2
  <2>2. \A k \in DOMAIN chosen : chosen[k] \in Reports
    BY <1>2
  <2>3. more \in [1 .. Len(chosen) -> Import]
    BY <1>3, <2>1, <2>2 DEF Import, Statuses
  <2>4. QED
    BY <2>1, <2>3
<1>5. /\ new \in Seq(Import) /\ Len(new) = Len(db.imports) + Len(more) /\ Len(more) \in Nat
      /\ \A k \in 1 .. Len(new) : new[k] = IF k <= Len(db.imports) THEN db.imports[k]
                                          ELSE more[k - Len(db.imports)]
  BY <1>3, <1>4, ConcatProperties
<1>6. /\ Imports \subseteq DOMAIN new
      /\ \A k \in Imports : new[k] = db.imports[k]
      /\ \A k \in DOMAIN new : k \notin Imports => new[k].status = "uploading"
  <2>1. Imports = 1 .. Len(db.imports) /\ DOMAIN new = 1 .. Len(new) /\ DOMAIN more = 1 .. Len(more)
    BY <1>3, <1>4, <1>5 DEF Imports
  <2>2. \A k \in DOMAIN more : more[k].status = "uploading"
    OBVIOUS
  <2>3. \A k \in DOMAIN new : k \notin Imports => k - Len(db.imports) \in DOMAIN more
    BY <1>3, <1>5, <2>1
  <2>4. QED
    BY <1>3, <1>5, <2>1, <2>2, <2>3
<1>7. /\ db' = [coverage |-> db.coverage, snapshot |-> db.snapshot, saved |-> db.saved,
                imports |-> new, kept |-> db.kept, processed |-> db.processed, done |-> db.done]
      /\ active' = active /\ job' = job
  BY <1>1 DEF IInv, Shape, createBatch, process
<1>8. /\ Imports' = DOMAIN new
      /\ \A k \in Imports : Of(k)' = Of(k) /\ Status(k)' = Status(k)
      /\ \A k \in Imports' : k \notin Imports => Status(k)' = "uploading"
  BY <1>6, <1>7 DEF Imports, Of, Status
<1>9. Shape'
  BY <1>5, <1>7 DEF IInv, Shape
<1>10. CoverageGrounded'
  BY <1>7 DEF IInv, CoverageGrounded
<1>11. JudgementsHold'
  <2>1. \A r : Existing(r)' = Existing(r)
    BY <1>7 DEF Existing
  <2>2. \A k \in Imports' : Status(k)' \in Judging => k \in Imports
    BY <1>8 DEF Judging
  <2>3. \A k \in Imports' : Status(k)' \in {"accepted", "covered", "duplicate"} => Row(Of(k)') \in db'.saved
    BY <1>7, <1>8, <2>2 DEF IInv, JudgementsHold, Judging
  <2>4. \A k \in Imports' : Status(k)' = "conflict" => \E s \in Existing(Of(k))' : s.bytes # Of(k)'.bytes
    BY <1>7, <1>8, <2>1, <2>2 DEF IInv, JudgementsHold, Judging
  <2>5. \A s \in db'.saved : \E k \in Imports' : Row(Of(k)') = s /\ Status(k)' \in {"accepted", "covered"}
    BY <1>6, <1>7, <1>8 DEF IInv, JudgementsHold
  <2>6. \A s, t \in db'.saved : s.id = t.id => s = t
    BY <1>7 DEF IInv, JudgementsHold
  <2>7. QED
    BY <2>3, <2>4, <2>5, <2>6 DEF JudgementsHold, Row
<1>12. JobShape'
  BY <1>7 DEF IInv, JobShape
<1>13. Apart'
  <2>1. \A k \in Imports' : k \notin Imports => k \notin db'.kept
    BY <1>7 DEF IInv, Apart
  <2>2. QED
    BY <1>6, <1>7, <1>8, <2>1 DEF IInv, Apart
<1>14. QED
  BY <1>9, <1>10, <1>11, <1>12, <1>13 DEF IInv

-----------------------------------------------------------------------------
\* Uploads: the files that arrive are not those that are judged.
LEMMA UploadStep ==
  ASSUME IInv, NEW i \in Imports, upload(i)
  PROVE  IInv'
<1>1. db' = db /\ job' = job /\ active' = active \union {i} /\ Status(i) = "uploading"
  BY DEF upload
<1>2. /\ Shape' /\ CoverageGrounded' /\ JudgementsHold' /\ Imports' = Imports
      /\ \A k : Status(k)' = Status(k)
  BY <1>1, RecordsKept
<1>3. JobShape' /\ Apart'
  BY <1>1, <1>2 DEF IInv, JobShape, Apart
<1>4. QED
  BY <1>2, <1>3 DEF IInv

LEMMA UploadReceivedStep ==
  ASSUME IInv, NEW i \in Imports, UploadReceived(i)
  PROVE  IInv'
<1>1. PICK kept : /\ kept = [db EXCEPT !.kept = db.kept \union {i}]
                  /\ db' = SetStatus(kept, i, "received")
  BY DEF UploadReceived
<1>2. job' = job /\ active' = active \ {i} /\ i \in active
      /\ i \notin db.kept /\ Status(i) \in {"uploading", "interrupted"}
  BY DEF UploadReceived, IInv, Apart
<1>3. /\ kept = [coverage |-> kept.coverage, snapshot |-> kept.snapshot, saved |-> kept.saved,
                 imports |-> kept.imports, kept |-> kept.kept, processed |-> kept.processed,
                 done |-> kept.done]
      /\ kept.imports = db.imports /\ kept.kept = db.kept \union {i}
      /\ kept.coverage = db.coverage /\ kept.saved = db.saved
  BY <1>1 DEF IInv, Shape
<1>4. /\ db' = [coverage |-> db.coverage, snapshot |-> db'.snapshot, saved |-> db.saved,
                imports |-> db'.imports, kept |-> db.kept \union {i},
                processed |-> db'.processed, done |-> db'.done]
      /\ db'.imports \in Seq(Import) /\ DOMAIN db'.imports = DOMAIN db.imports
      /\ \A k \in DOMAIN db.imports :
           /\ db'.imports[k].report = db.imports[k].report
           /\ db'.imports[k].status = IF k = i THEN "received" ELSE db.imports[k].status
  <2>1. "received" \in Statuses
    BY DEF Statuses
  <2>2. kept.imports \in Seq(Import) /\ i \in DOMAIN kept.imports
    BY <1>3 DEF IInv, Shape, Imports
  <2>3. LET e == SetStatus(kept, i, "received") IN
         /\ e = [coverage |-> kept.coverage, snapshot |-> kept.snapshot, saved |-> kept.saved,
                 imports |-> e.imports, kept |-> kept.kept, processed |-> kept.processed,
                 done |-> kept.done]
         /\ e.imports \in Seq(Import) /\ DOMAIN e.imports = DOMAIN kept.imports
         /\ \A k \in DOMAIN kept.imports :
              /\ e.imports[k].report = kept.imports[k].report
              /\ e.imports[k].batch = kept.imports[k].batch
              /\ e.imports[k].status = IF k = i THEN "received" ELSE kept.imports[k].status
    BY <1>3, <2>1, <2>2, SetStatusEffect
  <2>4. /\ db' = [coverage |-> kept.coverage, snapshot |-> kept.snapshot, saved |-> kept.saved,
                  imports |-> db'.imports, kept |-> kept.kept, processed |-> kept.processed,
                  done |-> kept.done]
        /\ db'.imports \in Seq(Import) /\ DOMAIN db'.imports = DOMAIN kept.imports
        /\ \A k \in DOMAIN kept.imports :
             /\ db'.imports[k].report = kept.imports[k].report
             /\ db'.imports[k].status = IF k = i THEN "received" ELSE kept.imports[k].status
    BY <1>1, <2>3
  <2>5. kept.imports = db.imports /\ kept.kept = db.kept \union {i}
        /\ kept.coverage = db.coverage /\ kept.saved = db.saved
    BY <1>3
  <2>6. /\ db'.coverage = kept.coverage /\ db'.saved = kept.saved /\ db'.kept = kept.kept
        /\ db' = [coverage |-> db'.coverage, snapshot |-> db'.snapshot, saved |-> db'.saved,
                  imports |-> db'.imports, kept |-> db'.kept, processed |-> db'.processed,
                  done |-> db'.done]
    BY <2>4
  <2>7. QED
    BY <2>4, <2>5, <2>6
<1>5. SameReports
  BY <1>4 DEF SameReports, Imports, Of
<1>6. \A k \in Imports : Status(k)' = IF k = i THEN "received" ELSE Status(k)
  BY <1>4 DEF Imports, Status
<1>7. \A k \in Imports : db'.imports[k].status = Status(k)
            \/ (Status(k) \notin Judging /\ db'.imports[k].status \notin Judging)
  BY <1>2, <1>4 DEF Imports, Status, Judging
<1>8. Shape' /\ CoverageGrounded' /\ JudgementsHold' /\ Imports' = Imports
  BY <1>5, <1>7, StatusStep
<1>9. db'.kept = db.kept \union {i}
  BY <1>4
<1>10. JobShape' /\ Apart'
  BY <1>2, <1>6, <1>8, <1>9 DEF IInv, JobShape, Apart
<1>11. QED
  BY <1>8, <1>10 DEF IInv

\* An upload that ends without its report interrupts its import.
LEMMA InterruptStep ==
  ASSUME IInv, NEW i \in Imports, i \notin db.kept, Status(i) \in {"uploading", "interrupted"},
         db' = SetStatus(db, i, "interrupted"), active' \subseteq active, job' = job
  PROVE  IInv'
<1>1. /\ Shape' /\ CoverageGrounded' /\ JudgementsHold' /\ Imports' = Imports
      /\ db'.kept = db.kept
      /\ \A k \in Imports : Status(k)' = IF k = i THEN "interrupted" ELSE Status(k)
  <2>1. "interrupted" \in Statuses /\ "interrupted" \notin Judging /\ Status(i) \notin Judging
    BY DEF Statuses, Judging
  <2>2. QED
    BY <2>1, OneStatusStep
<1>2. JobShape' /\ Apart'
  BY <1>1 DEF IInv, JobShape, Apart
<1>3. QED
  BY <1>1, <1>2 DEF IInv

LEMMA UploadBrokenStep ==
  ASSUME IInv, NEW i \in Imports, UploadBroken(i)
  PROVE  IInv'
<1>1. i \in active /\ active' = active \ {i} /\ job' = job
  BY DEF UploadBroken
<1>2. i \notin db.kept /\ Status(i) \in {"uploading", "interrupted"}
  BY <1>1 DEF IInv, Apart
<1>3. db' = SetStatus(db, i, "interrupted")
  BY <1>2 DEF UploadBroken
<1>4. QED
  BY <1>1, <1>2, <1>3, InterruptStep

LEMMA FailUploadStep ==
  ASSUME IInv, NEW i \in Imports, failUpload(i)
  PROVE  IInv'
BY InterruptStep DEF failUpload

-----------------------------------------------------------------------------
\* The worker takes the received files of a batch.
LEMMA NextJobStep ==
  ASSUME IInv, NextJob
  PROVE  IInv'
<1> DEFINE b == Head(reportQueue)
           received == {i \in BatchFiles(b) : Status(i) = "received"}
           taken == [at |-> IF received = {} THEN "applying" ELSE "reading",
                     batch |-> b, todo |-> received, inputs |-> {}]
<1>1. db' = db /\ active' = active /\ (job' = NoJob \/ job' = taken)
  BY DEF NextJob
<1>2. /\ Shape' /\ CoverageGrounded' /\ JudgementsHold' /\ Imports' = Imports
      /\ \A k : Status(k)' = Status(k)
  BY <1>1, RecordsKept
<1>3. CASE job' = NoJob
  BY <1>1, <1>3, QuietStep
<1>4. CASE job' = taken
  <2>1. JobShape'
    BY <1>4 DEF JobShape, Working
  <2>2. \A i \in received : i \in Imports /\ i \in db.kept /\ Status(i) = "received"
    BY DEF IInv, Apart, BatchFiles
  <2>3. job'.todo = received /\ job'.inputs = {}
    BY <1>4
  <2>4. Apart'
    BY <1>1, <1>2, <2>2, <2>3 DEF IInv, Apart
  <2>5. QED
    BY <1>2, <2>1, <2>4 DEF IInv
<1>5. QED
  BY <1>1, <1>3, <1>4

\* Moving a file on neither doubles nor invents one; a file that did not pass
\* is out of the job.
LEMMA MovedEffect ==
  ASSUME IInv, job.at \in Working, NEW i \in job.todo, NEW passed \in BOOLEAN,
         NEW next \in Working, job' = Moved(i, passed, next)
  PROVE  /\ JobShape' /\ job'.at \in Working
         /\ job'.todo \intersect job'.inputs = {}
         /\ job'.todo \union job'.inputs \subseteq
              IF passed THEN job.todo \union job.inputs ELSE (job.todo \union job.inputs) \ {i}
<1> DEFINE inputs == IF passed THEN job.inputs \union {i} ELSE job.inputs
<1>1. /\ job = [at |-> job.at, batch |-> job.batch, todo |-> job.todo, inputs |-> job.inputs]
      /\ job.todo \intersect job.inputs = {}
  BY DEF IInv, JobShape, Apart, NoJob, Working
<1>2. CASE job.todo = {i}
  <2>1. job' = [at |-> next, batch |-> job.batch, todo |-> inputs, inputs |-> {}]
    BY <1>1, <1>2 DEF Moved
  <2>2. QED
    BY <1>1, <1>2, <2>1 DEF JobShape
<1>3. CASE job.todo # {i}
  <2>1. job' = [at |-> job.at, batch |-> job.batch, todo |-> job.todo \ {i}, inputs |-> inputs]
    BY <1>1, <1>3 DEF Moved
  <2>2. QED
    BY <1>1, <2>1 DEF JobShape
<1>4. QED
  BY <1>2, <1>3

LEMMA FileMovedStep ==
  ASSUME IInv, job.at \in Working, NEW i \in job.todo, NEW passed \in BOOLEAN,
         NEW next \in Working, job' = Moved(i, passed, next), active' = active,
         db' = IF passed THEN db ELSE SetStatus(db, i, "failed")
  PROVE  IInv'
<1>1. /\ JobShape' /\ job'.at \in Working
      /\ job'.todo \intersect job'.inputs = {}
      /\ job'.todo \union job'.inputs \subseteq
           IF passed THEN job.todo \union job.inputs ELSE (job.todo \union job.inputs) \ {i}
  BY MovedEffect
<1>2. i \in Imports /\ i \in db.kept /\ Status(i) \in {"received", "interrupted"}
  BY DEF IInv, Apart
<1>3. CASE passed
  <2>1. /\ Shape' /\ CoverageGrounded' /\ JudgementsHold' /\ Imports' = Imports
        /\ \A k : Status(k)' = Status(k)
    BY <1>3, RecordsKept
  <2>2. Apart'
    BY <1>1, <1>3, <2>1 DEF IInv, Apart
  <2>3. QED
    BY <1>1, <2>1, <2>2 DEF IInv
<1>4. CASE ~passed
  <2>1. "failed" \in Statuses /\ "failed" \notin Judging /\ Status(i) \notin Judging
    BY <1>2 DEF Statuses, Judging
  <2>2. /\ Shape' /\ CoverageGrounded' /\ JudgementsHold' /\ Imports' = Imports
        /\ db'.kept = db.kept
        /\ \A k \in Imports : Status(k)' = IF k = i THEN "failed" ELSE Status(k)
    BY <1>2, <1>4, <2>1, OneStatusStep
  <2>3. Apart'
    BY <1>1, <1>2, <1>4, <2>2 DEF IInv, Apart
  <2>4. QED
    BY <1>1, <2>2, <2>3 DEF IInv
<1>5. QED
  BY <1>3, <1>4

LEMMA ReadFileStep ==
  ASSUME IInv, ReadFile
  PROVE  IInv'
<1>1. active' = active /\ job.at \in Working
  BY DEF ReadFile, Working
<1>2. PICK i \in job.todo :
        \/ db' = db /\ job' = Moved(i, TRUE, "parsing")
        \/ /\ db' = SetStatus(db, i, "failed")
           /\ job' = Moved(i, FALSE, IF job.inputs = {} THEN "applying" ELSE "parsing")
  BY DEF ReadFile, Firsts
<1>3. "parsing" \in Working /\ (IF job.inputs = {} THEN "applying" ELSE "parsing") \in Working
  BY DEF Working
<1>4. QED
  BY <1>1, <1>2, <1>3, FileMovedStep

LEMMA ParseStep ==
  ASSUME IInv, parseReport
  PROVE  IInv'
<1>1. active' = active /\ job.at \in Working /\ "applying" \in Working
  BY DEF parseReport, Working
<1>2. PICK i \in job.todo :
        LET good == Of(i).sound /\ validateReport(Of(i)) IN
        /\ db' = IF good THEN db ELSE SetStatus(db, i, "failed")
        /\ job' = Moved(i, good, "applying")
  BY DEF parseReport, Firsts
<1> DEFINE good == Of(i).sound /\ validateReport(Of(i))
<1>3. CASE good
  <2>1. db' = db /\ job' = Moved(i, TRUE, "applying")
    BY <1>2, <1>3 DEF Moved
  <2>2. QED
    BY <1>1, <2>1, FileMovedStep
<1>4. CASE ~good
  <2>1. db' = SetStatus(db, i, "failed") /\ job' = Moved(i, FALSE, "applying")
    BY <1>2, <1>4 DEF Moved
  <2>2. QED
    BY <1>1, <2>1, FileMovedStep
<1>5. QED
  BY <1>3, <1>4

-----------------------------------------------------------------------------
Leaves(i) == job' = [job EXCEPT !.todo = job.todo \ {i}]

\* A report is judged: its import alone changes status and it leaves the job,
\* whatever becomes of the coverage, the snapshot and the table of reports.
LEMMA JudgedEffect ==
  ASSUME IInv, NEW i \in job.todo, job.at = "applying", NEW status \in Statuses,
         status \notin {"uploading", "received"},
         NEW coverage, NEW snapshot, NEW saved, NEW d,
         d = [coverage |-> coverage, snapshot |-> snapshot, saved |-> saved,
              imports |-> db.imports, kept |-> db.kept, processed |-> db.processed,
              done |-> db.done],
         db' = SetStatus(d, i, status), active' = active,
         Leaves(i)
  PROVE  /\ i \in Imports /\ Status(i) \notin Judging
         /\ db' = [coverage |-> coverage, snapshot |-> snapshot, saved |-> saved,
                   imports |-> db'.imports, kept |-> db'.kept, processed |-> db'.processed,
                   done |-> db'.done]
         /\ db'.imports \in Seq(Import) /\ Imports' = Imports
         /\ \A k \in Imports : Of(k)' = Of(k) /\ Status(k)' = IF k = i THEN status ELSE Status(k)
         /\ JobShape' /\ Apart'
<1>1. i \in Imports /\ i \in db.kept /\ Status(i) \in {"received", "interrupted"}
  BY DEF IInv, Apart, Working
<1>2. d.imports = db.imports /\ d.kept = db.kept /\ d.coverage = coverage
      /\ d.snapshot = snapshot /\ d.saved = saved
      /\ d.processed = db.processed /\ d.done = db.done
  OBVIOUS
<1>3. d.imports \in Seq(Import) /\ i \in DOMAIN d.imports
  BY <1>1, <1>2 DEF IInv, Shape, Imports
<1>4. d = [coverage |-> d.coverage, snapshot |-> d.snapshot, saved |-> d.saved,
           imports |-> d.imports, kept |-> d.kept, processed |-> d.processed,
           done |-> d.done]
  BY <1>2
<1>5. LET e == SetStatus(d, i, status) IN
      /\ e = [coverage |-> d.coverage, snapshot |-> d.snapshot, saved |-> d.saved,
              imports |-> e.imports, kept |-> d.kept, processed |-> d.processed,
              done |-> d.done]
      /\ e.imports \in Seq(Import) /\ DOMAIN e.imports = DOMAIN d.imports
      /\ \A k \in DOMAIN d.imports :
           /\ e.imports[k].report = d.imports[k].report
           /\ e.imports[k].batch = d.imports[k].batch
           /\ e.imports[k].status = IF k = i THEN status ELSE d.imports[k].status
  BY <1>3, <1>4, SetStatusEffect
<1>6. /\ db' = [coverage |-> d.coverage, snapshot |-> d.snapshot, saved |-> d.saved,
                imports |-> db'.imports, kept |-> d.kept, processed |-> d.processed,
                done |-> d.done]
      /\ db'.imports \in Seq(Import) /\ DOMAIN db'.imports = DOMAIN d.imports
      /\ \A k \in DOMAIN d.imports :
           /\ db'.imports[k].report = d.imports[k].report
           /\ db'.imports[k].status = IF k = i THEN status ELSE d.imports[k].status
  BY <1>5
<1>7. db'.kept = db.kept
      /\ db' = [coverage |-> coverage, snapshot |-> snapshot, saved |-> saved,
                imports |-> db'.imports, kept |-> db'.kept, processed |-> db'.processed,
                done |-> db'.done]
  BY <1>2, <1>6
<1>8. Imports' = Imports
      /\ \A k \in Imports : Of(k)' = Of(k) /\ Status(k)' = IF k = i THEN status ELSE Status(k)
  BY <1>2, <1>6 DEF Imports, Of, Status
<1>9. job = [at |-> job.at, batch |-> job.batch, todo |-> job.todo, inputs |-> job.inputs]
  BY DEF IInv, JobShape, NoJob
<1>10. job' = [at |-> job.at, batch |-> job.batch, todo |-> job.todo \ {i}, inputs |-> job.inputs]
  BY <1>9 DEF Leaves
<1>11. JobShape'
  BY <1>10 DEF JobShape, Working
<1>12. Apart'
  BY <1>1, <1>7, <1>8, <1>10 DEF IInv, Apart, Working
<1>13. QED
  BY <1>1, <1>6, <1>7, <1>8, <1>11, <1>12 DEF Judging

\* A judgement that keeps nothing new and asserts nothing of the kept reports.
LEMMA PutAsideStep ==
  ASSUME IInv, NEW i \in job.todo, job.at = "applying", NEW status \in {"failed", "gap"},
         db' = SetStatus(db, i, status), active' = active,
         Leaves(i)
  PROVE  IInv'
<1>1. status \in Statuses /\ status \notin {"uploading", "received"} /\ status \notin Judging
  BY DEF Statuses, Judging
<1>2. db = [coverage |-> db.coverage, snapshot |-> db.snapshot, saved |-> db.saved,
            imports |-> db.imports, kept |-> db.kept, processed |-> db.processed,
            done |-> db.done]
  BY DEF IInv, Shape
<1>3. i \in Imports /\ Status(i) \notin Judging /\ JobShape' /\ Apart'
  BY <1>1, <1>2, JudgedEffect
<1>4. Shape' /\ CoverageGrounded' /\ JudgementsHold'
  BY <1>1, <1>3, OneStatusStep
<1>5. QED
  BY <1>3, <1>4 DEF IInv

\* A number that is known: the kept bytes decide.
LEMMA KnownReportStep ==
  ASSUME IInv, NEW i \in job.todo, job.at = "applying", KnownReport(i), active' = active
  PROVE  IInv'
<1>1. PICK s \in Existing(Of(i)) :
        Judged(i, SetStatus(db, i, IF s.bytes = Of(i).bytes THEN "duplicate" ELSE "conflict"))
  BY DEF KnownReport
<1> DEFINE status == IF s.bytes = Of(i).bytes THEN "duplicate" ELSE "conflict"
<1>2. status \in Statuses /\ status \notin {"uploading", "received"}
  BY DEF Statuses
<1>3. db = [coverage |-> db.coverage, snapshot |-> db.snapshot, saved |-> db.saved,
            imports |-> db.imports, kept |-> db.kept, processed |-> db.processed,
            done |-> db.done]
  BY DEF IInv, Shape
<1>4. db' = SetStatus(db, i, status) /\ Leaves(i)
  BY <1>1 DEF Judged, Leaves
<1> HIDE DEF status
<1>5. /\ i \in Imports /\ Status(i) \notin Judging
      /\ db' = [coverage |-> db.coverage, snapshot |-> db.snapshot, saved |-> db.saved,
                imports |-> db'.imports, kept |-> db'.kept, processed |-> db'.processed,
                done |-> db'.done]
      /\ db'.imports \in Seq(Import) /\ Imports' = Imports
      /\ \A k \in Imports : Of(k)' = Of(k) /\ Status(k)' = IF k = i THEN status ELSE Status(k)
      /\ JobShape' /\ Apart'
  BY <1>2, <1>3, <1>4, JudgedEffect
<1>6. db'.coverage = db.coverage /\ db'.saved = db.saved
  BY <1>5
<1>7. Shape' /\ CoverageGrounded'
  BY <1>5, <1>6 DEF IInv, Shape, CoverageGrounded
<1>8. s \in db.saved /\ s.id = Of(i).id /\ Of(i) \in Reports
  <2>1. db.imports[i] \in Import
    BY <1>5 DEF IInv, Shape, Imports
  <2>2. QED
    BY <2>1 DEF Existing, Import, Of
<1>9. s.bytes = Of(i).bytes => Row(Of(i)) = s
  <2>1. PICK r \in Reports : s = Row(r)
    BY <1>8 DEF IInv, Shape, Rows
  <2>2. s.id = r.id /\ s.bytes = r.bytes
    BY <2>1 DEF Row
  <2>3. QED
    BY <1>8, <2>1, <2>2, ChoicesAssumption
<1>10. JudgementsHold'
  <2>1. \A r : Existing(r)' = Existing(r)
    BY <1>6 DEF Existing
  <2>2. \A k \in Imports : Status(k)' \in {"accepted", "covered", "duplicate"} => Row(Of(k)') \in db'.saved
    <3>1. CASE s.bytes = Of(i).bytes
      BY <1>5, <1>6, <1>8, <1>9, <3>1 DEF IInv, JudgementsHold
    <3>2. CASE s.bytes # Of(i).bytes
      BY <1>5, <1>6, <3>2 DEF IInv, JudgementsHold, status
    <3>3. QED
      BY <3>1, <3>2
  <2>3. \A k \in Imports : Status(k)' = "conflict" => \E t \in Existing(Of(k))' : t.bytes # Of(k)'.bytes
    <3>1. CASE s.bytes = Of(i).bytes
      BY <1>5, <2>1, <3>1 DEF IInv, JudgementsHold, status
    <3>2. CASE s.bytes # Of(i).bytes
      BY <1>1, <1>5, <2>1, <3>2 DEF IInv, JudgementsHold
    <3>3. QED
      BY <3>1, <3>2
  <2>4. \A t \in db'.saved : \E k \in Imports : Row(Of(k)') = t /\ Status(k)' \in {"accepted", "covered"}
    BY <1>5, <1>6 DEF IInv, JudgementsHold, Judging
  <2>5. \A t, u \in db'.saved : t.id = u.id => t = u
    BY <1>6 DEF IInv, JudgementsHold
  <2>6. QED
    BY <1>5, <2>2, <2>3, <2>4, <2>5 DEF JudgementsHold, Row
<1>11. QED
  BY <1>5, <1>7, <1>10 DEF IInv

\* Reports that are not put aside for a gap touch the covered history.
LEMMA DecisionEffect ==
  ASSUME NEW c \in Nat, NEW from \in Nat, NEW to \in Nat,
         reportDecision(c, from, to) # "gap"
  PROVE  IF reportDecision(c, from, to) = "covered" THEN to <= c ELSE from <= c /\ c < to
<1>1. CASE to <= c
  BY <1>1 DEF reportDecision
<1>2. CASE ~(to <= c) /\ from <= c
  BY <1>2 DEF reportDecision
<1>3. CASE ~(to <= c) /\ ~(from <= c)
  BY <1>3 DEF reportDecision
<1>4. QED
  BY <1>1, <1>2, <1>3

\* A new report that touches the covered part of the history is kept; when it
\* reaches further, the coverage moves to its end, which it grounds.
LEMMA AcceptedStep ==
  ASSUME IInv, NEW i \in job.todo, job.at = "applying", active' = active,
         Existing(Of(i)) = {}, Decision(Of(i)) # "gap",
         db' = Accept(i), Leaves(i)
  PROVE  IInv'
<1> DEFINE r == Of(i)
           covered == Decision(r) = "covered"
           status == IF covered THEN "covered" ELSE "accepted"
           coverage == IF covered THEN db.coverage ELSE r.to
           snapshot == IF covered THEN db.snapshot ELSE Merged(db.snapshot, r)
           saved == db.saved \union {Row(r)}
           record == [coverage |-> coverage, snapshot |-> snapshot, saved |-> saved,
                      imports |-> db.imports, kept |-> db.kept, processed |-> db.processed,
                      done |-> db.done]
<1>1. db = [coverage |-> db.coverage, snapshot |-> db.snapshot, saved |-> db.saved,
            imports |-> db.imports, kept |-> db.kept, processed |-> db.processed,
            done |-> db.done]
  BY DEF IInv, Shape
<1>2. PICK d : d = record /\ db' = SetStatus(d, i, status)
  <2>1. PICK e : e = [db EXCEPT !.saved = db.saved \union {Row(r)}]
    OBVIOUS
  <2>2. e = [coverage |-> db.coverage, snapshot |-> db.snapshot, saved |-> saved,
             imports |-> db.imports, kept |-> db.kept, processed |-> db.processed,
             done |-> db.done]
    BY <1>1, <2>1
  <2>3. CASE covered
    <3>1. db' = SetStatus(e, i, "covered")
      BY <2>1, <2>3 DEF Accept
    <3>2. QED
      BY <2>2, <2>3, <3>1
  <2>4. CASE ~covered
    <3>1. PICK f : f = [e EXCEPT !.snapshot = Merged(db.snapshot, r), !.coverage = r.to]
      OBVIOUS
    <3>2. f = record
      BY <2>2, <2>4, <3>1
    <3>3. db' = SetStatus(f, i, "accepted")
      BY <2>1, <2>4, <3>1 DEF Accept
    <3>4. QED
      BY <2>4, <3>2, <3>3
  <2>5. QED
    BY <2>3, <2>4
<1>3. status \in Statuses /\ status \notin {"uploading", "received"}
  BY DEF Statuses
<1>4. i \in Imports /\ r \in Reports /\ r.from \in Nat /\ r.to \in Nat
  <2>1. i \in Imports
    BY DEF IInv, Apart, Working
  <2>2. db.imports[i] \in Import
    BY <2>1 DEF IInv, Shape, Imports
  <2>3. QED
    BY <2>1, <2>2, ChoicesAssumption DEF Of, Import
<1>5. db.coverage \in Nat /\ (IF covered THEN r.to <= db.coverage
                              ELSE r.from <= db.coverage /\ db.coverage < r.to)
  <2>1. db.coverage \in Nat
    BY DEF IInv, Shape
  <2>2. Decision(r) = reportDecision(db.coverage, r.from, r.to) /\ Decision(r) # "gap"
    BY DEF Decision
  <2> HIDE DEF r
  <2>3. QED
    BY <1>4, <2>1, <2>2, DecisionEffect
<1> HIDE DEF r, covered, status, coverage, snapshot, saved
<1>6. /\ Status(i) \notin Judging
      /\ db' = [coverage |-> coverage, snapshot |-> snapshot, saved |-> saved,
                imports |-> db'.imports, kept |-> db'.kept, processed |-> db'.processed,
                done |-> db'.done]
      /\ db'.imports \in Seq(Import) /\ Imports' = Imports
      /\ \A k \in Imports : Of(k)' = Of(k) /\ Status(k)' = IF k = i THEN status ELSE Status(k)
      /\ JobShape' /\ Apart'
  <2>1. db' = SetStatus(d, i, status) /\ d = record
    BY <1>2
  <2> HIDE DEF record
  <2>2. Leaves(i) /\ job.at = "applying" /\ active' = active
    OBVIOUS
  <2>3. d = [coverage |-> coverage, snapshot |-> snapshot, saved |-> saved,
             imports |-> db.imports, kept |-> db.kept, processed |-> db.processed,
             done |-> db.done]
    BY <2>1 DEF record
  <2>4. QED
    BY <1>3, <2>1, <2>2, <2>3, JudgedEffect
<1>7. db'.coverage = coverage /\ db'.saved = saved
  BY <1>6
<1>8. Shape'
  BY <1>4, <1>5, <1>6, <1>7 DEF IInv, Shape, Rows, coverage, saved
<1>9. CoverageGrounded'
  <2>1. Row(r).from = r.from /\ Row(r).to = r.to /\ Row(r) \in saved /\ db.saved \subseteq saved
    BY DEF Row, saved
  <2>2. \A w \in 1 .. coverage : \E s \in saved : s.from < w /\ w <= s.to
    <3>1. ASSUME NEW w \in 1 .. coverage
          PROVE  \E s \in saved : s.from < w /\ w <= s.to
      <4>1. CASE w <= db.coverage
        BY <1>5, <2>1, <3>1, <4>1 DEF IInv, CoverageGrounded, coverage
      <4>2. CASE ~(w <= db.coverage)
        BY <1>4, <1>5, <2>1, <3>1, <4>2 DEF coverage
      <4>3. QED
        BY <4>1, <4>2
    <3>2. QED
      BY <3>1
  <2>3. \A s \in saved : s.to <= coverage
    <3>1. \A s \in db.saved : s.to \in Nat /\ s.to <= db.coverage
      BY ChoicesAssumption DEF IInv, Shape, CoverageGrounded, Rows, Row
    <3>2. QED
      BY <1>4, <1>5, <2>1, <3>1 DEF saved, coverage
  <2>4. coverage > 0 => \E s \in saved : s.to = coverage
    BY <1>4, <1>5, <2>1 DEF IInv, CoverageGrounded, coverage
  <2>5. QED
    BY <1>7, <2>2, <2>3, <2>4 DEF CoverageGrounded
<1>10. JudgementsHold'
  <2>1. Row(r).id = r.id /\ Row(r).bytes = r.bytes /\ Row(r) \in saved /\ db.saved \subseteq saved
    BY DEF Row, saved
  <2>2. status \in {"accepted", "covered"} /\ Of(i) = r
    BY DEF status, r
  <2>3. \A x : Existing(x) \subseteq Existing(x)'
    BY <1>7, <2>1 DEF Existing
  <2>4. \A k \in Imports : Status(k)' \in {"accepted", "covered", "duplicate"} => Row(Of(k)') \in db'.saved
    BY <1>6, <1>7, <2>1, <2>2 DEF IInv, JudgementsHold
  <2>5. \A k \in Imports : Status(k)' = "conflict" => \E t \in Existing(Of(k))' : t.bytes # Of(k)'.bytes
    BY <1>6, <2>2, <2>3 DEF IInv, JudgementsHold
  <2>6. \A t \in db'.saved : \E k \in Imports : Row(Of(k)') = t /\ Status(k)' \in {"accepted", "covered"}
    <3>1. ASSUME NEW t \in saved
          PROVE  \E k \in Imports : Row(Of(k)') = t /\ Status(k)' \in {"accepted", "covered"}
      <4>1. CASE t = Row(r)
        BY <1>4, <1>6, <2>2, <4>1
      <4>2. CASE t \in db.saved
        BY <1>6, <2>2, <4>2 DEF IInv, JudgementsHold, Judging
      <4>3. QED
        BY <4>1, <4>2 DEF saved
    <3>2. QED
      BY <1>7, <3>1
  <2>7. \A t, u \in db'.saved : t.id = u.id => t = u
    BY <1>7, <2>1, <2>2 DEF IInv, JudgementsHold, Existing, saved
  <2>8. QED
    BY <1>6, <2>4, <2>5, <2>6, <2>7 DEF JudgementsHold, Row
<1>11. QED
  BY <1>6, <1>8, <1>9, <1>10 DEF IInv

LEMMA ApplyStep ==
  ASSUME IInv, applyReports
  PROVE  IInv'
<1>1. job.at = "applying" /\ active' = active
  BY DEF applyReports
<1>2. PICK i \in job.todo : KnownReport(i) \/ RefusedReport(i) \/ GapReport(i) \/ AcceptedReport(i)
  BY DEF applyReports, Picked
<1>3. CASE KnownReport(i)
  BY <1>1, <1>3, KnownReportStep
<1>4. CASE RefusedReport(i)
  BY <1>1, <1>4, PutAsideStep DEF RefusedReport, Judged, Leaves
<1>5. CASE GapReport(i)
  BY <1>1, <1>5, PutAsideStep DEF GapReport, Judged, Leaves
<1>6. CASE AcceptedReport(i)
  <2>1. CASE readBusinessState(Accept(i))
    BY <1>1, <1>6, <2>1, AcceptedStep DEF AcceptedReport, Judged, Leaves
  <2>2. CASE ~readBusinessState(Accept(i))
    BY <1>1, <1>6, <2>2, QuietStep DEF AcceptedReport
  <2>3. QED
    BY <2>1, <2>2
<1>7. QED
  BY <1>2, <1>3, <1>4, <1>5, <1>6

\* The end of a batch and of its temporary files judges nothing.
LEMMA DoneStep ==
  ASSUME IInv, ReportsDone
  PROVE  IInv'
<1> DEFINE whole == BatchFiles(job.batch) \intersect db.kept
<1>1. /\ db' = [db EXCEPT !.done = db.done \union {job.batch},
                          !.processed = db.processed \union Firsts(whole)]
      /\ job' = IF whole = {} THEN NoJob ELSE [job EXCEPT !.at = "tidying", !.todo = whole]
      /\ active' = active /\ job.at = "applying"
  BY DEF ReportsDone
<1>2. /\ db' = [coverage |-> db.coverage, snapshot |-> db.snapshot, saved |-> db.saved,
                imports |-> db.imports, kept |-> db.kept, processed |-> db'.processed,
                done |-> db'.done]
  BY <1>1 DEF IInv, Shape
<1>3. SameReports /\ db'.kept = db.kept /\ db'.imports = db.imports
  <2>1. db'.kept = db.kept /\ db'.imports = db.imports /\ db.imports \in Seq(Import)
    BY <1>2 DEF IInv, Shape
  <2>2. \A k \in Imports : db'.imports[k].report = Of(k)
    BY <2>1 DEF Of
  <2>3. QED
    BY <1>2, <2>1, <2>2 DEF SameReports, Imports
<1>4. Shape' /\ CoverageGrounded' /\ JudgementsHold' /\ Imports' = Imports
  BY <1>3, StatusStep DEF Status
<1>5. \A k \in Imports : Status(k)' = Status(k)
  BY <1>3 DEF Status
<1>6. /\ JobShape'
      /\ job'.at \notin Working
  <2>1. CASE whole = {}
    BY <1>1, <2>1 DEF JobShape, NoJob, Working
  <2>2. CASE whole # {}
    <3>1. job = [at |-> job.at, batch |-> job.batch, todo |-> job.todo, inputs |-> job.inputs]
      BY <1>1 DEF IInv, JobShape, NoJob
    <3> HIDE DEF whole
    <3>2. job' = [at |-> "tidying", batch |-> job.batch, todo |-> whole, inputs |-> job.inputs]
      BY <1>1, <2>2, <3>1
    <3>3. QED
      BY <3>2 DEF JobShape, Working
  <2>3. QED
    BY <2>1, <2>2
<1>7. Apart'
  BY <1>1, <1>3, <1>4, <1>5, <1>6 DEF IInv, Apart
<1>8. QED
  BY <1>4, <1>6, <1>7 DEF IInv

LEMMA TidyStep ==
  ASSUME IInv, removeTemporary
  PROVE  IInv'
<1>1. PICK i \in Firsts(job.todo) :
        /\ job' = IF job.todo = {i} THEN NoJob ELSE [job EXCEPT !.todo = job.todo \ {i}]
        /\ db' = [db EXCEPT !.processed = db.processed \union Firsts(job.todo \ {i})]
  BY DEF removeTemporary
<1>2. job.at = "tidying" /\ active' = active
  BY DEF removeTemporary
<1>3. db' = [coverage |-> db.coverage, snapshot |-> db.snapshot, saved |-> db.saved,
             imports |-> db.imports, kept |-> db.kept, processed |-> db'.processed,
             done |-> db'.done]
  BY <1>1 DEF IInv, Shape
<1>4. SameReports /\ db'.kept = db.kept /\ db'.imports = db.imports
  <2>1. db'.kept = db.kept /\ db'.imports = db.imports /\ db.imports \in Seq(Import)
    BY <1>3 DEF IInv, Shape
  <2>2. \A k \in Imports : db'.imports[k].report = Of(k)
    BY <2>1 DEF Of
  <2>3. QED
    BY <1>3, <2>1, <2>2 DEF SameReports, Imports
<1>5. Shape' /\ CoverageGrounded' /\ JudgementsHold' /\ Imports' = Imports
  BY <1>4, StatusStep DEF Status
<1>6. \A k \in Imports : Status(k)' = Status(k)
  BY <1>4 DEF Status
<1>7. JobShape' /\ job'.at \notin Working
  <2>1. CASE job.todo = {i}
    BY <1>1, <2>1 DEF JobShape, NoJob, Working
  <2>2. CASE job.todo # {i}
    <3>1. job = [at |-> job.at, batch |-> job.batch, todo |-> job.todo, inputs |-> job.inputs]
      BY <1>2 DEF IInv, JobShape, NoJob
    <3>2. Leaves(i)
      BY <1>1, <2>2 DEF Leaves
    <3>3. job' = [at |-> job.at, batch |-> job.batch, todo |-> job.todo \ {i}, inputs |-> job.inputs]
      BY <3>1, <3>2 DEF Leaves
    <3>4. QED
      BY <1>2, <3>3 DEF JobShape, Working
  <2>3. QED
    BY <2>1, <2>2
<1>8. Apart'
  BY <1>2, <1>4, <1>5, <1>6, <1>7 DEF IInv, Apart
<1>9. QED
  BY <1>5, <1>7, <1>8 DEF IInv

-----------------------------------------------------------------------------
LEMMA InitHolds == Init => IInv
<1> SUFFICES ASSUME Init PROVE IInv
  OBVIOUS
<1>1. /\ db = [coverage |-> 0, snapshot |-> EmptySnapshot, saved |-> {}, imports |-> <<>>,
               kept |-> {}, processed |-> {}, done |-> {}]
      /\ active = {} /\ job = NoJob
  BY DEF Init
<1>2. Imports = {} /\ db.saved = {} /\ db.coverage = 0
  BY <1>1 DEF Imports
<1>3. Shape
  BY <1>1 DEF Shape
<1>4. JobShape /\ Apart
  BY <1>1, <1>2 DEF JobShape, Apart, NoJob, Working
<1>5. CoverageGrounded /\ JudgementsHold
  BY <1>2 DEF CoverageGrounded, JudgementsHold
<1>6. QED
  BY <1>3, <1>4, <1>5 DEF IInv

LEMMA StepKeeps == IInv /\ [Next]_vars => IInv'
<1> SUFFICES ASSUME IInv, [Next]_vars PROVE IInv'
  OBVIOUS
<1>1. CASE CreateFile
  BY <1>1, QuietStep DEF CreateFile, process
<1>2. CASE CommitInitial
  BY <1>2, RecoverStep DEF CommitInitial, process
<1>3. CASE InitializeFails
  BY <1>3, QuietStep DEF InitializeFails, process
<1>4. CASE InitializeAgain
  BY <1>4, RecoverStep DEF InitializeAgain, process
<1>5. CASE Crash
  BY <1>5, QuietStep DEF Crash
<1>6. CASE Start
  <2>1. CASE recover
    BY <1>6, <2>1, RecoverStep DEF Start, process
  <2>2. CASE db' = db
    BY <1>6, <2>2, QuietStep DEF Start, process
  <2>3. QED
    BY <1>6, <2>1, <2>2 DEF Start
<1>7. CASE createBatch
  BY <1>7, CreateBatchStep
<1>8. CASE Worker
  BY <1>8, NextJobStep, ReadFileStep, ParseStep, ApplyStep, DoneStep, TidyStep DEF Worker
<1>9. CASE JobFails
  BY <1>9, QuietStep DEF JobFails
<1>10. ASSUME NEW i \in Imports,
              upload(i) \/ UploadReceived(i) \/ UploadBroken(i) \/ UploadUnrecorded(i) \/ failUpload(i)
       PROVE  IInv'
  <2>1. CASE upload(i)
    BY <2>1, UploadStep
  <2>2. CASE UploadReceived(i)
    BY <2>2, UploadReceivedStep
  <2>3. CASE UploadBroken(i)
    BY <2>3, UploadBrokenStep
  <2>4. CASE UploadUnrecorded(i)
    BY <2>4, QuietStep DEF UploadUnrecorded
  <2>5. CASE failUpload(i)
    BY <2>5, FailUploadStep
  <2>6. QED
    BY <1>10, <2>1, <2>2, <2>3, <2>4, <2>5
<1>11. CASE UNCHANGED vars
  BY <1>11, QuietStep DEF vars
<1>12. QED
  BY <1>1, <1>2, <1>3, <1>4, <1>5, <1>6, <1>7, <1>8, <1>9, <1>10, <1>11 DEF Next

\* Uploads, received files and the running job never share a file, the job
\* handles only files received in full, and the records keep their form.
THEOREM ImportInvariant == Spec => []IInv
<1>1. QED
  BY InitHolds, StepKeeps, PTL DEF Spec

\* The coverage that is confirmed to the device lies, water mark by water mark,
\* in reports the client keeps, however uploads, crashes and failures fall.
THEOREM CoverageStaysGrounded == Spec => []CoverageGrounded
<1>1. IInv => CoverageGrounded
  BY DEF IInv
<1>2. QED
  BY <1>1, ImportInvariant, PTL

\* What an import says of its report is so in every later state: an accepted, covered or
\* duplicate one is kept with its bytes, a conflicting one met other bytes.
THEOREM JudgementsStay == Spec => []JudgementsHold
<1>1. IInv => JudgementsHold
  BY DEF IInv
<1>2. QED
  BY <1>1, ImportInvariant, PTL

------------------------------------------------------------------------------
(* That the queue of report batches forgets nothing and puts nothing aside *)
(* too early, for every choice of files and any number of crashes: a gap   *)
(* remains when its batch is done, and a received report is judged.        *)

Batch(i) == db.imports[i].batch
Waiting == {reportQueue[k] : k \in DOMAIN reportQueue}
InWork(b) == job.at \in Working /\ job.batch = b

\* The store never holds what it would refuse, if its schema admits any state;
\* while there is no such store, no file is imported.
Usable == file = "ready" /\ SchemaAdmits
Stored ==
  /\ SchemaAdmits => readBusinessState(db)
  /\ inits \in Nat
  /\ ~Usable => Imports = {}

\* A batch has the number of its first file, so a new one is none of the old.
Numbered ==
  /\ reportQueue \in Seq(Nat)
  /\ \A i \in Imports : Batch(i) \in Imports
  /\ Waiting \subseteq Imports /\ db.done \subseteq Imports
  /\ job.at \in Working => job.batch \in Imports

\* While a report may still arrive, its batch is neither judged nor done.
Settled ==
  \A i \in Imports : Status(i) = "uploading" =>
    /\ Batch(i) \notin db.done /\ ~InWork(Batch(i))
    /\ \A k \in Imports : Batch(k) = Batch(i) => Status(k) # "gap"

JobFiles ==
  job.at \in Working =>
    /\ \A k \in job.todo \union job.inputs : Batch(k) = job.batch
    /\ job.batch \notin db.done
    /\ job.at = "applying" => job.inputs = {}

Down == ~up => reportQueue = <<>> /\ active = {} /\ job = NoJob
Arriving == inits = 0 => \A k \in active : Status(k) = "uploading"

\* Once a report of the batch is put aside, all that is left will be.
OnlyGapsLeft(b) ==
  /\ job.at = "applying" /\ job.batch = b
  /\ \A t \in job.todo : Existing(Of(t)) = {} /\ Decision(Of(t)) = "gap"
  /\ \A i \in Imports : (Batch(i) = b /\ Status(i) = "gap") => Of(i).from > db.coverage

Undisturbed == inits = 0 /\ ~workerError
Gaps ==
  Undisturbed => \A i \in Imports : (Status(i) = "gap" /\ Batch(i) \notin db.done) =>
    OnlyGapsLeft(Batch(i)) \/ (Batch(i) \notin Waiting /\ ~InWork(Batch(i)))

\* A received report will be judged: its batch waits for an upload, or for the
\* worker, or is in work, and then the report is part of it.
Expected(i) ==
  \/ \E k \in Imports : Batch(k) = Batch(i) /\ Status(k) = "uploading"
  \/ Batch(i) \in Waiting
  \/ InWork(Batch(i))
Woken ==
  (Undisturbed /\ up) => \A i \in Imports : Status(i) = "received" =>
    /\ Batch(i) \notin db.done
    /\ Expected(i)
    /\ InWork(Batch(i)) => i \in job.todo \union job.inputs

WakeInv ==
  /\ IInv
  /\ Stored /\ Numbered /\ Settled /\ JobFiles /\ Down /\ Arriving /\ Gaps /\ Woken

-----------------------------------------------------------------------------
\* What steps leave alone.
SameFiles ==
  Imports' = Imports /\ \A k \in Imports : Batch(k)' = Batch(k) /\ Of(k)' = Of(k)
SameStatus == \A k \in Imports : Status(k)' = Status(k)
SameStore == db'.coverage = db.coverage /\ db'.saved = db.saved /\ db'.snapshot = db.snapshot

LEMMA UnchangedDb ==
  ASSUME db' = db
  PROVE  SameFiles /\ SameStatus /\ SameStore /\ db'.done = db.done
BY DEF SameFiles, SameStatus, SameStore, Imports, Batch, Of, Status

\* The check of the store looks at coverage, reports and snapshot only.
LEMMA StoreAsChecked ==
  ASSUME SameStore
  PROVE  readBusinessState(db') = readBusinessState(db)
BY DEF SameStore, readBusinessState

LEMMA ReadyUsable ==
  ASSUME Ready
  PROVE  Usable
BY DEF Ready, Usable, readBusinessState, validateReport

LEMMA RulesAsBefore ==
  ASSUME SameStore, SameFiles
  PROVE  \A k \in Imports : Existing(Of(k))' = Existing(Of(k)) /\ Decision(Of(k))' = Decision(Of(k))
BY DEF SameStore, SameFiles, Existing, Decision

\* One import gets another status, whatever becomes of the rest of the store.
LEMMA ImportEffect ==
  ASSUME IInv, NEW i \in Imports, NEW status \in Statuses, NEW d,
         d = [coverage |-> d.coverage, snapshot |-> d.snapshot, saved |-> d.saved,
              imports |-> d.imports, kept |-> d.kept, processed |-> d.processed,
              done |-> d.done],
         d.imports = db.imports, db' = SetStatus(d, i, status)
  PROVE  /\ SameFiles
         /\ \A k \in Imports : Status(k)' = IF k = i THEN status ELSE Status(k)
         /\ db'.coverage = d.coverage /\ db'.saved = d.saved /\ db'.snapshot = d.snapshot
         /\ db'.done = d.done
<1>1. d.imports \in Seq(Import) /\ i \in DOMAIN d.imports
  BY DEF IInv, Shape, Imports
<1>2. LET e == SetStatus(d, i, status) IN
      /\ e = [coverage |-> d.coverage, snapshot |-> d.snapshot, saved |-> d.saved,
              imports |-> e.imports, kept |-> d.kept, processed |-> d.processed,
              done |-> d.done]
      /\ e.imports \in Seq(Import) /\ DOMAIN e.imports = DOMAIN d.imports
      /\ \A k \in DOMAIN d.imports :
           /\ e.imports[k].report = d.imports[k].report
           /\ e.imports[k].batch = d.imports[k].batch
           /\ e.imports[k].status = IF k = i THEN status ELSE d.imports[k].status
  BY <1>1, SetStatusEffect
<1>3. /\ db' = [coverage |-> d.coverage, snapshot |-> d.snapshot, saved |-> d.saved,
                imports |-> db'.imports, kept |-> d.kept, processed |-> d.processed,
                done |-> d.done]
      /\ DOMAIN db'.imports = DOMAIN db.imports
      /\ \A k \in DOMAIN db.imports :
           /\ db'.imports[k].report = db.imports[k].report
           /\ db'.imports[k].batch = db.imports[k].batch
           /\ db'.imports[k].status = IF k = i THEN status ELSE db.imports[k].status
  BY <1>2
<1>4. SameFiles /\ \A k \in Imports : Status(k)' = IF k = i THEN status ELSE Status(k)
  BY <1>3 DEF SameFiles, Imports, Batch, Of, Status
<1>5. QED
  BY <1>3, <1>4

-----------------------------------------------------------------------------
\* Steps that leave the records alone, and the queue and the job as well unless
\* the process ends or the worker has failed.
LEMMA QuietWake ==
  ASSUME WakeInv, IInv', db' = db, inits' = inits, file' = file \/ file # "ready",
         \A k \in active' : k \in active \/ (k \in Imports /\ Status(k) = "uploading"),
         \/ ~up' /\ reportQueue' = <<>> /\ active' = {} /\ job' = NoJob
         \/ up' /\ workerError' /\ reportQueue' = reportQueue /\ job' \in {job, NoJob}
         \/ up' = up /\ reportQueue' = reportQueue /\ job' = job /\ workerError' = workerError
            /\ (up \/ active' = active)
  PROVE  WakeInv'
<1> USE DEF WakeInv
<1>1. SameFiles /\ SameStatus /\ SameStore /\ db'.done = db.done
  BY UnchangedDb
<1>2. Stored'
  BY <1>1, StoreAsChecked DEF Stored, Usable, SameFiles
<1>3. NoJob.at \notin Working
  BY DEF NoJob, Working
<1>4. reportQueue' \in {reportQueue, <<>>} /\ Waiting' \subseteq Waiting /\ job' \in {job, NoJob}
  BY DEF Waiting
<1>5. Numbered'
  <2>1. Numbered /\ Imports' = Imports /\ db'.done = db.done
    BY <1>1 DEF SameFiles
  <2>2. reportQueue' \in Seq(Nat)
    <3>1. reportQueue \in Seq(Nat) /\ (reportQueue' = reportQueue \/ reportQueue' = <<>>)
      BY <1>4, <2>1 DEF Numbered
    <3>2. <<>> \in Seq(Nat)
      OBVIOUS
    <3>3. QED
      BY <3>1, <3>2
  <2>3. \A i \in Imports' : Batch(i)' \in Imports'
    BY <1>1, <2>1 DEF Numbered, SameFiles
  <2>4. Waiting' \subseteq Imports' /\ db'.done \subseteq Imports'
    BY <1>4, <2>1 DEF Numbered
  <2>5. job'.at \in Working => job'.batch \in Imports'
    BY <1>3, <1>4, <2>1 DEF Numbered
  <2>6. QED
    BY <2>2, <2>3, <2>4, <2>5 DEF Numbered
<1>6. Settled' /\ JobFiles'
  <2>1. \A b : InWork(b)' => InWork(b)
    BY <1>3, <1>4 DEF InWork
  <2>2. Settled'
    BY <1>1, <2>1 DEF Settled, SameFiles, SameStatus
  <2>3. JobFiles'
    <3>1. CASE job' = job
      <4>1. ASSUME job.at \in Working PROVE job.todo \union job.inputs \subseteq Imports
        BY <4>1 DEF IInv, Apart
      <4>2. QED
        BY <1>1, <3>1, <4>1 DEF JobFiles, SameFiles
    <3>2. CASE job' = NoJob
      BY <1>3, <3>2 DEF JobFiles
    <3>3. QED
      BY <1>4, <3>1, <3>2
  <2>4. QED
    BY <2>2, <2>3
<1>7. Down'
  BY DEF Down
<1>8. Arriving'
  <2>1. active \subseteq Imports
    BY DEF IInv, Apart
  <2>2. QED
    BY <1>1, <2>1 DEF Arriving, SameStatus
<1>9. Gaps' /\ Woken'
  <2>1. CASE ~up' /\ reportQueue' = <<>> /\ job' = NoJob
    <3>1. Waiting' = {} /\ \A b : ~InWork(b)'
      BY <1>3, <2>1 DEF Waiting, InWork
    <3>2. QED
      BY <2>1, <3>1 DEF Gaps, Woken
  <2>2. CASE workerError'
    BY <2>2 DEF Gaps, Woken, Undisturbed
  <2>3. CASE up' = up /\ reportQueue' = reportQueue /\ job' = job /\ workerError' = workerError
    <3>1. \A k : (k \in Imports)' = (k \in Imports)
      BY <1>1 DEF SameFiles
    <3>2. Undisturbed' = Undisturbed /\ Waiting' = Waiting /\ \A b : InWork(b)' = InWork(b)
      BY <2>3 DEF Undisturbed, Waiting, InWork
    <3>3. \A b : OnlyGapsLeft(b) => OnlyGapsLeft(b)'
      BY <2>3 DEF OnlyGapsLeft, Existing, Decision, Of, Batch, Status, Imports
    <3>4. \A k \in Imports : Expected(k) => Expected(k)'
      BY <1>1, <2>3, <3>2 DEF Expected, SameFiles, SameStatus
    <3>5. Gaps'
      BY <1>1, <3>2, <3>3 DEF Gaps, SameFiles, SameStatus
    <3>6. Woken'
      BY <1>1, <2>3, <3>2, <3>4 DEF Woken, SameFiles, SameStatus
    <3>7. QED
      BY <3>5, <3>6
  <2>4. QED
    BY <2>1, <2>2, <2>3
<1>10. QED
  BY <1>2, <1>5, <1>6, <1>7, <1>8, <1>9

\* Recovery: nothing is received or arriving any more.
LEMMA RecoverWake ==
  ASSUME WakeInv, IInv', recover, UNCHANGED process, up', inits' \in Nat,
         file' = "ready", inits' # 0 \/ (inits' = inits /\ (Imports = {} \/ ~up))
  PROVE  WakeInv'
<1> USE DEF WakeInv, process
<1> DEFINE new == [i \in Imports |->
           [db.imports[i] EXCEPT !.status = IF Status(i) \in {"uploading", "received"}
                                            THEN "interrupted" ELSE Status(i)]]
<1>1. db' = [db EXCEPT !.imports = new]
  BY DEF recover
<1>2. \A i \in Imports : db.imports[i] \in Import
  BY DEF IInv, Shape, Imports
<1>3. \A i \in Imports :
        /\ new[i].batch = Batch(i) /\ new[i].report = Of(i)
        /\ new[i].status = IF Status(i) \in {"uploading", "received"} THEN "interrupted" ELSE Status(i)
  BY <1>2 DEF Import, Of, Batch
<1>4. db'.imports = new /\ db'.coverage = db.coverage /\ db'.saved = db.saved
      /\ db'.snapshot = db.snapshot /\ db'.done = db.done
  <2> HIDE DEF new
  <2>1. QED
    BY <1>1 DEF IInv, Shape
<1>5. DOMAIN new = Imports
  OBVIOUS
<1> HIDE DEF new
<1>6. SameFiles /\ SameStore
      /\ \A k \in Imports : Status(k)' = IF Status(k) \in {"uploading", "received"}
                                           THEN "interrupted" ELSE Status(k)
  BY <1>3, <1>4, <1>5 DEF SameFiles, SameStore, Imports, Batch, Of, Status
<1>7. \A k \in Imports' : k \in Imports /\ Status(k)' \notin {"uploading", "received"}
                            /\ (Status(k)' = "gap" => Status(k) = "gap") /\ Batch(k)' = Batch(k)
  BY <1>6 DEF SameFiles
<1>8. Stored'
  BY <1>6, StoreAsChecked DEF Stored, Usable, SameFiles
<1>9. Numbered'
  BY <1>4, <1>6 DEF Numbered, SameFiles, Waiting
<1>10. Settled' /\ Woken'
  BY <1>7 DEF Settled, Woken
<1>11. JobFiles'
  <2>1. ASSUME job.at \in Working PROVE job.todo \union job.inputs \subseteq Imports
    BY <2>1 DEF IInv, Apart
  <2>2. QED
    BY <1>4, <1>6, <2>1 DEF JobFiles, SameFiles
<1>12. Down'
  BY DEF Down
<1>13. Arriving'
  <2>1. Imports = {} => active = {}
    BY DEF IInv, Apart
  <2>2. QED
    BY <2>1 DEF Arriving, Down
<1>14. Gaps'
  <2>1. CASE inits' # 0
    BY <2>1 DEF Gaps, Undisturbed
  <2>2. CASE Imports = {}
    BY <1>7, <2>2 DEF Gaps
  <2>3. CASE ~up
    <3>1. Waiting' = {} /\ \A b : ~InWork(b)'
      BY <2>3 DEF Down, Waiting, InWork, NoJob, Working
    <3>2. QED
      BY <3>1 DEF Gaps
  <2>4. QED
    BY <2>1, <2>2, <2>3
<1>15. QED
  BY <1>8, <1>9, <1>10, <1>11, <1>12, <1>13, <1>14

\* New files get a batch of their own, and wait for their upload.
LEMMA CreateBatchWake ==
  ASSUME WakeInv, IInv', createBatch
  PROVE  WakeInv'
<1> USE DEF WakeInv
<1> DEFINE n == Len(db.imports) + 1
<1>1. PICK chosen \in Choices :
        db' = [db EXCEPT !.imports = @ \o [k \in DOMAIN chosen |->
                [batch |-> n, report |-> chosen[k], status |-> "uploading"]]]
  BY DEF createBatch
<1>2. /\ up /\ up' /\ file' = file /\ Usable /\ job.at \in {"none", "reading", "tidying"}
      /\ UNCHANGED <<active, reportQueue, job, workerError, inits>>
  BY ReadyUsable DEF createBatch, Ready, Serving, process, bounds
<1> DEFINE more == [k \in DOMAIN chosen |->
                [batch |-> n, report |-> chosen[k], status |-> "uploading"]]
           new == db.imports \o more
<1>3. chosen \in Seq(Reports) /\ db.imports \in Seq(Import) /\ Len(db.imports) \in Nat
  BY ChoicesAssumption DEF IInv, Shape
<1>4. more \in Seq(Import)
  <2>1. DOMAIN chosen = 1 .. Len(chosen) /\ Len(chosen) \in Nat
    BY <1>3
  <2>2. \A k \in DOMAIN chosen : chosen[k] \in Reports
    BY <1>3
  <2>3. more \in [1 .. Len(chosen) -> Import]
    BY <1>3, <2>1, <2>2 DEF Import, Statuses
  <2>4. QED
    BY <2>1, <2>3
<1>5. /\ new \in Seq(Import) /\ Len(new) = Len(db.imports) + Len(more) /\ Len(more) \in Nat
      /\ \A k \in 1 .. Len(new) : new[k] = IF k <= Len(db.imports) THEN db.imports[k]
                                          ELSE more[k - Len(db.imports)]
  BY <1>3, <1>4, ConcatProperties
<1>6. /\ Imports = 1 .. Len(db.imports) /\ DOMAIN new = 1 .. Len(new)
      /\ \A k \in Imports : new[k] = db.imports[k]
      /\ \A k \in DOMAIN new : k \notin Imports =>
           new[k].batch = n /\ new[k].status = "uploading" /\ n \in DOMAIN new
      /\ Imports \subseteq DOMAIN new /\ n \notin Imports
  <2>1. Imports = 1 .. Len(db.imports) /\ DOMAIN new = 1 .. Len(new) /\ DOMAIN more = 1 .. Len(more)
    BY <1>3, <1>4, <1>5 DEF Imports
  <2>2. \A k \in DOMAIN more : more[k].batch = n /\ more[k].status = "uploading"
    OBVIOUS
  <2>3. \A k \in DOMAIN new : k \notin Imports => k - Len(db.imports) \in DOMAIN more /\ Len(more) > 0
    BY <1>3, <1>5, <2>1
  <2>4. Len(more) > 0 => n \in DOMAIN new
    BY <1>3, <1>5, <2>1
  <2>5. \A k \in DOMAIN new : k \notin Imports => new[k] = more[k - Len(db.imports)]
    BY <1>3, <1>5, <2>1
  <2>6. \A k \in Imports : new[k] = db.imports[k]
    BY <1>3, <1>5, <2>1
  <2>7. Imports \subseteq DOMAIN new /\ n \notin Imports
    BY <1>3, <1>5, <2>1
  <2> HIDE DEF more, new
  <2>8. QED
    BY <2>1, <2>2, <2>3, <2>4, <2>5, <2>6, <2>7
<1> HIDE DEF more, n
<1>7. db'.imports = new /\ SameStore /\ db'.done = db.done
  BY <1>1 DEF IInv, Shape, SameStore, more, n
<1> HIDE DEF new
<1>8. /\ Imports \subseteq Imports' /\ n \notin Imports
      /\ \A k \in Imports : Batch(k)' = Batch(k) /\ Of(k)' = Of(k) /\ Status(k)' = Status(k)
      /\ \A k \in Imports' : k \notin Imports =>
           Batch(k)' = n /\ Status(k)' = "uploading" /\ n \in Imports'
  BY <1>6, <1>7 DEF Imports, Batch, Of, Status
<1>9. \A k \in Imports : Batch(k) # n
  BY <1>8 DEF Numbered
<1>10. Stored'
  BY <1>2, <1>7, StoreAsChecked DEF Stored, Usable
<1>11. Numbered'
  BY <1>2, <1>7, <1>8 DEF Numbered, Waiting
<1>12. \A b : InWork(b)' = InWork(b)
  BY <1>2 DEF InWork
<1>13. ~InWork(n) /\ n \notin db.done
  BY <1>8 DEF Numbered, InWork
<1>14. Settled'
  <2>1. ASSUME NEW i \in Imports', Status(i)' = "uploading", i \in Imports
        PROVE  /\ (Batch(i) \notin db.done /\ ~InWork(Batch(i)))'
               /\ \A k \in Imports' : Batch(k)' = Batch(i)' => Status(k)' # "gap"
    BY <1>7, <1>8, <1>9, <1>12, <2>1 DEF Settled
  <2>2. ASSUME NEW i \in Imports', i \notin Imports
        PROVE  /\ (Batch(i) \notin db.done /\ ~InWork(Batch(i)))'
               /\ \A k \in Imports' : Batch(k)' = Batch(i)' => Status(k)' # "gap"
    BY <1>7, <1>8, <1>9, <1>12, <1>13, <2>2
  <2>3. QED
    BY <2>1, <2>2 DEF Settled, InWork
<1>15. JobFiles'
  <2>1. ASSUME job.at \in Working PROVE job.todo \union job.inputs \subseteq Imports
    BY <2>1 DEF IInv, Apart
  <2>2. QED
    BY <1>2, <1>7, <1>8, <2>1 DEF JobFiles
<1>16. Down'
  BY <1>2 DEF Down
<1>17. Arriving'
  BY <1>2, <1>8 DEF Arriving, IInv, Apart
<1>18. Gaps'
  <2>1. \A b : ~OnlyGapsLeft(b)
    BY <1>2 DEF OnlyGapsLeft
  <2>2. Waiting' = Waiting /\ Undisturbed' = Undisturbed
    BY <1>2 DEF Waiting, Undisturbed
  <2>3. \A i \in Imports' : Status(i)' = "gap" => i \in Imports /\ Batch(i)' = Batch(i) /\ Status(i) = "gap"
    BY <1>8
  <2>4. QED
    BY <1>7, <1>12, <2>1, <2>2, <2>3 DEF Gaps, InWork
<1>19. Woken'
  <2>1. Waiting' = Waiting /\ Undisturbed' = Undisturbed
    BY <1>2 DEF Waiting, Undisturbed
  <2>2. \A i \in Imports : Expected(i) => Expected(i)'
    BY <1>2, <1>8, <2>1 DEF Expected, InWork
  <2>3. \A i \in Imports' : Status(i)' = "received" => i \in Imports /\ Status(i) = "received"
    BY <1>8
  <2>4. QED
    BY <1>2, <1>7, <1>8, <1>12, <2>1, <2>2, <2>3 DEF Woken
<1>20. QED
  BY <1>10, <1>11, <1>14, <1>15, <1>16, <1>17, <1>18, <1>19

\* The upload of a report ends; its batch is put into the queue.
LEMMA UploadEndsWake ==
  ASSUME WakeInv, IInv', NEW i \in Imports, NEW status \in {"received", "interrupted"},
         up, up', file' = file, job.at \in {"none", "reading", "tidying"},
         inits = 0 => Status(i) = "uploading",
         SameFiles, SameStore, db'.done = db.done,
         \A k \in Imports : Status(k)' = IF k = i THEN status ELSE Status(k),
         enqueueReport(i), active' = active \ {i}, job' = job,
         UNCHANGED <<workerError, inits>>
  PROVE  WakeInv'
<1> USE DEF WakeInv
<1>1. Imports' = Imports /\ (\A k \in Imports : Batch(k)' = Batch(k)) /\ Batch(i) \in Imports
  BY DEF SameFiles, Numbered
<1>2. reportQueue' \in Seq(Nat) /\ Waiting' = Waiting \union {Batch(i)}
  <2>1. reportQueue' = Append(reportQueue, Batch(i))
    BY DEF enqueueReport, Batch
  <2>2. reportQueue \in Seq(Nat) /\ Batch(i) \in Nat
    BY <1>1 DEF Numbered, IInv, Shape, Imports
  <2>3. /\ reportQueue' \in Seq(Nat) /\ Len(reportQueue') = Len(reportQueue) + 1
        /\ Len(reportQueue) \in Nat
        /\ \A k \in 1 .. Len(reportQueue) : reportQueue'[k] = reportQueue[k]
        /\ reportQueue'[Len(reportQueue) + 1] = Batch(i)
    BY <2>1, <2>2, AppendProperties
  <2>4. DOMAIN reportQueue = 1 .. Len(reportQueue)
        /\ DOMAIN reportQueue' = 1 .. (Len(reportQueue) + 1)
    BY <2>2, <2>3
  <2>5. Waiting' = {reportQueue'[k] : k \in 1 .. (Len(reportQueue) + 1)}
        /\ Waiting = {reportQueue[k] : k \in 1 .. Len(reportQueue)}
    BY <2>4 DEF Waiting
  <2>6. QED
    BY <2>3, <2>5
<1>3. \A b : InWork(b)' = InWork(b)
  BY DEF InWork
<1>4. Stored'
  BY <1>1, StoreAsChecked DEF Stored, Usable
<1>5. Numbered'
  BY <1>1, <1>2 DEF Numbered
<1>6. Settled'
  BY <1>1, <1>3 DEF Settled
<1>7. JobFiles'
  <2>1. ASSUME job.at \in Working PROVE job.todo \union job.inputs \subseteq Imports
    BY <2>1 DEF IInv, Apart
  <2>2. QED
    BY <1>1, <2>1 DEF JobFiles
<1>8. Down' /\ Arriving'
  BY DEF Down, Arriving, IInv, Apart
<1>9. Undisturbed => Batch(i) \notin db.done /\ \A k \in Imports : Batch(k) = Batch(i) => Status(k) # "gap"
  BY DEF Undisturbed, Settled
<1>10. Gaps'
  <2>1. \A b : ~OnlyGapsLeft(b)
    BY DEF OnlyGapsLeft
  <2>2. QED
    BY <1>1, <1>2, <1>3, <1>9, <2>1 DEF Gaps, Undisturbed
<1>11. Woken'
  <2>1. ASSUME NEW k \in Imports, Undisturbed, Status(k)' = "received"
        PROVE  /\ Batch(k) \notin db.done /\ Expected(k)'
               /\ InWork(Batch(k)) => k \in job.todo \union job.inputs
    <3>1. CASE k = i
      <4>1. ~InWork(Batch(i))
        BY <2>1 DEF Undisturbed, Settled
      <4>2. QED
        BY <1>1, <1>2, <1>9, <2>1, <3>1, <4>1 DEF Expected
    <3>2. CASE k # i
      <4>1. Batch(k) \notin db.done /\ Expected(k)
            /\ (InWork(Batch(k)) => k \in job.todo \union job.inputs)
        BY <2>1, <3>2 DEF Woken
      <4>2. QED
        BY <1>1, <1>2, <1>3, <4>1 DEF Expected
    <3>3. QED
      BY <3>1, <3>2
  <2>2. QED
    BY <1>1, <1>3, <2>1 DEF Woken, Undisturbed
<1>12. QED
  BY <1>4, <1>5, <1>6, <1>7, <1>8, <1>10, <1>11

\* A batch leaves the queue; when it is not idle the worker takes it whole.
LEMMA NextJobWake ==
  ASSUME WakeInv, IInv', NextJob
  PROVE  WakeInv'
<1> USE DEF WakeInv
<1> DEFINE b == Head(reportQueue)
           received == {i \in BatchFiles(b) : Status(i) = "received"}
           taken == [at |-> IF received = {} THEN "applying" ELSE "reading",
                     batch |-> b, todo |-> received, inputs |-> {}]
<1>1. /\ up /\ up' /\ file' = file /\ db' = db /\ job.at = "none"
      /\ reportQueue # <<>> /\ reportQueue' = Tail(reportQueue)
      /\ UNCHANGED <<active, workerError, inits>>
      /\ job' = IF Idle(b) THEN NoJob ELSE taken
  BY DEF NextJob, Ready, Serving, bounds
<1>2. SameFiles /\ SameStatus /\ SameStore /\ db'.done = db.done
  BY <1>1, UnchangedDb
<1>3. reportQueue' \in Seq(Nat) /\ b \in Waiting /\ Waiting' \subseteq Waiting
      /\ Waiting \subseteq Waiting' \union {b}
  <2>1. reportQueue \in Seq(Nat)
    BY DEF Numbered
  <2>2. /\ reportQueue' \in Seq(Nat) /\ Len(reportQueue) \in Nat /\ Len(reportQueue) > 0
        /\ Len(reportQueue') = Len(reportQueue) - 1
        /\ \A k \in 1 .. Len(reportQueue') : reportQueue'[k] = reportQueue[k + 1]
    BY <1>1, <2>1, HeadTailProperties, EmptySeq
  <2>3. DOMAIN reportQueue = 1 .. Len(reportQueue)
        /\ DOMAIN reportQueue' = 1 .. (Len(reportQueue) - 1)
    BY <2>1, <2>2
  <2>4. b = reportQueue[1] /\ 1 \in 1 .. Len(reportQueue)
    BY <2>1, <2>2
  <2>5. Waiting' = {reportQueue'[k] : k \in 1 .. (Len(reportQueue) - 1)}
        /\ Waiting = {reportQueue[k] : k \in 1 .. Len(reportQueue)}
    BY <2>3 DEF Waiting
  <2>6. \A k \in 1 .. (Len(reportQueue) - 1) :
          reportQueue'[k] = reportQueue[k + 1] /\ k + 1 \in 1 .. Len(reportQueue)
    BY <2>2
  <2>7. \A k \in 1 .. Len(reportQueue) :
          k = 1 \/ (k - 1 \in 1 .. (Len(reportQueue) - 1) /\ reportQueue[k] = reportQueue'[k - 1])
    BY <2>2
  <2> HIDE DEF b
  <2>8. Waiting' \subseteq Waiting
    BY <2>5, <2>6
  <2>9. Waiting \subseteq Waiting' \union {b}
    BY <2>4, <2>5, <2>7
  <2>10. b \in Waiting
    BY <2>4, <2>5
  <2>11. QED
    BY <2>2, <2>8, <2>9, <2>10
<1>4. received \subseteq BatchFiles(b) /\ \A i \in Imports : (Batch(i) = b /\ Status(i) = "received") => i \in received
  BY DEF BatchFiles, Batch
<1>5. \A i \in received : Batch(i) = b /\ i \in Imports
  BY DEF BatchFiles, Batch
<1>6. Idle(b) <=> (b \in db.done \/ \E i \in Imports : Batch(i) = b /\ Status(i) = "uploading")
  BY DEF Idle, Batch
<1> HIDE DEF received, b
<1>7. \/ Idle(b) /\ job' = NoJob /\ job'.at \notin Working /\ \A x : ~InWork(x)'
      \/ /\ ~Idle(b) /\ job'.at \in {"applying", "reading"} /\ job'.batch = b
         /\ job'.todo = received /\ job'.inputs = {}
         /\ \A x : InWork(x)' <=> x = b
  <2>1. CASE Idle(b)
    <3>1. job' = NoJob
      BY <1>1, <2>1
    <3>2. job'.at \notin Working
      BY <3>1 DEF NoJob, Working
    <3>3. QED
      BY <2>1, <3>1, <3>2 DEF InWork
  <2>2. CASE ~Idle(b)
    <3>1. job' = taken
      BY <1>1, <2>2
    <3>2. job'.at \in {"applying", "reading"} /\ job'.batch = b /\ job'.todo = received /\ job'.inputs = {}
      BY <3>1
    <3>3. QED
      BY <2>2, <3>2 DEF InWork, Working
  <2>3. QED
    BY <2>1, <2>2
<1> HIDE DEF taken
<1>8. Stored'
  BY <1>1, <1>2, StoreAsChecked DEF Stored, Usable, SameFiles
<1>9. Numbered'
  <2>1. b \in Imports
    BY <1>3 DEF Numbered
  <2>2. job'.at \in Working => job'.batch \in Imports
    BY <1>7, <2>1
  <2>3. QED
    BY <1>2, <1>3, <2>2 DEF Numbered, SameFiles
<1>10. Settled'
  BY <1>2, <1>6, <1>7 DEF Settled, SameFiles, SameStatus
<1>11. JobFiles'
  BY <1>2, <1>5, <1>6, <1>7 DEF JobFiles, SameFiles
<1>12. Down' /\ Arriving'
  BY <1>1, <1>2 DEF Down, Arriving, SameStatus, IInv, Apart
<1>13. Gaps'
  <2>1. \A x : ~OnlyGapsLeft(x)
    BY <1>1 DEF OnlyGapsLeft
  <2>2. QED
    BY <1>1, <1>2, <1>3, <1>7, <2>1 DEF Gaps, Undisturbed, SameFiles, SameStatus
<1>14. Woken'
  <2>1. \A x : ~InWork(x)
    BY <1>1 DEF InWork, Working
  <2>2. ASSUME NEW i \in Imports, Undisturbed, Status(i) = "received"
        PROVE  Batch(i) \notin db.done /\ Expected(i)'
               /\ (InWork(Batch(i)) => i \in job.todo \union job.inputs)'
    <3>1. Batch(i) \notin db.done /\ Expected(i)
      BY <1>1, <2>2 DEF Woken
    <3>2. CASE \E k \in Imports : Batch(k) = Batch(i) /\ Status(k) = "uploading"
      <4>1. Expected(i)'
        BY <1>2, <3>2 DEF Expected, SameFiles, SameStatus
      <4>2. QED
        BY <1>2, <1>4, <1>7, <2>2, <3>1, <4>1 DEF SameFiles, SameStatus
    <3>3. CASE Batch(i) \in Waiting
      <4>1. CASE Batch(i) = b
        BY <1>2, <1>4, <1>6, <1>7, <2>2, <3>1, <3>2, <4>1 DEF Expected, SameFiles
      <4>2. CASE Batch(i) # b
        BY <1>2, <1>3, <1>7, <3>1, <3>3, <4>2 DEF Expected, SameFiles
      <4>3. QED
        BY <4>1, <4>2
    <3>4. QED
      BY <2>1, <3>1, <3>2, <3>3 DEF Expected
  <2>3. QED
    BY <1>1, <1>2, <2>2 DEF Woken, Undisturbed, SameFiles, SameStatus
<1>15. QED
  BY <1>8, <1>9, <1>10, <1>11, <1>12, <1>13, <1>14

\* A file is read or parsed: it stays in the job, or it has failed.
LEMMA FileMovedWake ==
  ASSUME WakeInv, IInv', job.at \in {"reading", "parsing"}, NEW i \in job.todo,
         NEW passed \in BOOLEAN, NEW next \in Working, job' = Moved(i, passed, next),
         db' = IF passed THEN db ELSE SetStatus(db, i, "failed"),
         UNCHANGED <<file, up, active, reportQueue, workerError, inits>>
  PROVE  WakeInv'
<1> USE DEF WakeInv
<1> DEFINE inputs == IF passed THEN job.inputs \union {i} ELSE job.inputs
<1>1. /\ job = [at |-> job.at, batch |-> job.batch, todo |-> job.todo, inputs |-> job.inputs]
      /\ job.at \in Working /\ job.todo \intersect job.inputs = {}
      /\ i \in Imports /\ Status(i) \in {"received", "interrupted"}
  BY DEF IInv, JobShape, Apart, NoJob, Working
<1>2. /\ job'.at \in Working /\ job'.batch = job.batch
      /\ job'.at = "applying" => job'.inputs = {}
      /\ job'.todo \union job'.inputs =
           IF passed THEN job.todo \union job.inputs ELSE (job.todo \union job.inputs) \ {i}
  <2>1. CASE job.todo = {i}
    <3>1. job' = [at |-> next, batch |-> job.batch, todo |-> inputs, inputs |-> {}]
      BY <1>1, <2>1 DEF Moved
    <3>2. QED
      BY <1>1, <2>1, <3>1
  <2>2. CASE job.todo # {i}
    <3>1. job' = [at |-> job.at, batch |-> job.batch, todo |-> job.todo \ {i}, inputs |-> inputs]
      BY <1>1, <2>2 DEF Moved
    <3>2. QED
      BY <1>1, <2>2, <3>1
  <2>3. QED
    BY <2>1, <2>2
<1>3. /\ SameFiles /\ SameStore /\ db'.done = db.done
      /\ \A k \in Imports : Status(k)' = IF k = i /\ ~passed THEN "failed" ELSE Status(k)
  <2>1. CASE passed
    BY <2>1, UnchangedDb DEF SameStatus
  <2>2. CASE ~passed
    <3>1. db' = SetStatus(db, i, "failed") /\ "failed" \in Statuses
      BY <2>2 DEF Statuses
    <3>2. db = [coverage |-> db.coverage, snapshot |-> db.snapshot, saved |-> db.saved,
              imports |-> db.imports, kept |-> db.kept, processed |-> db.processed,
              done |-> db.done]
      BY DEF IInv, Shape
    <3>3. SameFiles /\ (\A k \in Imports : Status(k)' = IF k = i THEN "failed" ELSE Status(k))
          /\ SameStore /\ db'.done = db.done
      BY <1>1, <3>1, <3>2, ImportEffect DEF SameStore
    <3>4. QED
      BY <2>2, <3>3
  <2>3. QED
    BY <2>1, <2>2
<1>4. \A b : InWork(b)' = InWork(b)
  BY <1>1, <1>2 DEF InWork
<1>5. Waiting' = Waiting
  BY DEF Waiting
<1>6. Stored'
  BY <1>3, StoreAsChecked DEF Stored, Usable, SameFiles
<1>7. Numbered'
  BY <1>1, <1>2, <1>3, <1>5 DEF Numbered, SameFiles
<1>8. Settled'
  BY <1>1, <1>3, <1>4 DEF Settled, SameFiles
<1>9. JobFiles'
  <2>1. job.todo \union job.inputs \subseteq Imports
    BY <1>1 DEF IInv, Apart
  <2>2. QED
    BY <1>1, <1>2, <1>3, <2>1 DEF JobFiles, SameFiles
<1>10. Down' /\ Arriving'
  <2>1. job # NoJob
    BY <1>1 DEF NoJob, Working
  <2>2. \A k \in active : k \in Imports
    BY DEF IInv, Apart
  <2>3. QED
    BY <1>1, <1>3, <2>1, <2>2 DEF Down, Arriving
<1>11. Gaps'
  <2>1. \A b : ~OnlyGapsLeft(b)
    BY DEF OnlyGapsLeft
  <2>2. QED
    BY <1>3, <1>4, <1>5, <2>1 DEF Gaps, Undisturbed, SameFiles
<1>12. Woken'
  <2>1. ASSUME NEW k \in Imports, Undisturbed, up, Status(k)' = "received"
        PROVE  /\ Batch(k) \notin db.done /\ Expected(k)'
               /\ InWork(Batch(k)) => k \in job'.todo \union job'.inputs
    <3>1. Status(k) = "received" /\ (k # i \/ passed)
      BY <1>3, <2>1
    <3>2. /\ Batch(k) \notin db.done /\ Expected(k)
          /\ InWork(Batch(k)) => k \in job.todo \union job.inputs
      BY <2>1, <3>1 DEF Woken
    <3>3. Expected(k)'
      BY <1>1, <1>3, <1>4, <1>5, <3>2 DEF Expected, SameFiles
    <3>4. QED
      BY <1>2, <3>1, <3>2, <3>3
  <2>2. QED
    BY <1>3, <1>4, <2>1 DEF Woken, Undisturbed, SameFiles
<1>13. QED
  BY <1>6, <1>7, <1>8, <1>9, <1>10, <1>11, <1>12

-----------------------------------------------------------------------------
\* A report is judged.  When it is put aside for a gap, all that is left is;
\* when it moves the coverage, nothing of its batch was put aside.
LEMMA JudgedWake ==
  ASSUME WakeInv, IInv', job.at = "applying", NEW i \in job.todo,
         NEW status \in Statuses \ {"uploading", "received"},
         SameFiles, db'.done = db.done, SchemaAdmits => readBusinessState(db'), Leaves(i),
         \A k \in Imports : Status(k)' = IF k = i THEN status ELSE Status(k),
         UNCHANGED <<file, up, active, reportQueue, workerError, inits>>,
         \/ SameStore /\ status # "gap"
         \/ SameStore /\ \A t \in job.todo : Existing(Of(t)) = {} /\ Decision(Of(t)) = "gap"
         \/ status # "gap" /\ Decision(Of(i)) # "gap"
  PROVE  WakeInv'
<1> USE DEF WakeInv
<1>1. /\ job = [at |-> job.at, batch |-> job.batch, todo |-> job.todo, inputs |-> job.inputs]
      /\ job.at \in Working /\ job.todo \union job.inputs \subseteq Imports
      /\ i \in Imports /\ Status(i) \in {"received", "interrupted"}
  BY DEF IInv, JobShape, Apart, NoJob, Working
<1>2. job'.at = "applying" /\ job'.batch = job.batch /\ job'.todo = job.todo \ {i}
      /\ job'.inputs = job.inputs
  <2>1. job' = [at |-> job.at, batch |-> job.batch, todo |-> job.todo \ {i}, inputs |-> job.inputs]
    BY <1>1 DEF Leaves
  <2>2. QED
    BY <2>1
<1>3. \A b : InWork(b)' = InWork(b)
  BY <1>2 DEF InWork, Working
<1>4. Waiting' = Waiting /\ Undisturbed' = Undisturbed
  BY DEF Waiting, Undisturbed
<1>5. Batch(i) = job.batch /\ InWork(job.batch) /\ job.batch \notin db.done
  BY <1>1 DEF JobFiles, InWork
<1>6. Stored'
  BY DEF Stored, Usable, SameFiles
<1>7. Numbered'
  BY <1>1, <1>2, <1>4 DEF Numbered, SameFiles, Working
<1>8. Settled'
  BY <1>1, <1>3, <1>5 DEF Settled, SameFiles
<1>9. JobFiles'
  BY <1>1, <1>2 DEF JobFiles, SameFiles
<1>10. Down' /\ Arriving'
  <2>1. job # NoJob
    BY <1>1 DEF NoJob, Working
  <2>2. \A k \in active : k \in Imports
    BY DEF IInv, Apart
  <2>3. QED
    BY <1>1, <2>1, <2>2 DEF Down, Arriving
<1>11. Woken'
  <2>1. ASSUME NEW k \in Imports, Undisturbed, up, Status(k)' = "received"
        PROVE  /\ Batch(k) \notin db.done /\ Expected(k)'
               /\ InWork(Batch(k)) => k \in job'.todo \union job'.inputs
    <3>1. Status(k) = "received" /\ k # i
      BY <2>1
    <3>2. /\ Batch(k) \notin db.done /\ Expected(k)
          /\ InWork(Batch(k)) => k \in job.todo \union job.inputs
      BY <2>1, <3>1 DEF Woken
    <3>3. Expected(k)'
      BY <1>1, <1>3, <1>4, <3>2 DEF Expected, SameFiles
    <3>4. QED
      BY <1>2, <3>1, <3>2, <3>3
  <2>2. QED
    BY <1>3, <1>4, <2>1 DEF Woken, SameFiles
<1>12. Gaps'
  <2>1. ASSUME NEW j \in Imports, Undisturbed, Status(j)' = "gap", Batch(j) \notin db.done
        PROVE  OnlyGapsLeft(Batch(j))' \/ (Batch(j) \notin Waiting /\ ~InWork(Batch(j)))
    <3>1. CASE Batch(j) # job.batch
      <4>1. Status(j) = "gap"
        BY <1>5, <2>1, <3>1
      <4>2. ~OnlyGapsLeft(Batch(j))
        BY <3>1 DEF OnlyGapsLeft
      <4>3. QED
        BY <2>1, <4>1, <4>2 DEF Gaps
    <3>2. ASSUME Batch(j) = job.batch, SameStore,
                 \A t \in job.todo : Existing(Of(t)) = {} /\ Decision(Of(t)) = "gap"
          PROVE  OnlyGapsLeft(Batch(j))'
      <4>1. \A k \in Imports : Existing(Of(k))' = Existing(Of(k)) /\ Decision(Of(k))' = Decision(Of(k))
        BY <3>2, RulesAsBefore
      <4>2. \A t \in job'.todo : Existing(Of(t))' = {} /\ Decision(Of(t))' = "gap"
        BY <1>1, <1>2, <3>2, <4>1
      <4>3. ASSUME NEW k \in Imports, Batch(k) = job.batch, Status(k)' = "gap"
            PROVE  Of(k).from > db.coverage
        <5>1. CASE k = i
          <6>1. Decision(Of(i)) = "gap"
            BY <3>2
          <6>2. db.imports[i] \in Import
            BY <1>1 DEF IInv, Shape, Imports
          <6>3. Of(i).from \in Nat /\ db.coverage \in Nat
            BY <6>2, ChoicesAssumption DEF IInv, Shape, Import, Of
          <6>4. QED
            BY <5>1, <6>1, <6>3 DEF Decision, reportDecision
        <5>2. CASE k # i
          <6>1. Status(k) = "gap"
            BY <4>3, <5>2
          <6>2. OnlyGapsLeft(job.batch)
            BY <1>5, <2>1, <4>3, <6>1 DEF Gaps
          <6>3. QED
            BY <4>3, <6>1, <6>2 DEF OnlyGapsLeft
        <5>3. QED
          BY <5>1, <5>2
      <4>4. \A k \in Imports' : (Batch(k)' = job.batch /\ Status(k)' = "gap") => Of(k)'.from > db'.coverage
        BY <3>2, <4>3 DEF SameFiles, SameStore
      <4>5. Batch(j)' = job.batch
        BY <3>2 DEF SameFiles
      <4>6. QED
        BY <1>2, <4>2, <4>4, <4>5 DEF OnlyGapsLeft
    <3>3. ASSUME Batch(j) = job.batch, status # "gap"
          PROVE  OnlyGapsLeft(job.batch)
      <4>1. Status(j) = "gap"
        BY <2>1, <3>3
      <4>2. QED
        BY <1>5, <2>1, <3>3, <4>1 DEF Gaps
    <3>4. CASE Batch(j) = job.batch
      <4>1. CASE SameStore /\ \A t \in job.todo : Existing(Of(t)) = {} /\ Decision(Of(t)) = "gap"
        BY <3>2, <3>4, <4>1
      <4>2. CASE SameStore /\ status # "gap"
        <5>1. OnlyGapsLeft(job.batch)
          BY <3>3, <3>4, <4>2
        <5>2. QED
          BY <3>2, <3>4, <4>2, <5>1 DEF OnlyGapsLeft
      <4>3. CASE status # "gap" /\ Decision(Of(i)) # "gap"
        <5>1. OnlyGapsLeft(job.batch)
          BY <3>3, <3>4, <4>3
        <5>2. QED
          BY <4>3, <5>1 DEF OnlyGapsLeft
      <4>4. QED
        BY <4>1, <4>2, <4>3
    <3>5. QED
      BY <3>1, <3>4
  <2>2. QED
    BY <1>3, <1>4, <2>1 DEF Gaps, SameFiles
<1>13. QED
  BY <1>6, <1>7, <1>8, <1>9, <1>10, <1>11, <1>12

LEMMA ApplyWake ==
  ASSUME WakeInv, IInv', applyReports
  PROVE  WakeInv'
<1>1. /\ up /\ job.at = "applying"
      /\ UNCHANGED <<file, up, active, parts, reportQueue, faults, crashes, inits>>
  BY DEF applyReports, bounds
<1>2. PICK i \in Picked : KnownReport(i) \/ RefusedReport(i) \/ GapReport(i) \/ AcceptedReport(i)
  BY DEF applyReports
<1>3. i \in job.todo
  BY <1>2 DEF Picked
<1>4. i \in Imports /\ IInv
  BY <1>1, <1>3 DEF WakeInv, IInv, Apart, Working
<1>5. db = [coverage |-> db.coverage, snapshot |-> db.snapshot, saved |-> db.saved,
            imports |-> db.imports, kept |-> db.kept, processed |-> db.processed,
            done |-> db.done]
  BY <1>4 DEF IInv, Shape
<1>6. ASSUME NEW status \in Statuses \ {"uploading", "received"},
             Judged(i, SetStatus(db, i, status)),
             \/ status # "gap"
             \/ \A t \in job.todo : Existing(Of(t)) = {} /\ Decision(Of(t)) = "gap"
      PROVE  WakeInv'
  <2>1. db' = SetStatus(db, i, status) /\ Leaves(i) /\ workerError' = workerError
    BY <1>6 DEF Judged, Leaves
  <2>2. SameFiles /\ SameStore /\ db'.done = db.done
        /\ \A k \in Imports : Status(k)' = IF k = i THEN status ELSE Status(k)
    BY <1>4, <1>5, <2>1, ImportEffect DEF SameStore
  <2>3. SchemaAdmits => readBusinessState(db')
    BY <2>2, StoreAsChecked DEF WakeInv, Stored
  <2>4. QED
    BY <1>1, <1>3, <1>6, <2>1, <2>2, <2>3, JudgedWake
<1>7. CASE KnownReport(i)
  <2>1. PICK s \in Existing(Of(i)) :
          Judged(i, SetStatus(db, i, IF s.bytes = Of(i).bytes THEN "duplicate" ELSE "conflict"))
    BY <1>7 DEF KnownReport
  <2>2. CASE s.bytes = Of(i).bytes
    BY <1>6, <2>1, <2>2 DEF Statuses
  <2>3. CASE s.bytes # Of(i).bytes
    BY <1>6, <2>1, <2>3 DEF Statuses
  <2>4. QED
    BY <2>2, <2>3
<1>8. CASE RefusedReport(i)
  BY <1>6, <1>8 DEF RefusedReport, Statuses
<1>9. CASE GapReport(i)
  <2>1. Existing(Of(i)) = {} /\ Decision(Of(i)) = "gap" /\ Judged(i, SetStatus(db, i, "gap"))
    BY <1>9 DEF GapReport
  <2>2. {t \in job.todo : NeedNotWait(t)} = {}
    <3>1. ~NeedNotWait(i)
      BY <2>1 DEF NeedNotWait
    <3>2. QED
      BY <1>2, <3>1 DEF Picked
  <2>3. \A t \in job.todo : Existing(Of(t)) = {} /\ Decision(Of(t)) = "gap"
    BY <2>2 DEF NeedNotWait
  <2>4. QED
    BY <1>6, <2>1, <2>3 DEF Statuses
<1>10. CASE AcceptedReport(i) /\ readBusinessState(Accept(i))
  <2>1. /\ db' = Accept(i) /\ Leaves(i) /\ workerError' = workerError
        /\ Decision(Of(i)) # "gap" /\ readBusinessState(db')
    BY <1>10 DEF AcceptedReport, Judged, Leaves
  <2>2. PICK status, d :
          /\ status \in {"accepted", "covered"}
          /\ d = [coverage |-> d.coverage, snapshot |-> d.snapshot, saved |-> d.saved,
                  imports |-> d.imports, kept |-> d.kept, processed |-> d.processed,
                  done |-> d.done]
          /\ d.imports = db.imports /\ d.done = db.done /\ db' = SetStatus(d, i, status)
    <3>1. PICK e : e = [db EXCEPT !.saved = db.saved \union {Row(Of(i))}]
      OBVIOUS
    <3>2. e = [coverage |-> db.coverage, snapshot |-> db.snapshot,
               saved |-> db.saved \union {Row(Of(i))}, imports |-> db.imports,
               kept |-> db.kept, processed |-> db.processed, done |-> db.done]
      BY <1>5, <3>1
    <3>3. CASE Decision(Of(i)) = "covered"
      <4>1. db' = SetStatus(e, i, "covered")
        BY <2>1, <3>1, <3>3 DEF Accept
      <4>2. QED
        BY <3>2, <4>1
    <3>4. CASE Decision(Of(i)) # "covered"
      <4>1. PICK f : f = [e EXCEPT !.snapshot = Merged(db.snapshot, Of(i)), !.coverage = Of(i).to]
        OBVIOUS
      <4>2. f = [coverage |-> Of(i).to, snapshot |-> Merged(db.snapshot, Of(i)),
                 saved |-> e.saved, imports |-> db.imports,
                 kept |-> db.kept, processed |-> db.processed, done |-> db.done]
        BY <3>2, <4>1
      <4>3. db' = SetStatus(f, i, "accepted")
        BY <2>1, <3>1, <3>4, <4>1 DEF Accept
      <4>4. QED
        BY <4>2, <4>3
    <3>5. QED
      BY <3>3, <3>4
  <2>3. status \in Statuses \ {"uploading", "received"} /\ status \in Statuses /\ status # "gap"
    BY <2>2 DEF Statuses
  <2>4. SameFiles /\ db'.done = db.done
        /\ \A k \in Imports : Status(k)' = IF k = i THEN status ELSE Status(k)
    BY <1>4, <2>2, <2>3, ImportEffect
  <2>5. QED
    BY <1>1, <1>3, <2>1, <2>3, <2>4, JudgedWake
<1>11. CASE AcceptedReport(i) /\ ~readBusinessState(Accept(i))
  <2>1. db' = db /\ job' = NoJob /\ workerError' = TRUE
    BY <1>11 DEF AcceptedReport
  <2>2. QED
    BY <1>1, <2>1, QuietWake
<1>12. QED
  BY <1>2, <1>7, <1>8, <1>9, <1>10, <1>11

\* The batch is done: nothing of it is received, arriving or put aside early.
LEMMA DoneWake ==
  ASSUME WakeInv, IInv', ReportsDone
  PROVE  WakeInv'
<1> USE DEF WakeInv
<1> DEFINE whole == BatchFiles(job.batch) \intersect db.kept
<1>1. /\ up /\ job.at = "applying" /\ job.todo = {}
      /\ db' = [db EXCEPT !.done = db.done \union {job.batch},
                          !.processed = db.processed \union Firsts(whole)]
      /\ job' = IF whole = {} THEN NoJob ELSE [job EXCEPT !.at = "tidying", !.todo = whole]
      /\ UNCHANGED <<file, up, active, parts, reportQueue, workerError, inits>>
  BY DEF ReportsDone, bounds
<1>2. SameFiles /\ SameStatus /\ SameStore /\ db'.done = db.done \union {job.batch}
  <2>1. /\ db'.imports = db.imports /\ db'.coverage = db.coverage /\ db'.saved = db.saved
        /\ db'.snapshot = db.snapshot /\ db'.done = db.done \union {job.batch}
    BY <1>1 DEF IInv, Shape
  <2>2. QED
    BY <2>1 DEF SameFiles, SameStatus, SameStore, Imports, Batch, Of, Status
<1> HIDE DEF whole
<1>3. job'.at \notin Working /\ (\A b : ~InWork(b)') /\ job # NoJob /\ InWork(job.batch)
  <2>1. job = [at |-> job.at, batch |-> job.batch, todo |-> job.todo, inputs |-> job.inputs]
        /\ job # NoJob
    BY <1>1 DEF IInv, JobShape, NoJob
  <2>2. job'.at \in {"none", "tidying"}
    <3>1. CASE whole = {}
      BY <1>1, <3>1 DEF NoJob
    <3>2. CASE whole # {}
      BY <1>1, <2>1, <3>2
    <3>3. QED
      BY <3>1, <3>2
  <2>3. job'.at \notin Working /\ \A b : ~InWork(b)'
    BY <2>2 DEF InWork, Working
  <2>4. QED
    BY <1>1, <2>1, <2>3 DEF InWork, Working
<1>4. job.inputs = {} /\ job.batch \in Imports
  BY <1>1 DEF JobFiles, Numbered, Working
<1>5. Waiting' = Waiting /\ Undisturbed' = Undisturbed
  BY <1>1 DEF Waiting, Undisturbed
<1>6. Stored'
  BY <1>1, <1>2, StoreAsChecked DEF Stored, Usable, SameFiles
<1>7. Numbered'
  BY <1>1, <1>2, <1>3, <1>4, <1>5 DEF Numbered, SameFiles
<1>8. Settled' /\ JobFiles'
  BY <1>2, <1>3 DEF Settled, JobFiles, SameFiles, SameStatus
<1>9. Down' /\ Arriving'
  BY <1>1, <1>2, <1>3 DEF Down, Arriving, SameStatus, IInv, Apart
<1>10. Gaps'
  <2>1. ASSUME NEW j \in Imports, Undisturbed, Status(j) = "gap", Batch(j) \notin db.done,
               Batch(j) # job.batch
        PROVE  Batch(j) \notin Waiting
    <3>1. ~OnlyGapsLeft(Batch(j))
      BY <2>1 DEF OnlyGapsLeft
    <3>2. QED
      BY <2>1, <3>1 DEF Gaps
  <2>2. QED
    BY <1>2, <1>3, <1>5, <2>1 DEF Gaps, SameFiles, SameStatus
<1>11. Woken'
  <2>1. ASSUME NEW j \in Imports, Undisturbed, Status(j) = "received"
        PROVE  Batch(j) \notin db.done /\ Batch(j) # job.batch /\ Expected(j)'
    <3>1. /\ Batch(j) \notin db.done /\ Expected(j)
          /\ InWork(Batch(j)) => j \in job.todo \union job.inputs
      BY <1>1, <2>1 DEF Woken
    <3>2. Batch(j) # job.batch
      BY <1>1, <1>3, <1>4, <3>1
    <3>3. ~InWork(Batch(j))
      BY <3>2 DEF InWork
    <3>4. QED
      BY <1>2, <1>5, <3>1, <3>2, <3>3 DEF Expected, SameFiles, SameStatus
  <2>2. QED
    BY <1>1, <1>2, <1>3, <1>5, <2>1 DEF Woken, SameFiles, SameStatus
<1>12. QED
  BY <1>6, <1>7, <1>8, <1>9, <1>10, <1>11

LEMMA TidyWake ==
  ASSUME WakeInv, IInv', removeTemporary
  PROVE  WakeInv'
<1> USE DEF WakeInv
<1>1. PICK i \in Firsts(job.todo) :
        /\ job' = IF job.todo = {i} THEN NoJob ELSE [job EXCEPT !.todo = job.todo \ {i}]
        /\ db' = [db EXCEPT !.processed = db.processed \union Firsts(job.todo \ {i})]
  BY DEF removeTemporary
<1>2. /\ up /\ up' /\ job.at = "tidying" /\ file = "ready"
      /\ UNCHANGED <<file, active, reportQueue, workerError, inits>>
  BY DEF removeTemporary, Ready, Serving, bounds
<1>3. SameFiles /\ SameStatus /\ SameStore /\ db'.done = db.done
  <2>1. /\ db'.imports = db.imports /\ db'.coverage = db.coverage /\ db'.saved = db.saved
        /\ db'.snapshot = db.snapshot /\ db'.done = db.done
    BY <1>1 DEF IInv, Shape
  <2>2. QED
    BY <2>1 DEF SameFiles, SameStatus, SameStore, Imports, Batch, Of, Status
<1>4. job'.at \notin Working /\ (\A b : ~InWork(b)') /\ (\A b : ~InWork(b))
  <2>1. job = [at |-> job.at, batch |-> job.batch, todo |-> job.todo, inputs |-> job.inputs]
    BY <1>2 DEF IInv, JobShape, NoJob
  <2>2. job'.at \in {"none", "tidying"}
    <3>1. CASE job.todo = {i}
      BY <1>1, <3>1 DEF NoJob
    <3>2. CASE job.todo # {i}
      BY <1>1, <1>2, <2>1, <3>2
    <3>3. QED
      BY <3>1, <3>2
  <2>3. QED
    BY <1>2, <2>2 DEF InWork, Working
<1>5. Waiting' = Waiting /\ Undisturbed' = Undisturbed
  BY <1>2 DEF Waiting, Undisturbed
<1>6. Stored'
  BY <1>2, <1>3, StoreAsChecked DEF Stored, Usable, SameFiles
<1>7. Numbered'
  BY <1>2, <1>3, <1>4, <1>5 DEF Numbered, SameFiles
<1>8. Settled' /\ JobFiles'
  BY <1>3, <1>4 DEF Settled, JobFiles, SameFiles, SameStatus
<1>9. Down' /\ Arriving'
  BY <1>2, <1>3 DEF Down, Arriving, SameStatus, IInv, Apart
<1>10. Gaps'
  <2>1. \A b : ~OnlyGapsLeft(b)
    BY <1>2 DEF OnlyGapsLeft
  <2>2. QED
    BY <1>3, <1>4, <1>5, <2>1 DEF Gaps, SameFiles, SameStatus
<1>11. Woken'
  <2>1. \A j \in Imports : Expected(j) => Expected(j)'
    BY <1>3, <1>4, <1>5 DEF Expected, SameFiles, SameStatus
  <2>2. QED
    BY <1>2, <1>3, <1>4, <1>5, <2>1 DEF Woken, SameFiles, SameStatus
<1>12. QED
  BY <1>6, <1>7, <1>8, <1>9, <1>10, <1>11

-----------------------------------------------------------------------------
LEMMA UploadReceivedWake ==
  ASSUME WakeInv, IInv', NEW i \in Imports, UploadReceived(i)
  PROVE  WakeInv'
<1>1. PICK kept : /\ kept = [db EXCEPT !.kept = db.kept \union {i}]
                  /\ db' = SetStatus(kept, i, "received")
  BY DEF UploadReceived
<1>2. /\ kept = [coverage |-> kept.coverage, snapshot |-> kept.snapshot, saved |-> kept.saved,
                 imports |-> kept.imports, kept |-> kept.kept, processed |-> kept.processed,
                 done |-> kept.done]
      /\ kept.imports = db.imports /\ kept.coverage = db.coverage /\ kept.saved = db.saved
      /\ kept.snapshot = db.snapshot /\ kept.done = db.done
  BY <1>1 DEF WakeInv, IInv, Shape
<1>3. IInv /\ "received" \in Statuses
  BY DEF WakeInv, Statuses
<1>4. SameFiles /\ SameStore /\ db'.done = db.done
      /\ \A k \in Imports : Status(k)' = IF k = i THEN "received" ELSE Status(k)
  BY <1>1, <1>2, <1>3, ImportEffect DEF SameStore
<1>5. /\ up /\ up' /\ file' = file /\ job.at \in {"none", "reading", "tidying"} /\ i \in active
      /\ enqueueReport(i) /\ active' = active \ {i} /\ job' = job
      /\ UNCHANGED <<workerError, inits>>
  BY DEF UploadReceived, Ready, Serving, bounds
<1>6. inits = 0 => Status(i) = "uploading"
  BY <1>5 DEF WakeInv, Arriving
<1>7. QED
  BY <1>4, <1>5, <1>6, UploadEndsWake

\* An upload that fails, before or after its first byte.
LEMMA InterruptWake ==
  ASSUME WakeInv, IInv', NEW i \in Imports, UploadBroken(i) \/ failUpload(i)
  PROVE  WakeInv'
<1>1. /\ up /\ up' /\ file' = file /\ job.at \in {"none", "reading", "tidying"}
      /\ enqueueReport(i) /\ active' = active \ {i} /\ job' = job
      /\ UNCHANGED <<workerError, inits>>
  BY DEF UploadBroken, failUpload, Ready, Serving, bounds
<1>2. i \notin db.kept /\ (inits = 0 => Status(i) = "uploading")
  BY DEF UploadBroken, failUpload, WakeInv, Arriving, IInv, Apart
<1>3. db' = SetStatus(db, i, "interrupted")
  BY <1>2 DEF UploadBroken, failUpload
<1>4. IInv /\ "interrupted" \in Statuses
      /\ db = [coverage |-> db.coverage, snapshot |-> db.snapshot, saved |-> db.saved,
               imports |-> db.imports, kept |-> db.kept, processed |-> db.processed,
               done |-> db.done]
  BY DEF WakeInv, IInv, Shape, Statuses
<1>5. SameFiles /\ SameStore /\ db'.done = db.done
      /\ \A k \in Imports : Status(k)' = IF k = i THEN "interrupted" ELSE Status(k)
  BY <1>3, <1>4, ImportEffect DEF SameStore
<1>6. QED
  BY <1>1, <1>2, <1>5, UploadEndsWake

\* A process that starts again finds a store it accepts, or none that holds a
\* file, and has neither a queue nor a job.
LEMMA StartWake ==
  ASSUME WakeInv, IInv', Start
  PROVE  WakeInv'
<1>1. /\ ~up /\ up' /\ UNCHANGED <<file, parts, process, bounds>>
      /\ inits \in Nat /\ inits' = inits
      /\ SchemaAdmits => readBusinessState(db)
      /\ ~Usable => Imports = {}
  BY DEF Start, bounds, WakeInv, Stored
<1> DEFINE found == file = "ready" /\ readBusinessState(db)
<1>2. CASE found
  BY <1>1, <1>2, RecoverWake DEF Start
<1>3. CASE ~found
  <2>1. db' = db /\ Imports = {} /\ reportQueue' = reportQueue /\ active' = active
        /\ job' = job /\ workerError' = workerError
    BY <1>1, <1>3 DEF Start, process, Usable
  <2>2. SameFiles /\ SameStore /\ SameStatus /\ db'.done = db.done
    BY <2>1, UnchangedDb
  <2>3. Imports' = {} /\ Waiting' = Waiting
    BY <2>1, <2>2 DEF SameFiles, Waiting
  <2>4. Stored'
    BY <1>1, <2>2, <2>3, StoreAsChecked DEF Stored, Usable
  <2>5. Numbered'
    BY <2>1, <2>2, <2>3 DEF WakeInv, Numbered, SameFiles
  <2>6. Settled' /\ Gaps' /\ Woken'
    BY <2>3 DEF Settled, Gaps, Woken
  <2>7. job = NoJob /\ active = {}
    BY <1>1 DEF WakeInv, Down
  <2>8. JobFiles' /\ Down' /\ Arriving'
    BY <1>1, <2>1, <2>7 DEF JobFiles, Down, Arriving, NoJob, Working
  <2>9. QED
    BY <2>4, <2>5, <2>6, <2>8 DEF WakeInv
<1>4. QED
  BY <1>2, <1>3

-----------------------------------------------------------------------------
\* The empty store is one the rules accept.
LEMMA EmptyAccepted == ownFacts(EmptySnapshot)
<1> DEFINE e == EmptySnapshot
<1>1. /\ e.from = 0 /\ e.to = 0 /\ e.plans = <<>> /\ e.actions = <<>>
      /\ e.outputs = <<>> /\ e.deliveries = <<>>
  BY DEF EmptySnapshot
<1>2. /\ DOMAIN e.plans = {} /\ DOMAIN e.actions = {} /\ DOMAIN e.outputs = {}
      /\ DOMAIN e.deliveries = {}
  BY <1>1
<1> HIDE DEF e
<1>3. Flows(e) = {}
  BY <1>2 DEF Flows
<1>4. indexReport(e)
  BY <1>2, <1>3 DEF indexReport
<1>5. associations(e, Flows(e))
  BY <1>2, <1>3 DEF associations, FlowLinks, OutputLinks, DeliveryLinks, FailureFacts, CancelLinks
<1>6. failureLinks(e, e.to, e, e.to)
  BY <1>2 DEF failureLinks
<1>7. ownFacts(e)
  BY <1>1, <1>2, <1>4, <1>5, <1>6 DEF ownFacts
<1>8. QED
  BY <1>7 DEF e

LEMMA InitWake == Init => WakeInv
<1> SUFFICES ASSUME Init PROVE WakeInv
  OBVIOUS
<1>1. /\ db = [coverage |-> 0, snapshot |-> EmptySnapshot, saved |-> {}, imports |-> <<>>,
               kept |-> {}, processed |-> {}, done |-> {}]
      /\ active = {} /\ job = NoJob /\ reportQueue = <<>> /\ inits = 0
  BY DEF Init
<1>2. Imports = {} /\ db.saved = {} /\ db.coverage = 0 /\ db.snapshot = EmptySnapshot /\ db.done = {}
  BY <1>1 DEF Imports
<1>3. Waiting = {} /\ job.at \notin Working
  BY <1>1 DEF Waiting, NoJob, Working
<1>4. SchemaAdmits => readBusinessState(db)
  <2>1. /\ EmptySnapshot.to = 0 /\ EmptySnapshot.from = 0
        /\ EmptySnapshot.plans = <<>> /\ EmptySnapshot.diags = <<>>
    BY DEF EmptySnapshot
  <2>2. QED
    BY <1>2, <2>1, EmptyAccepted DEF readBusinessState, validateReport
<1>5. Stored
  BY <1>1, <1>2, <1>4 DEF Stored
<1>6. Numbered
  <2>1. <<>> \in Seq(Nat)
    OBVIOUS
  <2>2. QED
    BY <1>1, <1>2, <1>3, <2>1 DEF Numbered
<1>7. Settled /\ JobFiles /\ Down /\ Arriving /\ Gaps /\ Woken
  BY <1>1, <1>2, <1>3 DEF Settled, JobFiles, Down, Arriving, Gaps, Woken
<1>8. QED
  BY <1>5, <1>6, <1>7, InitHolds DEF WakeInv

LEMMA WakeKept == WakeInv /\ [Next]_vars => WakeInv'
<1> SUFFICES ASSUME WakeInv, [Next]_vars PROVE WakeInv'
  OBVIOUS
<1>1. IInv /\ IInv'
  BY StepKeeps DEF WakeInv
<1>2. inits \in Nat /\ (~Usable => Imports = {}) /\ (~up => active = {})
  BY DEF WakeInv, Stored, Down
<1>3. CASE CreateFile
  BY <1>1, <1>3, QuietWake DEF CreateFile, Serving, process, bounds
<1>4. CASE CommitInitial
  BY <1>1, <1>2, <1>4, RecoverWake DEF CommitInitial, Usable, bounds
<1>5. CASE InitializeFails
  BY <1>1, <1>5, QuietWake DEF InitializeFails, process
<1>6. CASE InitializeAgain
  BY <1>1, <1>2, <1>6, RecoverWake DEF InitializeAgain, Ready, Serving
<1>7. CASE Crash
  <2>1. /\ db' = db /\ inits' = inits /\ ~up' /\ reportQueue' = <<>> /\ active' = {}
        /\ job' = NoJob /\ (file' = file \/ file # "ready")
    BY <1>7 DEF Crash
  <2>2. QED
    BY <1>1, <2>1, QuietWake
<1>8. CASE Start
  BY <1>1, <1>8, StartWake
<1>9. CASE createBatch
  BY <1>1, <1>9, CreateBatchWake
<1>10. CASE NextJob
  BY <1>1, <1>10, NextJobWake
<1>11. CASE ReadFile
  <2>1. job.at = "reading" /\ UNCHANGED <<file, up, active, reportQueue, workerError, inits>>
    BY <1>11 DEF ReadFile
  <2>2. PICK i \in job.todo :
          \/ db' = db /\ job' = Moved(i, TRUE, "parsing")
          \/ /\ db' = SetStatus(db, i, "failed")
             /\ job' = Moved(i, FALSE, IF job.inputs = {} THEN "applying" ELSE "parsing")
    BY <1>11 DEF ReadFile, Firsts
  <2>3. "parsing" \in Working /\ (IF job.inputs = {} THEN "applying" ELSE "parsing") \in Working
    BY DEF Working
  <2>4. QED
    BY <1>1, <2>1, <2>2, <2>3, FileMovedWake
<1>12. CASE parseReport
  <2>1. job.at = "parsing" /\ UNCHANGED <<file, up, active, reportQueue, workerError, inits>>
    BY <1>12 DEF parseReport, bounds
  <2>2. PICK i \in job.todo :
          LET good == Of(i).sound /\ validateReport(Of(i)) IN
          /\ db' = IF good THEN db ELSE SetStatus(db, i, "failed")
          /\ job' = Moved(i, good, "applying")
    BY <1>12 DEF parseReport, Firsts
  <2> DEFINE good == Of(i).sound /\ validateReport(Of(i))
  <2>3. "applying" \in Working
    BY DEF Working
  <2>4. CASE good
    <3>1. db' = db /\ job' = Moved(i, TRUE, "applying")
      BY <2>2, <2>4 DEF Moved
    <3>2. QED
      BY <1>1, <2>1, <2>3, <3>1, FileMovedWake
  <2>5. CASE ~good
    <3>1. db' = SetStatus(db, i, "failed") /\ job' = Moved(i, FALSE, "applying")
      BY <2>2, <2>5 DEF Moved
    <3>2. QED
      BY <1>1, <2>1, <2>3, <3>1, FileMovedWake
  <2>6. QED
    BY <2>4, <2>5
<1>13. CASE applyReports
  BY <1>1, <1>13, ApplyWake
<1>14. CASE ReportsDone
  BY <1>1, <1>14, DoneWake
<1>15. CASE removeTemporary
  BY <1>1, <1>15, TidyWake
<1>16. CASE JobFails
  BY <1>1, <1>16, QuietWake DEF JobFails
<1>17. ASSUME NEW i \in Imports,
              upload(i) \/ UploadReceived(i) \/ UploadBroken(i) \/ UploadUnrecorded(i) \/ failUpload(i)
       PROVE  WakeInv'
  <2>1. CASE upload(i)
    BY <1>1, <2>1, QuietWake DEF upload, Ready, Serving, bounds
  <2>2. CASE UploadReceived(i)
    BY <1>1, <2>2, UploadReceivedWake
  <2>3. CASE UploadBroken(i) \/ failUpload(i)
    BY <1>1, <2>3, InterruptWake
  <2>4. CASE UploadUnrecorded(i)
    BY <1>1, <2>4, QuietWake DEF UploadUnrecorded, Ready, Serving
  <2>5. QED
    BY <1>17, <2>1, <2>2, <2>3, <2>4
<1>18. CASE UNCHANGED vars
  BY <1>1, <1>18, QuietWake DEF vars
<1>19. QED
  BY <1>3, <1>4, <1>5, <1>6, <1>7, <1>8, <1>9, <1>10, <1>11, <1>12, <1>13, <1>14, <1>15,
     <1>16, <1>17, <1>18 DEF Next, Worker

-----------------------------------------------------------------------------
\* The queue, the running job and the statuses of the imports stay in step:
\* nothing received is forgotten and nothing of a batch is judged too early.
THEOREM WakeInvariant == Spec => []WakeInv
<1>1. QED
  BY InitWake, WakeKept, PTL DEF Spec

\* A report received in full is judged: when the worker has nothing to do, it
\* can only be waiting for another report of its batch that is still to arrive.
THEOREM NothingReceivedIsForgotten == Spec => []ReceivedIsJudged
<1>1. WakeInv => ReceivedIsJudged
  <2> SUFFICES ASSUME WakeInv, up, job = NoJob, reportQueue = <<>>, ~workerError, inits = 0,
                      NEW i \in Imports, Status(i) = "received"
               PROVE  \E k \in Imports : db.imports[k].batch = db.imports[i].batch /\ Status(k) = "uploading"
    BY DEF ReceivedIsJudged
  <2>1. Expected(i)
    BY DEF WakeInv, Woken, Undisturbed
  <2>2. Waiting = {} /\ ~InWork(Batch(i))
    BY DEF Waiting, InWork, NoJob, Working
  <2>3. QED
    BY <2>1, <2>2 DEF Expected, Batch
<1>2. QED
  BY <1>1, WakeInvariant, PTL

\* Only the end of its job makes a batch done.
LEMMA OnlyJobEnds ==
  ASSUME IInv, [Next]_vars, ~ReportsDone
  PROVE  db'.done = db.done
<1>1. db = [coverage |-> db.coverage, snapshot |-> db.snapshot, saved |-> db.saved,
            imports |-> db.imports, kept |-> db.kept, processed |-> db.processed,
            done |-> db.done]
  BY DEF IInv, Shape
<1>2. CASE UNCHANGED vars \/ CreateFile \/ InitializeFails \/ Crash \/ NextJob \/ JobFails
  BY <1>2 DEF vars, CreateFile, InitializeFails, Crash, NextJob, JobFails
<1>3. CASE CommitInitial \/ InitializeAgain \/ Start
  BY <1>1, <1>3 DEF CommitInitial, InitializeAgain, Start, recover
<1>4. CASE createBatch
  BY <1>1, <1>4 DEF createBatch
<1>5. CASE ReadFile \/ parseReport
  BY <1>1, <1>5 DEF ReadFile, parseReport, SetStatus
<1>6. CASE applyReports
  BY <1>1, <1>6 DEF applyReports, KnownReport, RefusedReport, GapReport, AcceptedReport,
                    Judged, Accept, SetStatus
<1>7. CASE removeTemporary
  BY <1>1, <1>7 DEF removeTemporary
<1>8. ASSUME NEW i \in Imports,
             upload(i) \/ UploadReceived(i) \/ UploadBroken(i) \/ UploadUnrecorded(i) \/ failUpload(i)
      PROVE  db'.done = db.done
  BY <1>1, <1>8 DEF upload, UploadReceived, UploadBroken, UploadUnrecorded, failUpload, SetStatus
<1>9. QED
  BY <1>2, <1>3, <1>4, <1>5, <1>6, <1>7, <1>8 DEF Next, Worker

\* Reports put aside for a gap are beyond the coverage their batch ends with:
\* no order of selection or arrival puts one aside that another of its batch
\* connects.
THEOREM GapsAreLeft == Spec => GapsRemain
<1>1. ASSUME WakeInv, [Next]_vars, inits = 0, ~workerError, NEW b \in db'.done \ db.done,
             NEW i \in Imports, db.imports[i].batch = b, Status(i) = "gap"
      PROVE  Of(i).from > db'.coverage
  <2>1. IInv /\ Undisturbed
    BY <1>1 DEF WakeInv, Undisturbed
  <2>2. CASE ReportsDone
    <3>1. db' = [db EXCEPT !.done = db.done \union {job.batch},
                           !.processed = db'.processed] /\ job.at = "applying"
      BY <2>1, <2>2 DEF ReportsDone, IInv, Shape
    <3>2. db'.done = db.done \union {job.batch} /\ db'.coverage = db.coverage
      BY <2>1, <3>1 DEF IInv, Shape
    <3>3. Batch(i) = job.batch /\ InWork(Batch(i)) /\ Batch(i) \notin db.done
      BY <1>1, <3>1, <3>2 DEF Batch, InWork, Working
    <3>4. OnlyGapsLeft(Batch(i))
      BY <1>1, <2>1, <3>3 DEF WakeInv, Gaps
    <3>5. QED
      BY <1>1, <3>2, <3>4 DEF OnlyGapsLeft
  <2>3. CASE ~ReportsDone
    BY <1>1, <2>1, <2>3, OnlyJobEnds
  <2>4. QED
    BY <2>2, <2>3
<1> DEFINE A == (inits = 0 /\ ~workerError) => \A b \in db'.done \ db.done : \A i \in Imports :
                  (db.imports[i].batch = b /\ Status(i) = "gap") => Of(i).from > db'.coverage
<1>2. WakeInv /\ [Next]_vars => [A]_vars
  BY <1>1
<1> HIDE DEF A
<1>3. Spec => [][A]_vars
  BY <1>2, WakeInvariant, PTL DEF Spec
<1>4. QED
  BY <1>3 DEF GapsRemain, A

-----------------------------------------------------------------------------
\* A report that passed the rules is one the store accepts with it.
LEMMA AcceptedIsStored ==
  ASSUME WakeInv, job.at = "applying", NEW i \in job.todo,
         ~Contradicts(Of(i)), Decision(Of(i)) # "gap"
  PROVE  readBusinessState(Accept(i))
<1> DEFINE r == Of(i)
           old == db.snapshot
           covered == Decision(r) = "covered"
           snapshot == IF covered THEN old ELSE Merged(old, r)
           coverage == IF covered THEN db.coverage ELSE r.to
           saved == db.saved \union {Row(r)}
<1>1. db = [coverage |-> db.coverage, snapshot |-> db.snapshot, saved |-> db.saved,
            imports |-> db.imports, kept |-> db.kept, processed |-> db.processed,
            done |-> db.done]
  BY DEF WakeInv, IInv, Shape
<1>2. /\ {"from", "to"} \subseteq DOMAIN r /\ r.from \in Nat /\ r.to \in Nat /\ db.coverage \in Nat
      /\ \A s \in db.saved : s.to \in Nat
  <2>1. i \in Imports
    BY DEF WakeInv, IInv, Apart, Working
  <2>2. db.imports[i] \in Import
    BY <2>1 DEF WakeInv, IInv, Shape, Imports
  <2>3. r \in Reports
    BY <2>2 DEF Import, Of
  <2>4. QED
    BY <2>3, ChoicesAssumption DEF WakeInv, IInv, Shape, Rows, Row
<1>0. SchemaAdmits
  BY DEF Contradicts, Mergeable, validateReportAgainstHistory, validateReport
<1>3. /\ ownFacts(old) /\ old.to = db.coverage /\ old.from = 0
      /\ \A s \in db.saved : s.from <= s.to /\ s.to <= db.coverage
      /\ db.saved = {} => db.coverage = 0
      /\ db.saved # {} => \E s \in db.saved : s.to = db.coverage
  BY <1>0 DEF WakeInv, Stored, readBusinessState, validateReport
<1>4. Mergeable(old, r) /\ reportDecision(old.to, r.from, r.to) = Decision(r)
  BY <1>3 DEF Contradicts, Decision
<1>5. r.from <= r.to
  BY <1>4 DEF Mergeable, validateReportAgainstHistory, validateReport, ownFacts
<1>6. IF covered THEN r.to <= db.coverage ELSE r.from <= db.coverage /\ db.coverage < r.to
  <2>1. reportDecision(db.coverage, r.from, r.to) = Decision(r) /\ Decision(r) # "gap"
    BY DEF Decision
  <2> HIDE DEF r
  <2>2. QED
    BY <1>2, <2>1, DecisionEffect
<1>7. Row(r).from = r.from /\ Row(r).to = r.to
  BY DEF Row
<1>8. ownFacts(snapshot) /\ snapshot.to = coverage /\ snapshot.from = 0
  <2>1. CASE covered
    BY <1>3, <2>1
  <2>2. CASE ~covered
    <3>1. Decision(r) \notin {"covered", "gap"}
      BY <2>2
    <3>2. ownFacts(Combined(old, r))
      BY <1>4, <3>1 DEF Mergeable
    <3>3. snapshot = Combined(old, r)
      BY <1>4, <2>2 DEF Merged
    <3>4. Together(r, old).to = r.to /\ {"from", "to"} \subseteq DOMAIN Together(r, old)
      <4> HIDE DEF r
      <4>1. QED
        BY <1>2 DEF Together
    <3>5. Combined(old, r).to = r.to /\ Combined(old, r).from = old.from
      <4> HIDE DEF r
      <4>1. QED
        BY <3>4 DEF Combined
    <3>6. QED
      BY <1>3, <2>2, <3>2, <3>3, <3>5
  <2>3. QED
    BY <2>1, <2>2
<1> HIDE DEF r, covered, snapshot, coverage, saved
<1>9. /\ Accept(i).snapshot = snapshot /\ Accept(i).coverage = coverage /\ Accept(i).saved = saved
  <2>1. PICK e : e = [db EXCEPT !.saved = saved]
    OBVIOUS
  <2>2. e = [coverage |-> db.coverage, snapshot |-> old, saved |-> saved,
             imports |-> db.imports, kept |-> db.kept, processed |-> db.processed,
             done |-> db.done]
    BY <1>1, <2>1
  <2>3. CASE covered
    <3>1. Accept(i) = SetStatus(e, i, "covered")
      BY <2>1, <2>3 DEF Accept, covered, saved, r
    <3>2. QED
      BY <2>2, <2>3, <3>1 DEF SetStatus, snapshot, coverage
  <2>4. CASE ~covered
    <3>1. PICK f : f = [e EXCEPT !.snapshot = Merged(old, r), !.coverage = r.to]
      OBVIOUS
    <3>2. Accept(i) = SetStatus(f, i, "accepted")
      BY <2>1, <2>4, <3>1 DEF Accept, covered, saved, r
    <3>3. f = [coverage |-> r.to, snapshot |-> Merged(old, r), saved |-> saved,
               imports |-> db.imports, kept |-> db.kept, processed |-> db.processed,
               done |-> db.done]
      BY <2>2, <3>1
    <3>4. QED
      BY <2>4, <3>2, <3>3 DEF SetStatus, snapshot, coverage
  <2>5. QED
    BY <2>3, <2>4
<1>10. /\ Row(r) \in saved /\ db.saved \subseteq saved
       /\ \A s \in saved : s = Row(r) \/ s \in db.saved
  BY DEF saved
<1>11. \A s \in saved : s.from <= s.to /\ s.to <= coverage
  BY <1>2, <1>3, <1>5, <1>6, <1>7, <1>10 DEF coverage
<1>12. \E s \in saved : s.to = coverage
  BY <1>2, <1>3, <1>6, <1>7, <1>10 DEF coverage
<1>13. QED
  BY <1>0, <1>8, <1>9, <1>10, <1>11, <1>12 DEF readBusinessState, validateReport

Blamed == faults \in Nat /\ OnlyDiskFails

\* The worker fails only when the disk does: a report that passed the rules is
\* never refused by the store's own check before the commit.
THEOREM OnlyTheDiskFails == Spec => []OnlyDiskFails
<1>1. Init => Blamed
  BY DEF Init, Blamed, OnlyDiskFails
<1>2. ASSUME WakeInv, Blamed, [Next]_vars PROVE Blamed'
  <2>1. faults \in Nat /\ (workerError => faults > 0)
    BY <1>2 DEF Blamed, OnlyDiskFails
  <2>2. /\ faults' \in {faults, faults + 1}
        /\ \/ ~workerError' \/ workerError' = workerError \/ faults' = faults + 1
    <3>1. CASE \/ UNCHANGED vars \/ CreateFile \/ CommitInitial \/ InitializeFails \/ InitializeAgain
               \/ Crash \/ Start \/ createBatch
      BY <3>1 DEF vars, process, bounds, CreateFile, CommitInitial, InitializeFails, InitializeAgain,
                  Crash, Start, createBatch
    <3>2. CASE NextJob \/ ReadFile \/ parseReport \/ ReportsDone \/ removeTemporary \/ JobFails
      BY <3>2 DEF bounds, NextJob, ReadFile, parseReport, ReportsDone, removeTemporary, JobFails
    <3>3. CASE applyReports
      <4>1. PICK i \in job.todo : KnownReport(i) \/ RefusedReport(i) \/ GapReport(i) \/ AcceptedReport(i)
        BY <3>3 DEF applyReports, Picked
      <4>2. job.at = "applying" /\ faults' = faults
        BY <3>3 DEF applyReports, bounds
      <4>3. CASE AcceptedReport(i)
        BY <1>2, <4>2, <4>3, AcceptedIsStored DEF AcceptedReport, Judged
      <4>4. CASE KnownReport(i) \/ RefusedReport(i) \/ GapReport(i)
        BY <4>2, <4>4 DEF KnownReport, RefusedReport, GapReport, Judged
      <4>5. QED
        BY <4>1, <4>3, <4>4
    <3>4. ASSUME NEW i \in Imports,
                 upload(i) \/ UploadReceived(i) \/ UploadBroken(i) \/ UploadUnrecorded(i) \/ failUpload(i)
          PROVE  /\ faults' \in {faults, faults + 1}
                 /\ \/ ~workerError' \/ workerError' = workerError \/ faults' = faults + 1
      BY <3>4 DEF bounds, upload, UploadReceived, UploadBroken, UploadUnrecorded, failUpload
    <3>5. QED
      BY <1>2, <3>1, <3>2, <3>3, <3>4 DEF Next, Worker
  <2>3. QED
    BY <2>1, <2>2 DEF Blamed, OnlyDiskFails
<1>3. Blamed => OnlyDiskFails
  BY DEF Blamed
<1>4. QED
  BY <1>1, <1>2, <1>3, WakeInvariant, PTL DEF Spec
=============================================================================
