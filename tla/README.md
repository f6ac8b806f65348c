# camctl: TLA+ specifications

This directory specifies parts of the camctl repository in TLA+: the C library
that a device's main program links to run `camctl` (`apps/host-demo`) and the
local client with which a user prepares plans and reads reports
(`apps/client`).  `apps/camctl` itself is a design without source.  Everything
here is translated from the source; where the source and a document disagree
the source is modelled and the disagreement is a property that TLC refutes.

Run a check with `tlc -config <cfg> <module>`, a proof with `tlapm <module>`.
`PROJECT.json` lists components, runs, the source lines of every definition,
the mutations each property is sensitive to, hazards, findings and theorems.

## Inventory

| Component | State it keeps | Operations | What is hard | Modules |
| --- | --- | --- | --- | --- |
| Host library: worker, scheduler, ring (`host.c`, `scheduler.c`, `input.c`) | ring of submissions; phase, due time and budget; two process slots; first plan | init, submit, the worker's pass: clock, collect, launch, poll | main-program threads against the worker, stale clock sample, failing spawn/waitpid/clock/poll, one budget for everything | `Host`, `HostPromise`, `HostRefinement`, `MCHost`, `HostProofs` |
| Host library: process slot (`process.c`, `result.c`) | pid, two pipes, buffer, exit | spawn, collect, parse | exit and output in any order, full pipes, inherited pipes, overflow | `HostChild`, `HostPartsProofs` |
| Host library: claim (`claim.c`, `claim_posix.c`) | a list of names, two open directories | claim | renames that fail or have an unknown result, directories replaced or closed while it works, incomplete listings | `HostClaim`, `HostPartsProofs` |
| Host library: logger (`log_queue.c`, `logger.c`) | bounded queue, drop counter, file, rotation | log, writer thread, abort | full queue, failing allocations and file operations while others log, rotation that stops half way | `HostLog`, `HostLogProofs` |
| Client web: draft session (`session.ts`, `followup.ts`, `App.tsx`, `api.ts`) | input, revision, version, pending write, export/deletion/append state, retained input | edit, save loop, export, delete, follow-up append, recover, refresh | lost and late answers, edits during saves, other tabs, replies overtaking each other | `DraftSession`, `DraftSessionProofs` |
| Client server: drafts (`application.ts`, `database.ts`) | drafts with revisions, exported requests | one transaction each: create, save, delete, export, append | repeated and late requests, plan rules across actions | `DraftSession`, `PlanEdit` |
| Client server: report import (`application.ts`, `files.ts`, `reports.ts`) | reports, merged snapshot, coverage, batches, upload set, queue | initialize, upload, process a batch, judge, merge, recover | order in a batch, repeated, overlapping and missing reports, crash between steps, a second initialization | `ReportMerge`, `ReportHistory`, `ReportImport`, `MCReportImport`, `ReportImportProofs`, `ReportHistoryProofs` |
| Client server: media import (`files.ts`, `lifecycle.ts`, `main.ts`) | uploads, complete files, current copies, verification | upload, process, verify, open, recover, stop | mappings and copies that change during an await, crash and restart, commits of unknown result, stop | `MediaImport`, `MediaImportProofs` |
| Client server: HTTP (`http.ts`, `range.ts`) | none | routing, byte ranges | - | no |
| Client web: pages and editors (`Editor.tsx`, `BuiltinFields.tsx`, `Fields.tsx`, `editing.ts`, `action-drafts.ts`, ...) | plan text, half-finished inputs, what was entered under other action types | every input of the plan editor | inputs kept under action indices while actions come, go and change type | `PlanEdit`, `PlanEditProofs` |
| Client shared: plan rules (`plan.ts`, `action-params.ts`, ...) | none | validation of a plan, sync basis | references between actions that are edited afterwards | `PlanEdit` |
| Host library: configuration, terminal demo (`config.c`, `demo.c`) | none | field checks, read-eval loop | - | no |
| Vendored code, schemas, examples, scripts | - | - | - | no |

The main program calls the library, the library starts `camctl run` and
`camctl submit` processes and reads their one-line answers; a user carries plan
files and reports between client and device by hand, so host and client never
interact directly.  In the client the page calls the server over HTTP on the
same machine; calls time out after 30 s and the server may still carry them
out.

### What makes each component correct

* Host: at most one process per command; the first plan given exactly once;
  submissions handed over in order, none lost or doubled; a requirement stays
  recorded until a run starts for it; retries within one budget; progress
  while the worker runs.
* Process slot: an answer is believed exactly when it is complete and the exit
  fits it; the slot outlives the process; no writer is blocked for ever.
* Draft: what is shown as saved is saved; no overwrite of a revision that was
  not seen; one export, of what was saved; an append happens once; input is
  never lost; operations end.
* Plan editor: nothing entered is lost or given to another action; every
  half-finished input can be corrected by itself; an exported plan's references
  mean what they say.
* Report import: the coverage is backed by kept reports; a judgement stays true
  after crashes and retries; a report is put aside for a gap only if the gap
  remains; a received report is judged.
* Report merge: the rules refuse no true report, the snapshot is the device's own
  state at the coverage, and what was decided stays decided.
* Media import: what is recorded of the current copy is true and its file is
  there, whatever crash or failing transaction came last; it is replaced only
  by the reported content; a client is given verified copies only; every
  received file and every waiting copy is decided, also after a restart; the
  store is closed when nothing is left that would use it.
* Logger: accepted messages are written in order, drops are counted and
  reported once, the files hold the end of the log without gaps, and nobody
  waits for a disk.
* Claim: the diagnoses are true of every file, an incomplete list moves nothing,
  one bad file does not keep back the others, what was moved is flushed.

## Modules and their relation to the code

### Host, HostPromise, HostRefinement, MCHost

`Host` has one action per step of `worker_main` that another thread, a process
or the clock can observe or disturb; `pc` is the position in the loop, `now`
and `call` are the locals that live across steps.  `Submit` is
`camctl_host_submit` under `inputs_mutex`.  `launch` is split where it matters:
`Take` (`host_schedule_take` and the choice of path and call id), then the
spawn itself (`Spawned`, `SpawnFailed`).  What a collected process answered is
chosen freely among the four results that `host_result_parse` can give;
`Exit` stands for "exited with its pipes drained", which `HostChild` models in
detail.  Paths are model values, logging is left out, and the wake-up pipe is
left out because the 50 ms poll makes it an optimisation.

`HostPromise` says what the caller is promised without ring, phases or process
table: a backlog, its front, a budget, a first plan.  `HostRefinement` gives
the refinement mapping and states `KeepsPromise`.

### HostChild

One process slot.  A process writes an answer in pieces, exits or is killed at
any point and may leave a helper that inherited its pipes and stays silent or
keeps writing.  The worker's pass is `waitpid`, a quota of reads of stdout, a
quota of reads of stderr, the check whether the call is done.  A read that is
interrupted by a signal only ends the pass early, like the quota, and has no
step of its own.

### HostLog

`log_queue.c` is four variables and the operators `Appended`, `Recovered`,
`Popped` and `Disabled` on the record of the four; every operation holds the
mutex, so `Log` is one action.  The writer's `pc` follows `logger_main`,
`write_record` and `rotate`: it takes a record under the mutex, opens the file
when it has none, rotates name by name, writes, and on the first error disables
the queue.  Allocations fail up to `MaxFaults` times, any file operation may
fail at any time.  `signalled` is the condition variable, with spurious
wake-ups.  `out` is a history variable: the log as it would be without
rotation.  A record keeps its number and length; a file found at the start has
any size.  Left out: the text of a record, the clock in it and the permissions
of the file.

### HostClaim

One call of `camctl_host_claim` after another, under `claim_mutex`.  `at` is the
position in `claim_files`; each system call is a step that succeeds, fails for a
reason in the directories, or fails for no reason known here (`Fault`).
`readdir` must return a name that was there throughout and may return one that
came or went meanwhile (`must`, `may`).  A rename that ends in `EIO` or `EINTR`
has been carried out or not.  `PutFile` and `Turn` are external: camctl publishes,
replaces and withdraws files, and somebody replaces a directory (the path then
leads elsewhere, `stale`) or closes it to the host (`denied`).  Error numbers
are told apart only as far as the code does; the processing directory's content
is not modelled, because a rename replaces what is there.  `ClaimInit`,
`ClaimNext` and `ClaimSpec` have names of their own, so that `HostPartsProofs`
can extend this module and `HostChild`.

### ReportMerge, ReportHistory

`ReportMerge` holds the rules of `reports.ts` as operators without state: what
a report must be in itself (`ownFacts`), whether it may follow what is known
(`validateReportAgainstHistory`, `Mergeable`), what the merge is (`Merged`) and
what is done with a report (`reportDecision`).  Each kind of entity is a
function from identity to its own fields, an optional field a set of at most
one value.  `ReportHistory` puts them to the test they exist for: a device
(external) walks through the life of a plan with a recording, a retrieval, a
deletion, a cancellation and a photograph; any of its reports `(from, to]` may
be offered at any time, and a restored backup takes another course under the
same numbers.  The reference that the merge is compared with is the device's
own full report.

### ReportImport, MCReportImport

The server's side of an upload: `client.db` being made (`database.ts`), batches
of chosen files, uploads, the queue and `processBatch` (`files.ts`), and
`applyReports` (`application.ts`) with the rules of `ReportMerge`.  Code between
two awaits takes one step per durable write, because a crash may fall between
two of them; while such code runs no request is served (`Serving`).
`applyReports` picks the report with the earliest end that need not wait for
another, judges it in one transaction and goes on; the transaction is refused
when the store's own check (`readBusinessState`) fails.  `MCReportImport` gives
the reports: two steps of a plan, the wide report of both, one with a used
number, one that contradicts the plan's progress, one that is damaged.

### PlanEdit

The content of one draft as `editing.ts` and `action-drafts.ts` keep it: the
actions of the plan text, half-finished inputs by path (`pending`), and what was
entered for an action under other types (`variants`), the latter two under
action indices.  A path is `<<action, field>>` or `<<action, field, key>>`; a
typed text is `Whole` (parses) or `Cut` (does not yet).  Every input of the
editor that changes the content is an action with the condition under which the
page offers it; `exportDraft`, `copyRequest`, presets and arriving reports
complete the picture.  Of the action types a capture, a retrieval and a status
report are modelled.  The drafts it starts from are a new one, a copy of an
exported plan, and one whose capture has a half-finished input and is shown as
another type.

### MediaImport

One file name, with `Imports` as the selections a user makes of it; different
names share nothing but the queues.  `db` holds what the store holds of it, so
a crash keeps `db` and `disk` and loses everything else.  `job` is the running
job of `Files.queue`: its `at` names the await it is in, and `video`, `mapping`
and `content` are the locals that live across the await (`processVideo`,
`verifyCurrent`).  The synchronous code between two awaits is one action; the
two places that hold two transactions in a row are two actions between which
only a crash may come (`AtAwait`).  `Commit` is the method `commit`: refused
when the current copy has changed, saved, or thrown, and then durable or not.
Jobs of `reportQueue` appear with their three steps and with whether they bring
the mapping of this file; what they decide about reports is in
`ReportImport`.  `Stopping` walks through `createStop`; `Initialize` is
`POST /api/initialize`, which runs `recover` while the server is up.

Abstractions: a mapping does not change once it is known (the merge refuses
another one, `reports.ts:976-1018`), so it is one constant, `Reported`; all
files have the right size, because one of another size fails each check in the
same way as one that cannot be read; the transactions of `recover` do not fail;
messages, diagnostics and `bytesReceived` are left out.

### DraftSession

One draft: the tab's copy and the server's record.  The tab is one event loop
with three asynchronous activities: the save loop (`saver`), one user operation
at a time (`op`, the `busy` flag of `App.tsx`) and the refresh (`poll`).  A
call is sent, handled, answered and received in separate steps; `Lose` takes
the answer away and `late` holds requests the server handles after the tab gave
them up.  Server handlers are single transactions.  Other tabs appear as
`Other`, which saves, exports or deletes the record.  A content is a text and a
number of appended actions; equality of contents is `sameContent`.  An export
may be refused at any time, which covers plan validation and changing
capabilities (the plan rules themselves are in `PlanEdit`).  Not modelled:
creating the destination draft of a follow-up, the
download after an export and the conflict record that is only displayed.

### What a report looks like

`validateReport` (`reports.ts:595-603`) applies the schema compiled at
`reports.ts:36` and then `ownFacts`.  The client's types, rules, first snapshot
and tests number a report (`status-report.generated.ts:312`, `database.ts:118`).
At this commit `protocol/schemas/status-report.schema.json` already has another
shape (`report_id` a string, no executions, copies or recordings), and
`docs/superpowers/plans/2026-09-30-report-client-adaptation.md` announces the
adaptation of the client.  Until then no report is taken: a numbered one fails
in the schema, one with a string in the comparison at `reports.ts:623`, and
`readBusinessState` refuses even the first snapshot, so that no store is ready.

`ReportMerge` models this with one constant.  `SchemaId` is what the schema
wants an identity to be, `SchemaAdmits` says that it is the number the client
uses, and `validateReport` is `SchemaAdmits /\ ownFacts(r)` everywhere the code
calls it: for a parsed report, before merging, and in the check of the store.
`ReportHistorySchema.cfg` takes the schema of this commit (`SchemaId = "text"`):
every report is refused, against what the tests state (`TruthTaken`).  The
listed report runs take the schema the rest of the client is written for; they and
`TruthIsAccepted` speak of the rules behind the schema.  All other
differences of form are the Boolean `sound` of a report.

## Runs

| Run | Bounds | What it shows |
| --- | --- | --- |
| `host_safety` (`MCHost.cfg`) | ring of 2, three submissions, one retry, failing spawn, waitpid and poll | one process per command, first plan once, budget, needs remembered, refinement of `HostPromise` (order, nothing lost, given up only when spent) |
| `host_progress` (`MCHostLive.cfg`) | two submissions, failing spawn and clock | waits are kept, a dead worker refuses, submissions settle, needs lead to runs |
| `child_collect` (`HostChild.cfg`) | buffer of two pieces, answers up to three, pipes of two, one read per pass, failing waitpid and read | answers neither invented nor lost, slot outlives process, pipes move, exits are collected |
| `child_flood` (`HostChildFlood.cfg`) | the same | refuted: other holders of the pipe are not awaited |
| `host_claim` (`HostClaim.cfg`) | three names, room for two in the list, four changes from outside, two failed calls | diagnoses are true, at most one stray, the list is tried whole, moves are flushed |
| `host_log` (`HostLog.cfg`) | room for about two records, five calls, three files of one or two records, one failing allocation | nothing is lost or counted twice, rotation keeps the end, accepted messages and drop counts get written |
| `draft_session` (`DraftSession.cfg`) | two texts, two edits, one export, one follow-up, one write of another tab, two lost answers | page matches store, one export of what was saved, one append, input kept, saves and operations end |
| `plan_edit` (`PlanEdit.cfg`) | four edits, two actions, one report | entries stay with their action, every unfinished input correctable, exported references sound |
| `report_history` (`ReportHistory.cfg`) | histories that start with 2, 6 or 9 changes at once, then two more boundaries, one restored backup | by the rules behind the schema true reports are accepted, snapshot is history, decided facts stay |
| `report_import` (`ReportImport.cfg`) | three files in batches of one or two, one trouble (failed read or write, crash, second initialization) | coverage grounded, judgements true, gaps remain, received reports judged, only the disk stops the worker |
| `report_reinit` (`ReportImportAgain.cfg`) | the same | refuted: no gap is judged while a report of the batch is arriving |
| `media_import` (`MediaImport.cfg`) | two selections of a name, the reported content and another, one report job, one restart or second initialization, one failing transaction, one fault of a file, one open | the current copy's records are true, only verified copies are served, replacement only by the right content, closed store untouched, everything is decided |

A refuted run states what a document, a comment or a test of the repository says
and ends with a counterexample.  Five further configurations, outside the listed
runs, do the same for one more disagreement each; all are explained under
Findings: `ReportHistorySchema.cfg` (module `ReportHistory`), `MCHostWait.cfg`
(`MCHost`), `HostChildHelpers.cfg` (`HostChild`), `DraftSessionStale.cfg`
(`DraftSession`), `MediaImportRival.cfg` (`MediaImport`).

Why the bounds are enough.

* Host: a ring of two with three submissions wraps and is full, empty and one
  short of full; identities are call ids, so one path suffices.  One retry
  distinguishes paid from free attempts and lets the budget run out in one place
  while another still waits.
* Child: a buffer of two pieces with answers of up to three reaches fitting,
  exactly full and overflowing.
* Claim: three names against a list of two overflow it; two faults allow a
  failure and another while the first is dealt with; four changes replace a file
  and a directory in the course of one call.
* Log: two records of room make one call fit, the next be dropped and a third
  find room for the count only; the lengths include a truncated record, and a
  counter that stops at two reaches its maximum.
* Draft: two edits allow one edit during a running save after another; two lost
  answers allow a lost write whose verification is lost as well; one interfering
  write of another tab makes any remembered revision stale.
* Plan: two actions are what one can disturb in the other; the starting drafts
  already hold a half-finished input and a second type, so four edits switch,
  remove and restore.
* Reports: the first changes put the device at the start, in the middle and near
  the end of its plan; two more boundaries give a report before, across and after
  the coverage, so that repeated, overlapping, covered and missing ones all
  occur.  Three files fit a batch of two whose order matters and one more; a
  single trouble falls into every step.
* Media: one fault makes each await fail once, a single restart falls into every
  step; two selections are what replacement, duplicate and conflict are about.

Revisions, versions and call ids grow without bound in the code and are bounded
only through these counters.

Deadlock is not checked: a library nobody calls, a process slot that has been
collected, a claim that is over, a draft that has been exported or deleted, a
logger whose file failed, a user who edits no more and a server without work may
stop.

### Fairness

* `Host`: the worker's steps are weakly fair (a thread that is not blocked is
  scheduled; the poll returns after 50 ms), processes exit some day and the
  clock advances past a due time somebody waits for.  Submissions are not fair.
* `HostChild`: the worker polls on; writing, exiting and helpers are not fair
  unless the property assumes it.
* `DraftSession`: the event loop runs timers and continuations that are ready,
  a call is handled or times out, the refresh interval goes on.  Users, other
  tabs and late requests are not fair.
* `HostLog`: the writer thread is scheduled.  Callers are not fair.
* `MediaImport`: the event loop runs ready jobs and requests, file operations
  return, and a server that is down is started again.  Users, reports and the
  disk are not fair.
* `HostClaim`, `PlanEdit`, `ReportHistory`, `ReportImport`: safety only, no
  fairness.  That a report is not forgotten is stated as a state property of an
  idle worker (`ReceivedIsJudged`).

### Findings

* `child_flood`: a writing holder of an inherited pipe occupies the slot for
  ever, against the comment at `process.c:110`.
* `report_reinit`: `POST /api/initialize` on a usable store runs `recover`
  beside running uploads (`http.ts:83`, `files.ts:634`).  A report that is
  arriving becomes `interrupted`, the rest of its batch is judged as if it had
  failed, and when it arrives after all it stays `received`: its batch is done.
* `ReportHistorySchema.cfg`: the schema in `protocol/schemas` wants `report_id` as
  a string (`status-report.schema.json:7`, `2073`), the client a number, so every
  report is refused (`reports.ts:596`), though `tests/unit/reports.test.ts:99`
  says 接受完整报告且不依赖当前能力说明 (accepts a complete report) of a numbered
  one; see "What a report looks like".
* `MCHostWait.cfg`: the wait before a retry is counted from the clock sample at
  the top of the pass, not from the observed end (`host.c:148`; design.md:204).
* `HostChildHelpers.cfg`: no process group is created or killed, so a call ends
  while helpers still run (`process.c:160`; design.md:160).
* `DraftSessionStale.cfg`: a late append reply makes a draft editable that the
  refresh has already shown as exported (`session.ts:304`; plans.md:20).  As a
  consequence input typed in that interval counts as saved once the earlier
  retained input has been saved as a new draft; `InputKept` therefore takes "the
  user saved the retained input at this version" for within reach.
* `MediaImportRival.cfg`: `processVideo` decides with the mapping it read before
  the await of the old copy's hash (`files.ts:411`, `472`;
  files-and-status.md:196, 197).  If the report is merged meanwhile, the right copy is
  dropped as a conflict that waits for a report, and the wrong one stays until
  the user selects the file again.

## Proofs

Each proof holds for every value of the constants, from the assumptions named in
the modules.  Where a run checks the same property, TLC shows it on one small
instance and the theorem for all.

* `HostProofs`: `TypeCorrect`; `SlotsAgree`, the inductive invariant `SlotInv`
  that ties phase, slot, process table, pending and fresh requirement and the
  worker's position together, none of which says by itself whether a process may
  exist; `AtMostOneProcess`, `FirstPlanGivenOnce`, `RetriesAreBudgeted`,
  `NeedStaysRecorded`, `DeadHostRefuses` and `RetriesWait`, each from `SlotInv`
  or from a strengthening proved inductive in the same way.
* `HostProofs`, second part: `LibraryKeepsPromise`, `Spec => KeepsPromise`.  The
  backlog of `HostPromise` is the ring read from its first place; the lemmas
  `WrapsOnce` to `FrontIsFirst` say what pushing and popping do to it modulo the
  capacity.  `FrontInv` (the submit phase is never a free start, and is active
  only for a ring that is not empty, within the retry limit) is what the mapping
  of the front needs.  Then each action maps to a step of the promise or to a
  stutter (`HiddenSteps`).
* `HostPartsProofs`: `AnswersAreBelieved` and `SlotIsKept`.  The invariant
  follows the answer through two places at once: as long as nobody else wrote
  and no read failed, the buffer followed by the unread pipe is all that was
  written (`AnswerArrives`), a closed stream was read to its end, and an end is
  noticed only after it came (`EndIsReal`).  A judged slot then holds exactly the
  line (`JudgedRightly`).
* `HostPartsProofs`, second part: of a claim, `ListedOnce` (each listed name
  once, what is left without a verdict, verdicts so far true) gives
  `DiagnosesAreTrue`; three more invariants relate the position in the call to
  strays, to the flush and to the names tried so far and give `AtMostOneStray`,
  `MovedFilesAreFlushed`, `ListIsTriedWhole`.
* `ReportImportProofs`: `ImportInvariant`, `CoverageStaysGrounded`,
  `JudgementsStay`, for any selections, number of files and troubles.  The
  invariant adds to the two properties the form of the records (`Shape`,
  `JobShape`) and that uploads, received files and the files of the running job
  keep apart (`Apart`); without that a late upload or a second judgement could
  overwrite the status of a report already judged.
* `ReportImportProofs`, second part: `NothingReceivedIsForgotten`, `GapsAreLeft`
  and `OnlyTheDiskFails`.  `WakeInv` adds that a batch with a report still to arrive
  is neither in work nor done (`Settled`), that once a report of the running job
  was put aside all that is left will be (`Gaps`, from the order in which
  `Picked` takes them), that a received report has its batch in the queue or in
  work, or waits for another upload (`Woken`), and that the store is one its own
  check accepts, if its schema accepts any (`Stored`; otherwise it is never ready
  and no file is imported).  The last needs of a report only that it has both
  ends (`ChoicesAssumption`); the lemma `AcceptedIsStored` is why a transaction
  is never refused.
* `MediaImportProofs`: `CopyRecordsAreTrue`, `OnlyVerifiedIsServed`,
  `OnlyRightReplacesWrong` and `NothingUsesAClosedStore`, for any selections,
  contents, faults and restarts.  The code keeps copies of a record across its
  awaits, so the invariant (`CopyInvariant`) says what such a copy is worth: it
  is sound by the mapping of now, its file was processed, and as long as it is
  the current one its content is the recorded one (`Known`).  Every change of
  the store is of one of three kinds (`Settles`, `Writes`, `Restores`), and
  `RecordsMove` shows once what each leaves true; the step lemmas only place
  each transaction among them.  Assumed: finitely many selections
  (`ImportsAssumption`) and that nothing is named like the marks of the model
  (`NamesAssumption`).

* `DraftSessionProofs`: `PageTellsTheTruth`, `OnlyTheSavedIsExported` and
  `RequestsAreCarriedOutOnce`, for any texts, edits, faults, follow-ups and
  writes of other tabs.  A page knows nothing of the record but what it was once
  told, so `PageInv` says of everything it holds that it was saved under that
  revision (`Past`), and what was saved stays (`Extends`).  A write it
  remembers has an older version than later input, or the same content
  (`Written`).  `AppendInv` counts: an append not yet handled fits the record
  only while it belongs to the follow-up under way and that one has not been
  appended (`Live`), so a second one finds the record moved on.

* `ReportHistoryProofs`: `DecisionsStay`, `SnapshotIsTrue` and `TruthIsAccepted`,
  for any number of changes, backups and imports, in any order.  The first needs the history check
  of `ReportMerge` entity by entity (`MergedDecides`) and nothing of the device,
  which may report what it likes.  The second needs nothing of the check but
  what the device keeps: `World` (an entity lies below a plan and an action that
  exist) survives each of its changes (`ChangesGrow`), and in its `HistoryInv`
  an entity once known stays known.  Then a report that begins at or before the
  coverage carries every entity that differs (`MergedKind`), and the merge of
  the whole report of one state with it is the whole report of the next
  (`MergedReport`).  The states a run starts with are given by a recursive
  function; `ReachIs` shows that it exists and `ReachedWorlds` that its values
  are such states, both by induction over a set of numbers (`SetInduction`,
  from the well-founded order of the library).
* `ReportHistoryProofs`, second part: `TruthIsAccepted` assumes that the
  schema admits reports as the client declares them (`SchemaAdmits`; that of this
  commit does not) and says that the rules behind it refuse nothing true.  It must
  know every field of
  every entity against every rule of the merge, of a report and a snapshot that
  may be many changes apart.  That the current state is well formed is not
  inductive enough: the rules compare versions.  So each state is described by a
  stage (`Described`): how far each of its actions, output, copy and delivery has
  come, with the combinations that can occur together (`Consistent`).  Each
  change of the device leads from a described state to one of a stage that may
  follow (`Before`, which is transitive; `RecordTurn` to `DiagnoseTurn`, one lemma
  for each change), so the whole history of an undisturbed device is a sequence
  of stages, each before all later ones (`CourseInv`).  A report then shows some
  entities of one stage (`Seen`).  Of one stage are proved the rules about one
  report (`SeenOwn`); of two, in either order, those about an earlier and a
  later version (`SeenHistory`); the rules that follow links through the
  entities of both reports need only what every version of an entity says
  (`Lasting`).  A report that is applied makes the snapshot the whole report of a
  stage again (`MergedReport`), so its own rules hold after it too.  The theorem
  is proved for every pair of ends, also those that the property, to keep the
  run small, leaves to the states before the last change.
* `PlanEditProofs`: `EditInvariant`, `NothingEnteredIsLost`,
  `InputsCorrectable` and `ExportsSound`, for any number of actions, edits,
  copies and reports.  `EditInv` says that what lies beside the plan text belongs
  to it: half-finished inputs are paths of existing actions, no path lies within
  another, and the same is true of what was entered under each other type of
  an action (`variants`), which comes back when the type does.  Without the part
  about `variants` a restored entry could lie within another.  `SoundInv` adds
  that every exported plan was valid and its sync basis covered when it was
  exported, and that the coverage only grows.

* `HostLogProofs`: `EveryMessageAccounted` and `LatestAlwaysKept`, for any
  capacities and limits, number of files, message lengths and failing
  allocations.  `Shape` (`ShapeHolds`) is what both stand on: the queue is
  charged exactly what its records cost (`QueueOK`), and only where the writer
  is busy it has a record in hand (`Hands`).  For the first, every way a queue
  value is changed puts certain records behind it, which carry so many message
  numbers and so many drops (`Grows`); so a step adds as many to the pipeline as
  it takes from the counter (`AccountMoves`).  For the second, `Kept` says that
  some beginning followed by the files is all that was ever written (`Ends`):
  a rename moves a part into an empty place before it and changes nothing in
  the whole (`FlattenMoves`), unlinking makes the lost beginning longer
  (`FlattenLoses`), writing makes the end longer (`FlattenGrows`).  That a file
  was left only for a record that did not fit must be known before that record
  is written: `Newest` says it of the record in hand, `Gap` of the two files on
  either side of the place that a rotation has emptied, and `Current` that the
  size the writer counts is that of the file.  Sums, numbers of records and the
  concatenation of files are recursive functions; that they exist and what one
  more step adds is proved by induction over a set of numbers (`SetInduction`,
  `ComputedExists`).

Only model-checked: liveness, which is out of the prover's reach under fairness,
with ENABLED (`SubmissionsSettle`, `RunsSettle`, `PipesKeepMoving`,
`ExitedIsCollected`, `InputKept`, `PageSettles`, `LogSettles`, `CopiesSettle`).
Every other property of the passing runs is stated by a theorem.

## Plan

Next, in this order:

1. `DraftSession`: creating the destination of a follow-up, handoff marks and
   the acknowledged report number.
2. `PlanEdit`: device and time fields, the forms of deleting and cancelling, the
   linked options of capture schemas.
3. The new report format, when the client follows the schema.

## Not modelled

* Configuration checks and the terminal demo; HTTP routing and byte ranges; the
  pages that only show records, results and media: no state that survives a
  call.
* Of the editor: device and time fields, the forms of delete and cancel actions
  (edited like a retrieval's), linked options of capture schemas, the reload of
  presets and capabilities.
* Of the tab: creating the destination draft of a follow-up, handoff marks,
  downloads and the conflict record that is only displayed.
* Of report import: the content of temporary files, a store changed from
  outside, a transaction of a report whose result stays unknown (`MediaImport`
  has that fault for its own).  Of a report: names, dates, diagnostics' text
  and the fields that no history rule compares.
* `apps/camctl`: a design without source.  What it publishes and answers is
  external in `HostClaim`, `HostChild` and `ReportHistory`.
* Memory allocation failures of the C library end in the same error paths as
  the failures that are modelled.  Undefined behaviour was not met in the
  modelled code: every field shared between threads of the host library is read
  and written under its mutex.
