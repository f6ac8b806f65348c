---------------------------- MODULE DraftSession ----------------------------
(***************************************************************************)
(* One draft of the client: the copy a browser tab edits (class            *)
(* DraftSession and class FollowOperation of apps/client/src/web, driven   *)
(* by the operations of App.tsx) and the record the server keeps           *)
(* (Application in apps/client/src/server), with other tabs that work on   *)
(* the same draft and a connection that loses, delays and reorders.        *)
(*                                                                         *)
(* The tab is one event loop.  Its asynchronous activities are the save    *)
(* loop (saver), at most one user operation at a time (op, the busy flag   *)
(* of App.tsx) and the periodic refresh (poll); each awaits at most one    *)
(* call.  A write call is sent, handled by the server (one transaction),   *)
(* answered and received in separate steps; a call whose answer does not   *)
(* come within the 30 s of api() counts as lost, and the request may still *)
(* be handled afterwards (late).  A read changes nothing, so the server    *)
(* answers it when it is sent.                                             *)
(*                                                                         *)
(* Abstractions.  A content is a text plus the number of appended follow-  *)
(* up actions; sameContent is equality.  exportedRequestId is set exactly  *)
(* while exportState is "exported".  error tells whether a message is      *)
(* shown.  conflict, which is only displayed, and the download after an    *)
(* export are left out.                                                    *)
(***************************************************************************)
EXTENDS Integers, Sequences

CONSTANTS
    Texts, FirstText,  \* what a user may type; the text of the new draft
    None,              \* undefined
    MaxEdits,          \* bound: edits in this tab
    MaxOthers,         \* bound: writes of other tabs
    MaxFaults,         \* bound: calls that stay without an answer
    MaxFollows,        \* bound: follow-up operations
    MaxExports         \* bound: export requests sent

ASSUME TextsAssumption == FirstText \in Texts /\ None \notin Texts
ASSUME BoundsAssumption == {MaxEdits, MaxOthers, MaxFaults, MaxFollows, MaxExports} \subseteq Nat

VARIABLES
    \* the server
    draft,          \* the record: open, exported or deleted
    requests,       \* ExportedRequests made from this draft
    \* class DraftSession
    content, revision, version, confirmed, baseline, pending,
    exportState, exportToken, snapshot, recovery, recovered,
    appendLocked, deletion, error, timer,
    saver, put,     \* position and locals of saveLoop and verifyWrite
    \* App.tsx and class FollowOperation
    op,             \* the user operation under way: kind and position
    phase, target,  \* the follow-up operation and its baseline
    call,           \* the calls the save loop and the operation await
    poll,           \* the refresh: what /state said, with the token kept
    late,           \* requests given up by the tab, not yet handled
    \* history and bounds
    stored,         \* stored[r]: the content saved as revision r
    appended,       \* appends the server has carried out
    edits, others, faults, follows

server == <<draft, requests, stored, appended>>
written == <<content, revision, version, confirmed, baseline, pending>>
exporting == <<exportState, exportToken, snapshot>>
kept == <<recovery, recovered>>
saving == <<saver, put>>
following == <<phase, target>>
bounds == <<edits, others, faults, follows>>
vars == <<server, written, exporting, kept, appendLocked, deletion, error,
          timer, saving, op, following, call, poll, late, bounds>>

Content == [text : Texts, actions : Nat]
Draft == [state : {"open", "exported", "deleted"}, revision : Nat,
          content : Content]
Write == [revision : Nat, content : Content, version : Nat, baseline : Content]
Request == [kind : {"save", "export", "delete", "append", "create"},
            revision : Nat, content : Content]
Answers == {"none", "ok", "refused", "lost"}
Calls == [request : Request \cup {None}, answer : Answers,
          draft : Draft \cup {None}]
Ops == [kind : {"none"}, at : {""}]
       \cup [kind : {"export", "delete"}, at : {"flush", "ready", "call", "check"}]
       \cup [kind : {"checkExport", "checkDelete"}, at : {"check"}]
       \cup [kind : {"follow"},
              at : {"read", "flush", "ready", "reread", "call", "check"}]
       \cup [kind : {"recover"}, at : {"call"}]

TypeOK ==
    /\ draft \in Draft /\ requests \in Seq([revision : Nat, content : Content])
    /\ stored \in Seq(Content) /\ appended \in Nat
    /\ content \in Content /\ baseline \in Content
    /\ revision \in Nat /\ version \in Nat /\ confirmed \in Nat
    /\ pending \in Write \cup {None} /\ put \in Write \cup {None}
    /\ exportState \in {"editable", "exporting", "unknown", "exported"}
    /\ exportToken \in Nat
    /\ snapshot \in [revision : Nat, content : Content] \cup {None}
    /\ recovery \in Content \cup {None} /\ recovered \in Nat \cup {None}
    /\ appendLocked \in BOOLEAN /\ error \in BOOLEAN /\ timer \in BOOLEAN
    /\ deletion \in {"idle", "deleting", "unknown", "deleted"}
    /\ saver \in {"idle", "put", "check", "verify"}
    /\ op \in Ops
    /\ phase \in {"none", "target", "appending", "unknown", "not_appended",
                  "conflict"}
    /\ target \in Draft \cup {None}
    /\ call \in [{"save", "op"} -> Calls \cup {None}]
    /\ poll \in [draft : Draft, token : Nat \cup {None}] \cup {None}
    /\ late \subseteq Request
    /\ {edits, others, faults, follows} \subseteq Nat

-----------------------------------------------------------------------------
(* The server.  Each handler is one transaction.                           *)

SlipAnyRevision(r) == draft.state = "open"

Accepts(r) == draft.state = "open" /\ draft.revision = r.revision

Store(c) ==
    /\ draft' = [draft EXCEPT !.revision = @ + 1, !.content = c]
    /\ stored' = Append(stored, c)

saveDraft(r) ==
    /\ Accepts(r) /\ Store(r.content)
    /\ UNCHANGED <<requests, appended>>

appendAction(r) ==
    /\ Accepts(r) /\ Store([draft.content EXCEPT !.actions = @ + 1])
    /\ appended' = appended + 1
    /\ UNCHANGED requests

exportDraft(r) ==
    \/ draft.state = "exported" /\ UNCHANGED server
    \/ /\ Accepts(r)
       /\ requests' = Append(requests, [revision |-> draft.revision, content |-> r.content])
       /\ draft' = [state |-> "exported", revision |-> draft.revision + 1,
                    content |-> r.content]
       /\ stored' = Append(stored, r.content)
       /\ UNCHANGED appended

deleteDraft(r) ==
    \/ draft.state = "deleted" /\ UNCHANGED server
    \/ /\ Accepts(r)
       /\ draft' = [draft EXCEPT !.state = "deleted"]
       /\ UNCHANGED <<requests, stored, appended>>

(* The new draft is a record of its own.                                   *)
createDraft(r) == UNCHANGED server

Carry(r) ==
    \/ r.kind = "save" /\ saveDraft(r)
    \/ r.kind = "append" /\ appendAction(r)
    \/ r.kind = "export" /\ exportDraft(r)
    \/ r.kind = "delete" /\ deleteDraft(r)
    \/ r.kind = "create" /\ createDraft(r)

(* 404 and 409 answers, and the 400 of an export that fails validation     *)
(* (the capabilities may change at any time).                              *)
Refuse(r) ==
    /\ \/ r.kind \in {"save", "append"} /\ ~Accepts(r)
       \/ r.kind = "export" /\ draft.state # "exported"
       \/ r.kind = "delete" /\ draft.state # "deleted" /\ ~Accepts(r)
    /\ UNCHANGED server

-----------------------------------------------------------------------------
(* Calls of the tab.                                                       *)

Ask(kind, rev, c) ==
    [request |-> [kind |-> kind, revision |-> rev, content |-> c],
     answer |-> "none", draft |-> None]

(* GET /state: the draft as it is now, absent when it was deleted.         *)
Read == [request |-> None, answer |-> "ok",
         draft |-> IF draft.state = "deleted" THEN None ELSE draft]

Handle(p) ==
    /\ call[p] # None /\ call[p].answer = "none"
    /\ \/ /\ Carry(call[p].request)
          /\ call' = [call EXCEPT ![p].answer = "ok", ![p].draft = draft']
       \/ /\ Refuse(call[p].request)
          /\ call' = [call EXCEPT ![p].answer = "refused"]
    /\ UNCHANGED <<written, exporting, kept, appendLocked, deletion, error,
                   timer, saving, op, following, poll, late, bounds>>

(* No answer reaches the tab: the request may have been handled, it may    *)
(* never arrive, or it arrives later.                                      *)
Lose(p) ==
    /\ faults < MaxFaults /\ faults' = faults + 1
    /\ call[p] # None /\ call[p].answer # "lost"
    /\ call' = [call EXCEPT ![p].answer = "lost", ![p].draft = None]
    /\ late' \in {late} \cup IF call[p].answer = "none"
                             THEN {late \cup {call[p].request}} ELSE {}
    /\ UNCHANGED <<server, written, exporting, kept, appendLocked, deletion,
                   error, timer, saving, op, following, poll, edits, others,
                   follows>>

HandleLate ==
    /\ \E r \in late : (Carry(r) \/ Refuse(r)) /\ late' = late \ {r}
    /\ UNCHANGED <<written, exporting, kept, appendLocked, deletion, error,
                   timer, saving, op, following, call, poll, bounds>>

Answered(p, a) == call[p] # None /\ call[p].answer = a
Failed(p) == Answered(p, "refused") \/ Answered(p, "lost")
(* readDraft throws when /state fails or does not list the draft.          *)
Found(p) == Answered(p, "ok") /\ call[p].draft # None
NotFound(p) == call[p] # None /\ call[p].answer # "none" /\ ~Found(p)

-----------------------------------------------------------------------------
(* class DraftSession                                                      *)

Editable == exportState = "editable" /\ ~appendLocked /\ deletion = "idle"

Saved ==
    IF exportState = "exported" THEN recovery = None
    ELSE version = confirmed /\ ~error /\ pending = None

Busy == op.kind # "none"
Free == [kind |-> "none", at |-> ""]
At(kind, at) == op = [kind |-> kind, at |-> at]
GoTo(at) == op' = [op EXCEPT !.at = at]

(* observe *)
SlipNothingToKeep(a) == FALSE

InputDiffers(a) == content # a.content /\ recovered # version

ObserveExported(a) ==
    /\ recovery' = IF InputDiffers(a) THEN content ELSE recovery
    /\ confirmed' = IF InputDiffers(a) THEN confirmed ELSE version
    /\ pending' = None
    /\ exportState' = "exported"
    /\ timer' = FALSE
    /\ UNCHANGED <<recovered, snapshot, exportToken>>

BasisUnchanged(a) ==
    a.revision = snapshot.revision /\ a.content = snapshot.content

Observe(a, token) ==
    \/ a.state = "exported" /\ ObserveExported(a) /\ error' = FALSE
    \/ /\ a.state # "exported"
       /\ IF exportState = "unknown" /\ token = exportToken
          THEN IF BasisUnchanged(a)
               THEN exportState' = "editable" /\ snapshot' = None /\ error' = FALSE
               ELSE error' = TRUE /\ UNCHANGED <<exportState, snapshot>>
          ELSE UNCHANGED <<exportState, snapshot, error>>
       /\ UNCHANGED <<recovery, recovered, confirmed, pending, timer, exportToken>>

(* edit and schedule; the fieldset is disabled while an operation runs.    *)
SlipNotScheduled == timer

Scheduled == TRUE

Edit(c) ==
    /\ edits < MaxEdits /\ edits' = edits + 1
    /\ Editable /\ ~Busy /\ c # content
    /\ content' = c
    /\ version' = version + 1
    /\ error' = FALSE
    /\ timer' = Scheduled
    /\ UNCHANGED <<server, revision, confirmed, baseline, pending, exporting,
                   kept, appendLocked, deletion, saving, op, following, call,
                   poll, late, others, faults, follows>>

(* An operation that waits in flush goes on, or ends with its error.       *)
SlipFailureNotReported(ok) ==
    op' = IF op.at = "flush" /\ ok THEN [op EXCEPT !.at = "ready"] ELSE op

Flushed(ok) ==
    op' = IF op.at # "flush" THEN op
          ELSE IF ok THEN [op EXCEPT !.at = "ready"] ELSE Free

MoreToSave(cv) == cv # version

Loop(cv, rev, base, err) ==
    /\ confirmed' = cv /\ revision' = rev /\ baseline' = base
    /\ \/ /\ ~MoreToSave(cv)
          /\ pending' = None /\ saver' = "idle" /\ error' = err
          /\ Flushed(TRUE)
          /\ call' = [call EXCEPT !["save"] = None]
          /\ put' = None
       \/ /\ MoreToSave(cv) /\ Editable
          /\ pending' = [revision |-> rev, content |-> content,
                         version |-> version, baseline |-> base]
          /\ put' = pending'
          /\ saver' = "put" /\ error' = err
          /\ call' = [call EXCEPT !["save"] = Ask("save", rev, content)]
          /\ UNCHANGED op
       \/ /\ MoreToSave(cv) /\ ~Editable
          /\ pending' = None /\ saver' = "idle" /\ error' = TRUE
          /\ Flushed(FALSE)
          /\ call' = [call EXCEPT !["save"] = None]
          /\ put' = None

(* flush by the timer or by the retry button.  A flush that finds the loop *)
(* running joins it.                                                       *)
StartLoop ==
    /\ saver = "idle"
    /\ IF pending = None
       THEN Loop(confirmed, revision, baseline, FALSE)
       ELSE /\ saver' = "check" /\ put' = pending /\ error' = FALSE
            /\ call' = [call EXCEPT !["save"] = Read]
            /\ UNCHANGED <<confirmed, revision, baseline, pending, op>>

TimerFires ==
    /\ timer /\ timer' = FALSE
    /\ \/ Editable /\ StartLoop
       \/ /\ ~Editable \/ saver # "idle"
          /\ UNCHANGED <<confirmed, revision, baseline, pending, error, saving,
                         op, call>>
    /\ UNCHANGED <<server, content, version, exporting, kept, appendLocked,
                   deletion, following, poll, late, bounds>>

Retry ==
    /\ error /\ Editable
    /\ StartLoop
    /\ timer' = FALSE
    /\ UNCHANGED <<server, content, version, exporting, kept, appendLocked,
                   deletion, following, poll, late, bounds>>

(* The PUT is answered.                                                    *)
SlipReceiptCoversAll == version

ReceiptVersion == put.version

SlipBasisFromPage == content

ReceiptContent == put.content

PutSucceeds ==
    /\ saver = "put" /\ Answered("save", "ok")
    /\ Loop(ReceiptVersion, put.revision + 1, ReceiptContent, error)
    /\ UNCHANGED <<server, content, version, exporting, kept, appendLocked,
                   deletion, timer, following, poll, late, bounds>>

PutFails ==
    /\ saver = "put" /\ Failed("save")
    /\ saver' = "verify"
    /\ call' = [call EXCEPT !["save"] = Read]
    /\ UNCHANGED <<server, written, exporting, kept, appendLocked, deletion,
                   error, timer, put, op, following, poll, late, bounds>>

(* verifyWrite: what the record read after a failure says of the write.    *)
WriteFound(a) ==
    a.state = "open" /\ a.revision = put.revision + 1 /\ a.content = put.content

NotWritten(a) ==
    a.state = "open" /\ a.revision = put.revision /\ a.content = put.baseline

LoopFails ==
    /\ saver' = "idle" /\ put' = None /\ error' = TRUE
    /\ Flushed(FALSE)
    /\ call' = [call EXCEPT !["save"] = None]
    /\ UNCHANGED <<revision, baseline>>

Verified ==
    LET a == call["save"].draft IN
    /\ saver \in {"check", "verify"} /\ Found("save")
    /\ \/ /\ WriteFound(a)
          /\ Loop(put.version, a.revision, a.content, error)
          /\ UNCHANGED <<exporting, kept, timer>>
       \/ /\ ~WriteFound(a) /\ NotWritten(a) /\ saver = "check"
          /\ Loop(confirmed, revision, baseline, error)
          /\ UNCHANGED <<exporting, kept, timer>>
       \/ /\ ~WriteFound(a) /\ NotWritten(a) /\ saver = "verify"
          /\ pending' = None
          /\ LoopFails
          /\ UNCHANGED <<confirmed, exporting, kept, timer>>
       \/ /\ a.state = "exported"
          /\ ObserveExported(a)
          /\ LoopFails
       \/ /\ a.state # "exported" /\ ~WriteFound(a) /\ ~NotWritten(a)
          /\ LoopFails
          /\ UNCHANGED <<confirmed, pending, exporting, kept, timer>>
    /\ UNCHANGED <<server, content, version, appendLocked, deletion, following,
                   poll, late, bounds>>

VerifyUnread ==
    /\ saver \in {"check", "verify"} /\ NotFound("save")
    /\ LoopFails
    /\ UNCHANGED <<server, content, version, confirmed, pending, exporting,
                   kept, appendLocked, deletion, timer, following, poll, late,
                   bounds>>

-----------------------------------------------------------------------------
(* The operations of App.tsx: run admits one at a time.                    *)

Begin(kind, at) == ~Busy /\ op' = [kind |-> kind, at |-> at]

tab == <<written, exporting, kept, appendLocked, deletion, error, timer,
         saving, following, poll>>

(* Export, delete and follow-up first flush.                               *)
StartFlushing(kind) ==
    /\ Editable /\ (kind = "export" => exportToken < MaxExports)
    /\ Begin(kind, "flush")
    /\ UNCHANGED <<server, tab, call, late, bounds>>

Flush ==
    /\ op.at = "flush" /\ saver = "idle"
    /\ timer' = FALSE
    /\ \/ Editable /\ StartLoop
       \/ /\ ~Editable /\ op' = Free
          /\ UNCHANGED <<confirmed, revision, baseline, pending, error, saving,
                         call>>
    /\ UNCHANGED <<server, content, version, exporting, kept, appendLocked,
                   deletion, following, poll, late, bounds>>

SendOp(kind, rev, c) == call' = [call EXCEPT !["op"] = Ask(kind, rev, c)]
ReadOp == call' = [call EXCEPT !["op"] = Read]
EndOp == op' = Free /\ call' = [call EXCEPT !["op"] = None]

(* beginExport, delete and prepare find that they must not go on.          *)
NotReady ==
    /\ op.at = "ready" /\ op.kind \in {"export", "delete"}
    /\ ~(Editable /\ Saved)
    /\ EndOp
    /\ UNCHANGED <<server, tab, late, bounds>>

BeginExport ==
    /\ At("export", "ready") /\ Editable /\ Saved
    /\ exportState' = "exporting"
    /\ exportToken' = exportToken + 1
    /\ snapshot' = [revision |-> revision, content |-> content]
    /\ timer' = FALSE
    /\ GoTo("call") /\ SendOp("export", revision, content)
    /\ UNCHANGED <<server, written, kept, appendLocked, deletion, error,
                   saving, following, poll, late, bounds>>

ExportAnswered ==
    /\ At("export", "call") /\ call["op"].answer # "none"
    /\ \/ /\ Answered("op", "ok")
          /\ exportState' = "exported" /\ error' = FALSE /\ timer' = FALSE
          /\ EndOp /\ UNCHANGED snapshot
       \/ /\ Answered("op", "refused")
          /\ IF exportState = "exported" THEN UNCHANGED <<exportState, snapshot, error>>
             ELSE exportState' = "editable" /\ snapshot' = None /\ error' = FALSE
          /\ EndOp /\ UNCHANGED timer
       \/ /\ Answered("op", "lost")
          /\ IF exportState = "exported" THEN UNCHANGED <<exportState, error>>
             ELSE exportState' = "unknown" /\ error' = TRUE
          /\ GoTo("check") /\ ReadOp /\ UNCHANGED <<snapshot, timer>>
    /\ UNCHANGED <<server, written, exportToken, kept, appendLocked, deletion,
                   saving, following, poll, late, bounds>>

StartCheckExport ==
    /\ exportState = "unknown"
    /\ Begin("checkExport", "check") /\ ReadOp
    /\ UNCHANGED <<server, tab, late, bounds>>

ExportChecked ==
    /\ op.kind \in {"export", "checkExport"} /\ op.at = "check"
    /\ \/ Found("op") /\ Observe(call["op"].draft, exportToken)
       \/ /\ NotFound("op")
          /\ UNCHANGED <<confirmed, pending, exporting, kept, error, timer>>
    /\ EndOp
    /\ UNCHANGED <<server, content, revision, version, baseline, appendLocked,
                   deletion, saving, following, poll, late, bounds>>

BeginDelete ==
    /\ At("delete", "ready") /\ Editable /\ Saved
    /\ deletion' = "deleting" /\ timer' = FALSE
    /\ GoTo("call") /\ SendOp("delete", revision, content)
    /\ UNCHANGED <<server, written, exporting, kept, appendLocked, error,
                   saving, following, poll, late, bounds>>

DeleteAnswered ==
    /\ At("delete", "call")
    /\ \/ Answered("op", "ok") /\ deletion' = "deleted" /\ EndOp
       \/ Failed("op") /\ deletion' = "unknown" /\ GoTo("check") /\ ReadOp
    /\ UNCHANGED <<server, written, exporting, kept, appendLocked, error,
                   timer, saving, following, poll, late, bounds>>

StartCheckDelete ==
    /\ deletion = "unknown"
    /\ Begin("checkDelete", "check") /\ ReadOp
    /\ UNCHANGED <<server, tab, late, bounds>>

DeleteChecked ==
    /\ op.kind \in {"delete", "checkDelete"} /\ op.at = "check"
    /\ \/ /\ Answered("op", "lost")
          /\ error' = TRUE
          /\ UNCHANGED <<deletion, confirmed, pending, exporting, kept, timer>>
       \/ /\ Answered("op", "ok") /\ call["op"].draft = None
          /\ deletion' = "deleted" /\ error' = FALSE
          /\ UNCHANGED <<confirmed, pending, exporting, kept, timer>>
       \/ /\ Found("op") /\ deletion' = "idle" /\ error' = FALSE
          /\ \/ call["op"].draft.state = "exported" /\ ObserveExported(call["op"].draft)
             \/ /\ call["op"].draft.state # "exported"
                /\ UNCHANGED <<confirmed, pending, exporting, kept, timer>>
    /\ EndOp
    /\ UNCHANGED <<server, content, revision, version, baseline, appendLocked,
                   saving, following, poll, late, bounds>>

(* The retained input of an exported draft is saved as a new draft.        *)
StartRecover ==
    /\ recovery # None /\ deletion # "deleted"
    /\ Begin("recover", "call") /\ SendOp("create", 0, recovery)
    /\ UNCHANGED <<server, tab, late, bounds>>

RecoverAnswered ==
    /\ At("recover", "call") /\ call["op"].answer # "none"
    /\ \/ Answered("op", "ok") /\ recovered' = version /\ recovery' = None
       \/ Failed("op") /\ UNCHANGED kept
    /\ EndOp
    /\ UNCHANGED <<server, written, exporting, appendLocked, deletion, error,
                   timer, saving, following, poll, late, bounds>>

-----------------------------------------------------------------------------
(* class FollowOperation, with this draft as its destination.              *)

StartFollow ==
    /\ phase = "none" /\ deletion # "deleted" /\ follows < MaxFollows
    /\ follows' = follows + 1
    /\ Begin("follow", "read") /\ ReadOp
    /\ phase' = "target"
    /\ UNCHANGED <<server, written, exporting, kept, appendLocked, deletion,
                   error, timer, saving, target, poll, late, edits, others,
                   faults>>

AdvanceFollow ==
    /\ \/ phase = "target" /\ Begin("follow", "read")
       \/ phase \in {"unknown", "not_appended", "conflict"} /\ Begin("follow", "check")
    /\ deletion # "deleted"
    /\ ReadOp
    /\ UNCHANGED <<server, tab, late, bounds>>

(* prepare: read, flush, read again, lock.                                 *)
FollowRead ==
    /\ At("follow", "read")
    /\ \/ Found("op") /\ Observe(call["op"].draft, None) /\ GoTo("flush")
          /\ call' = [call EXCEPT !["op"] = None]
       \/ /\ NotFound("op") /\ EndOp
          /\ UNCHANGED <<confirmed, pending, exporting, kept, error, timer>>
    /\ UNCHANGED <<server, content, revision, version, baseline, appendLocked,
                   deletion, saving, following, poll, late, bounds>>

FollowFlushed ==
    /\ At("follow", "ready")
    /\ GoTo("reread") /\ ReadOp
    /\ UNCHANGED <<server, tab, late, bounds>>

AgreesWithSession(a) == Editable /\ a.revision = revision /\ a.content = content

FollowReread ==
    LET a == call["op"].draft IN
    /\ At("follow", "reread")
    /\ \/ /\ NotFound("op") /\ EndOp
          /\ UNCHANGED <<confirmed, pending, exporting, kept, error, timer,
                         appendLocked, following>>
       \/ /\ Found("op") /\ a.state = "exported" /\ EndOp
          /\ Observe(a, None)
          /\ UNCHANGED <<appendLocked, following>>
       \/ /\ Found("op") /\ a.state # "exported" /\ EndOp
          \* it differs from the session, or its text does not parse
          /\ UNCHANGED <<confirmed, pending, exporting, kept, error, timer,
                         appendLocked, following>>
       \/ /\ Found("op") /\ a.state # "exported" /\ AgreesWithSession(a)
          /\ appendLocked' = TRUE /\ timer' = FALSE
          /\ target' = a /\ phase' = "appending"
          /\ GoTo("call") /\ SendOp("append", a.revision, a.content)
          /\ UNCHANGED <<confirmed, pending, exporting, kept, error>>
    /\ UNCHANGED <<server, content, revision, version, baseline, deletion,
                   saving, poll, late, bounds>>

(* classifyAppend *)
AppendFound(a) ==
    /\ a.state = "open" /\ a.revision = target.revision + 1
    /\ a.content = [target.content EXCEPT !.actions = @ + 1]

AtBaseline(a) ==
    a.state = "open" /\ a.revision = target.revision /\ a.content = target.content

(* unlockAppend and accept *)
Accept(a) ==
    /\ appendLocked' = FALSE
    /\ content' = a.content /\ baseline' = a.content /\ revision' = a.revision
    /\ version' = version + 1 /\ confirmed' = version'
    /\ exportState' = "editable" /\ pending' = None /\ error' = FALSE
    /\ phase' = "none" /\ target' = None
    /\ EndOp
    /\ UNCHANGED <<exportToken, snapshot>>

AppendAnswered ==
    /\ At("follow", "call")
    /\ \/ Answered("op", "ok") /\ AppendFound(call["op"].draft) /\ Accept(call["op"].draft)
       \/ /\ \/ Failed("op")
             \/ Answered("op", "ok") /\ ~AppendFound(call["op"].draft)
          /\ GoTo("check") /\ ReadOp
          /\ UNCHANGED <<written, exporting, appendLocked, error, following>>
    /\ UNCHANGED <<server, kept, deletion, timer, saving, poll, late, bounds>>

(* A retry reads once more and only then appends again.                    *)
MayRetry == phase = "not_appended"

FollowVerified ==
    LET a == call["op"].draft IN
    /\ At("follow", "check")
    /\ \/ Found("op") /\ AppendFound(a) /\ Accept(a)
       \/ /\ Found("op") /\ AtBaseline(a) /\ MayRetry
          /\ phase' = "appending"
          /\ GoTo("call") /\ SendOp("append", target.revision, target.content)
          /\ UNCHANGED <<written, exporting, appendLocked, error, target>>
       \/ /\ \/ NotFound("op") /\ phase' = "unknown"
             \/ Found("op") /\ AtBaseline(a) /\ ~MayRetry /\ phase' = "not_appended"
             \/ /\ Found("op") /\ ~AppendFound(a) /\ ~AtBaseline(a)
                /\ phase' = "conflict"
          /\ EndOp
          /\ UNCHANGED <<written, exporting, appendLocked, error, target>>
    /\ UNCHANGED <<server, kept, deletion, timer, saving, poll, late, bounds>>

-----------------------------------------------------------------------------
(* refresh.  Polls that find nothing to observe are left out.              *)

PollSend ==
    /\ poll = None /\ deletion # "deleted"
    /\ \/ draft.state = "exported"
       \/ draft.state = "open" /\ exportState = "unknown"
    /\ poll' = [draft |-> draft,
                token |-> IF exportState = "unknown" THEN exportToken ELSE None]
    /\ UNCHANGED <<server, written, exporting, kept, appendLocked, deletion,
                   error, timer, saving, op, following, call, late, bounds>>

PollReceived ==
    /\ poll # None /\ poll' = None
    /\ Observe(poll.draft, poll.token)
    /\ UNCHANGED <<server, content, revision, version, baseline, appendLocked,
                   deletion, saving, op, following, call, late, bounds>>

(* Writes of other tabs that have read the current record.                 *)
Other ==
    /\ others < MaxOthers /\ others' = others + 1
    /\ draft.state = "open"
    /\ \/ \E t \in Texts : Store([draft.content EXCEPT !.text = t])
                           /\ UNCHANGED <<requests, appended>>
       \/ exportDraft([revision |-> draft.revision, content |-> draft.content])
       \/ deleteDraft([revision |-> draft.revision])
    /\ UNCHANGED <<tab, op, call, late, edits, faults, follows>>

-----------------------------------------------------------------------------
Init ==
    LET first == [text |-> FirstText, actions |-> 0] IN
    /\ draft = [state |-> "open", revision |-> 1, content |-> first]
    /\ requests = <<>> /\ stored = <<first>> /\ appended = 0
    /\ content = first /\ baseline = first /\ revision = 1
    /\ version = 0 /\ confirmed = 0 /\ pending = None
    /\ exportState = "editable" /\ exportToken = 0 /\ snapshot = None
    /\ recovery = None /\ recovered = None
    /\ appendLocked = FALSE /\ deletion = "idle" /\ error = FALSE /\ timer = FALSE
    /\ saver = "idle" /\ put = None
    /\ op = Free /\ phase = "none" /\ target = None
    /\ call = [p \in {"save", "op"} |-> None] /\ poll = None /\ late = {}
    /\ edits = 0 /\ others = 0 /\ faults = 0 /\ follows = 0

SaveLoop == PutSucceeds \/ PutFails \/ Verified \/ VerifyUnread

Operation ==
    \/ Flush \/ NotReady
    \/ BeginExport \/ ExportAnswered \/ ExportChecked
    \/ BeginDelete \/ DeleteAnswered \/ DeleteChecked
    \/ RecoverAnswered
    \/ FollowRead \/ FollowFlushed \/ FollowReread \/ AppendAnswered
    \/ FollowVerified

User ==
    \/ \E t \in Texts : Edit([content EXCEPT !.text = t])
    \/ Retry
    \/ StartFlushing("export") \/ StartCheckExport
    \/ StartFlushing("delete") \/ StartCheckDelete
    \/ StartFollow \/ AdvanceFollow
    \/ StartRecover

Next ==
    \/ User \/ TimerFires \/ SaveLoop \/ Operation
    \/ PollSend \/ PollReceived
    \/ \E p \in {"save", "op"} : Handle(p) \/ Lose(p)
    \/ HandleLate
    \/ Other

Spec == Init /\ [][Next]_vars

(* The event loop runs what is ready, a call is answered or times out, the *)
(* refresh goes on; users and other tabs need not do anything.             *)
Fairness ==
    /\ WF_vars(TimerFires) /\ WF_vars(SaveLoop) /\ WF_vars(Operation)
    /\ \A p \in {"save", "op"} : WF_vars(Handle(p))
    /\ WF_vars(PollSend) /\ WF_vars(PollReceived)

FairSpec == Spec /\ Fairness

-----------------------------------------------------------------------------
(* Properties.                                                             *)

(* What the page shows as saved was saved, although edits go on while a    *)
(* save is under way and an answer may be lost or belong to older input    *)
(* (docs/client/architecture.md line 67).  Another tab may have written a  *)
(* newer revision since.                                                   *)
SavedIsStored ==
    Saved /\ exportState # "exported" => stored[revision] = content

(* The revision the tab writes with and the content it takes for the basis *)
(* of that revision belong together: a lost answer, a retry or an append   *)
(* never lets it overwrite a revision it has not seen.                     *)
BasisIsStored == stored[revision] = baseline

(* What the page holds of the server's record is what is stored: both the  *)
(* input it shows as saved and the basis it writes on.                     *)
PageMatchesStore == SavedIsStored /\ BasisIsStored

(* At most one request is exported, and it carries what was saved as the   *)
(* newest revision at that moment, although an export that timed out may   *)
(* be carried out after the tab went on.                                   *)
ExportsWhatWasSaved ==
    /\ Len(requests) <= 1
    /\ \A i \in DOMAIN requests : stored[requests[i].revision] = requests[i].content

(* A follow-up action is appended once, however often the user retries it  *)
(* after lost or late answers.                                             *)
AppendedOnce == appended <= follows

(* Requests that get lost, arrive late or are sent again are carried out   *)
(* once, and on nothing but what the tab meant.                            *)
CarriedOutOnce == ExportsWhatWasSaved /\ AppendedOnce

(* Input that is not in the exported request stays within reach: on the    *)
(* page as retained input, or saved as a draft of its own, whichever reply *)
(* told the tab of the export.  (Once the user has saved retained input    *)
(* the tab takes all input up to that version for saved; after a stale     *)
(* append reply has reopened the draft this is not so, see                 *)
(* ExportedStaysReadOnly.)                                                 *)
InReach(c) == recovery = c \/ recovered = version \/ c = draft.content

InputKept == exportState = "exported" ~> InReach(content) \/ exportState # "exported"

(* Unsaved input is saved some day unless the page says why not.           *)
EditsSettle == version # confirmed ~> version = confirmed \/ error \/ ~Editable

(* An export or a deletion does not hang.                                  *)
OperationsEnd == Busy ~> ~Busy

(* Nothing hangs: an edit, a save or an operation comes to an end, joined, *)
(* failed or retried as it may be.                                         *)
PageSettles == EditsSettle /\ OperationsEnd

(* A draft whose export the tab knows of is read-only from then on         *)
(* (docs/client/plans.md line 20).                                         *)
ExportedStaysReadOnly ==
    [][exportState = "exported" => exportState' = "exported"]_vars

=============================================================================
