-------------------------- MODULE DraftSessionProofs --------------------------
(***************************************************************************)
(* What holds of one draft for any texts and any number of edits, writes   *)
(* of other tabs, lost and late calls, exports and follow-ups: the page    *)
(* tells the truth about the store, and requests are carried out once.     *)
(***************************************************************************)
EXTENDS DraftSession, SequenceTheorems, TLAPS

(* Revision r was saved with content c; saved revisions stay.              *)
Past(s, r, c) == r \in 1 .. Len(s) /\ s[r] = c
Extends(s, t) == \A r, c : Past(s, r, c) => Past(t, r, c)

Exported(s, q) == \E r, c : Past(s, r, c) /\ q = <<[revision |-> r, content |-> c]>>

ServerOK ==
  /\ draft \in Draft /\ stored \in Seq(Content)
  /\ Len(stored) = draft.revision /\ Past(stored, draft.revision, draft.content)
  /\ requests = <<>> \/ (draft.state = "exported" /\ Exported(stored, requests))

(* A write that the tab remembers: later input has a later version.        *)
Written(w) ==
  /\ w \in Write /\ w.version <= version
  /\ w.version = version => w.content = content

InputOK ==
  /\ content \in Content /\ version \in Nat
  /\ confirmed \in Nat /\ confirmed <= version
  /\ Past(stored, revision, baseline)
  /\ pending # None => Written(pending)
  /\ recovery # None => recovery \in Content
  /\ exportState # "exported" /\ confirmed = version => content = baseline

SaverOK ==
  /\ saver \in {"idle", "put", "check", "verify"}
  /\ saver # "idle" => Written(put)
  /\ saver = "put" =>
       /\ call["save"].request =
            [kind |-> "save", revision |-> put.revision, content |-> put.content]
       /\ call["save"].answer = "ok" => Past(stored, put.revision + 1, put.content)

(* Requests that may still be handled and answers that may still be read.  *)
Sent(s, r) == r \in Request /\ (r.kind = "export" => Past(s, r.revision, r.content))

CallOK(s, c) ==
  /\ c \in Calls
  /\ c.answer = "none" => Sent(s, c.request)
  /\ c.draft # None => Past(s, c.draft.revision, c.draft.content)

CallsOK ==
  /\ call \in [{"save", "op"} -> Calls \cup {None}]
  /\ \A p \in {"save", "op"} : call[p] # None => CallOK(stored, call[p])
  /\ \A r \in late : Sent(stored, r)

OpKinds == {"none", "export", "delete", "checkExport", "checkDelete", "follow", "recover"}
OpAts == {"", "flush", "ready", "call", "check", "read", "reread"}

OpOK ==
  /\ op \in [kind : OpKinds, at : OpAts]
  /\ At("follow", "call") /\ call["op"].answer = "ok" =>
       Past(stored, call["op"].draft.revision, call["op"].draft.content)

PageInv == ServerOK /\ InputOK /\ SaverOK /\ CallsOK /\ OpOK

Appending == {"appending", "unknown", "not_appended", "conflict"}
Live == phase \in Appending /\ target.revision = draft.revision
Waiting(r) ==
  r \in late \/ \E p \in {"save", "op"} :
                  call[p] # None /\ call[p].answer = "none" /\ r = call[p].request

(* Where an operation stands tells where its follow-up stands.             *)
OpFits ==
  /\ op.kind = "follow" /\ op.at \in {"read", "flush", "ready", "reread"} => phase = "target"
  /\ op.kind = "follow" /\ op.at \in {"call", "check"} => phase \in Appending

(* An append not yet handled fits the record only while it still belongs   *)
(* to the follow-up under way, which has then not been appended.           *)
AppendInv ==
  /\ OpFits
  /\ phase \in Appending => target.revision \in 1 .. draft.revision
  /\ appended \in Nat /\ follows \in Nat
  /\ appended + (IF phase = "target" \/ Live THEN 1 ELSE 0) <= follows
  /\ \A r : Waiting(r) /\ r.kind = "append" =>
       r.revision \in 1 .. draft.revision /\ (r.revision = draft.revision => Live)

-----------------------------------------------------------------------------
(* The server.                                                             *)
LEMMA PastContent ==
  ASSUME ServerOK, NEW r, NEW c, Past(stored, r, c)
  PROVE  r \in Nat /\ r >= 1 /\ r <= draft.revision /\ c \in Content
<1>1. stored \in Seq(Content) /\ Len(stored) = draft.revision /\ Len(stored) \in Nat
  BY DEF ServerOK
<1>2. QED
  BY <1>1, ElementOfSeq DEF Past

LEMMA StoreStep ==
  ASSUME stored \in Seq(Content), NEW c \in Content, stored' = Append(stored, c)
  PROVE  /\ stored' \in Seq(Content) /\ Len(stored') = Len(stored) + 1
         /\ Extends(stored, stored') /\ Past(stored', Len(stored) + 1, c)
<1>1. Len(stored) \in Nat
  OBVIOUS
<1>2. /\ stored' \in Seq(Content) /\ Len(stored') = Len(stored) + 1
      /\ \A i \in 1 .. Len(stored) : stored'[i] = stored[i]
      /\ stored'[Len(stored) + 1] = c
  BY AppendProperties
<1>3. QED
  BY <1>1, <1>2 DEF Extends, Past

LEMMA ExportedStays ==
  ASSUME NEW s, NEW t, NEW q, Extends(s, t), Exported(s, q)
  PROVE  Exported(t, q)
BY DEF Exported, Extends

(* Every transaction: what was saved stays, and the record is the last.    *)
ServerMoves ==
  /\ ServerOK' /\ Extends(stored, stored')
  /\ draft'.revision \in {draft.revision, draft.revision + 1}

LEMMA Idle ==
  ASSUME ServerOK, UNCHANGED <<draft, requests, stored>>
  PROVE  ServerMoves
BY DEF ServerOK, ServerMoves, Extends

LEMMA StoreMoves ==
  ASSUME ServerOK, draft.state = "open", NEW c \in Content, Store(c), UNCHANGED requests
  PROVE  ServerMoves /\ Past(stored', draft.revision + 1, c) /\ draft'.revision = draft.revision + 1
<1>1. /\ draft \in Draft /\ stored \in Seq(Content) /\ Len(stored) = draft.revision
      /\ requests = <<>>
  BY DEF ServerOK
<1>2. /\ draft' \in Draft /\ draft'.revision = draft.revision + 1 /\ draft'.content = c
  <2>1. draft' = [draft EXCEPT !.revision = draft.revision + 1, !.content = c]
    BY DEF Store
  <2>2. draft.revision + 1 \in Nat
    BY <1>1 DEF Draft
  <2>3. draft' \in Draft
    BY <1>1, <2>1, <2>2 DEF Draft
  <2>4. QED
    BY <1>1, <2>1, <2>3 DEF Draft
<1>3. stored' \in Seq(Content) /\ Len(stored') = draft.revision + 1
      /\ Extends(stored, stored') /\ Past(stored', draft.revision + 1, c)
  BY <1>1, StoreStep DEF Store
<1>4. QED
  BY <1>1, <1>2, <1>3 DEF ServerOK, ServerMoves

LEMMA ExportMoves ==
  ASSUME ServerOK, NEW r, r.revision = draft.revision, Past(stored, r.revision, r.content),
         exportDraft(r)
  PROVE  ServerMoves
<1>1. CASE UNCHANGED server
  BY <1>1, Idle DEF server
<1>2. CASE /\ Accepts(r)
           /\ requests' = Append(requests, [revision |-> draft.revision, content |-> r.content])
           /\ draft' = [state |-> "exported", revision |-> draft.revision + 1,
                        content |-> r.content]
           /\ stored' = Append(stored, r.content)
  <2>1. /\ draft \in Draft /\ stored \in Seq(Content) /\ Len(stored) = draft.revision
        /\ requests = <<>> /\ draft.revision \in Nat
    BY <1>2 DEF ServerOK, Accepts, Draft
  <2>2. r.content \in Content
    BY PastContent
  <2>3. /\ stored' \in Seq(Content) /\ Len(stored') = draft.revision + 1
        /\ Extends(stored, stored') /\ Past(stored', draft.revision + 1, r.content)
    BY <1>2, <2>1, <2>2, StoreStep
  <2>4. draft' \in Draft /\ draft'.state = "exported" /\ draft'.revision = draft.revision + 1
        /\ draft'.content = r.content
    BY <1>2, <2>1, <2>2 DEF Draft
  <2>5. Exported(stored', requests')
    <3>1. requests' = <<[revision |-> draft.revision, content |-> r.content]>>
      BY <1>2, <2>1
    <3>2. Past(stored', draft.revision, r.content)
      BY <2>3 DEF Extends
    <3>3. QED
      BY <3>1, <3>2 DEF Exported
  <2>6. QED
    BY <2>3, <2>4, <2>5 DEF ServerOK, ServerMoves
<1>3. QED
  BY <1>1, <1>2 DEF exportDraft

LEMMA DeleteMoves ==
  ASSUME ServerOK, NEW r, deleteDraft(r)
  PROVE  ServerMoves
<1>1. CASE UNCHANGED server
  BY <1>1, Idle DEF server
<1>2. CASE Accepts(r) /\ draft' = [draft EXCEPT !.state = "deleted"]
           /\ UNCHANGED <<requests, stored, appended>>
  <2>1. /\ draft' \in Draft /\ draft'.revision = draft.revision /\ draft'.content = draft.content
        /\ requests = <<>>
    BY <1>2 DEF ServerOK, Draft, Accepts
  <2>2. QED
    BY <1>2, <2>1 DEF ServerOK, ServerMoves, Extends
<1>3. QED
  BY <1>1, <1>2 DEF deleteDraft

LEMMA CarryMoves ==
  ASSUME ServerOK, NEW r, Sent(stored, r), Carry(r)
  PROVE  ServerMoves /\ (r.kind = "save" => Past(stored', r.revision + 1, r.content))
<1>1. r \in Request /\ r.revision \in Nat /\ r.content \in Content
  BY DEF Sent, Request
<1>2. CASE r.kind = "save" /\ saveDraft(r)
  BY <1>1, <1>2, StoreMoves DEF saveDraft, Accepts
<1>3. CASE r.kind = "append" /\ appendAction(r)
  <2>1. [draft.content EXCEPT !.actions = @ + 1] \in Content
    BY DEF ServerOK, Draft, Content
  <2>2. QED
    BY <1>3, <2>1, StoreMoves DEF appendAction, Accepts
<1>4. CASE r.kind = "export" /\ exportDraft(r)
  <2>1. CASE draft.state = "exported" /\ UNCHANGED server
    BY <1>4, <2>1, Idle DEF server
  <2>2. CASE Accepts(r)
    BY <1>4, <2>2, ExportMoves DEF Sent, Accepts
  <2>3. QED
    BY <1>4, <2>1, <2>2 DEF exportDraft
<1>5. CASE r.kind = "delete" /\ deleteDraft(r)
  BY <1>5, DeleteMoves
<1>6. CASE r.kind = "create" /\ createDraft(r)
  BY <1>6, Idle DEF createDraft, server
<1>7. QED
  BY <1>2, <1>3, <1>4, <1>5, <1>6 DEF Carry

-----------------------------------------------------------------------------
(* The tab, while the server moves on.                                     *)
LEMMA SentStays ==
  ASSUME NEW s, NEW t, Extends(s, t), NEW r, Sent(s, r)
  PROVE  Sent(t, r)
BY DEF Sent, Extends

LEMMA CallStays ==
  ASSUME NEW s, NEW t, Extends(s, t), NEW c, CallOK(s, c)
  PROVE  CallOK(t, c)
BY SentStays DEF CallOK, Extends

LEMMA InputStays ==
  ASSUME InputOK, Extends(stored, stored'),
         UNCHANGED <<written, exportState, recovery>>
  PROVE  InputOK'
BY DEF InputOK, Extends, written, Written

LEMMA SaverStays ==
  ASSUME SaverOK, Extends(stored, stored'), UNCHANGED <<saver, put, version, content>>,
         call'["save"] = call["save"]
  PROVE  SaverOK'
BY DEF SaverOK, Written, Extends

LEMMA ServerStep ==
  ASSUME PageInv, ServerMoves, late' \subseteq late,
         UNCHANGED <<written, exportState, recovery, saver, put, op, call>>
  PROVE  PageInv'
<1>1. InputOK' /\ SaverOK'
  BY InputStays, SaverStays DEF PageInv, ServerMoves, written
<1>2. CallsOK'
  BY CallStays, SentStays DEF PageInv, ServerMoves, CallsOK
<1>3. OpOK'
  BY DEF PageInv, ServerMoves, OpOK, At, Extends
<1>4. QED
  BY <1>1, <1>2, <1>3 DEF PageInv, ServerMoves

LEMMA HandleStep ==
  ASSUME PageInv, NEW p \in {"save", "op"}, Handle(p)
  PROVE  PageInv'
<1> DEFINE r == call[p].request
<1>1. /\ call[p] # None /\ call[p].answer = "none"
      /\ UNCHANGED <<written, exportState, recovery, saver, put, op, late>>
  BY DEF Handle, exporting, kept, saving
<1>2. call[p] \in Calls /\ CallOK(stored, call[p]) /\ Sent(stored, r)
      /\ call \in [{"save", "op"} -> Calls \cup {None}]
  BY <1>1 DEF PageInv, CallsOK, CallOK
<1>3. PICK a \in {"ok", "refused"}, d \in {draft', call[p].draft} :
        /\ call'[p] = [call[p] EXCEPT !.answer = a, !.draft = d]
        /\ \A q \in {"save", "op"} : q # p => call'[q] = call[q]
        /\ DOMAIN call' = {"save", "op"} /\ call' = [q \in {"save", "op"} |-> call'[q]]
        /\ a = "ok" => Carry(r) /\ d = draft'
        /\ a # "ok" => UNCHANGED server /\ d = call[p].draft
  <2>1. CASE Carry(r) /\ call' = [call EXCEPT ![p].answer = "ok", ![p].draft = draft']
    BY <1>2, <2>1
  <2>2. CASE Refuse(r) /\ call' = [call EXCEPT ![p].answer = "refused"]
    <3>1. call'[p] = [call[p] EXCEPT !.answer = "refused", !.draft = call[p].draft]
      BY <1>2, <2>2 DEF Calls
    <3>2. QED
      BY <1>2, <2>2, <3>1 DEF Refuse
  <2>3. QED
    BY <2>1, <2>2 DEF Handle
<1>4. ServerMoves /\ (a = "ok" /\ r.kind = "save" => Past(stored', r.revision + 1, r.content))
  BY <1>2, <1>3, CarryMoves, Idle DEF PageInv, server
<1>5. draft' \in Draft /\ Past(stored', draft'.revision, draft'.content)
      /\ ServerOK' /\ Extends(stored, stored')
  BY <1>4 DEF ServerMoves, ServerOK
<1>6. /\ call'[p] \in Calls /\ call'[p].answer = a /\ call'[p].draft = d
      /\ call'[p].request = r
  BY <1>2, <1>3, <1>5 DEF Calls, Answers
<1>7. CallOK(stored', call'[p])
  BY <1>2, <1>3, <1>5, <1>6 DEF CallOK, Extends
<1>8. CallsOK'
  <2>1. \A q \in {"save", "op"} : call'[q] # None => CallOK(stored', call'[q])
    BY <1>3, <1>5, <1>7, CallStays DEF PageInv, CallsOK
  <2>2. \A q \in {"save", "op"} : call'[q] \in Calls \cup {None}
    BY <1>2, <1>3, <1>6
  <2>3. \A x \in late' : Sent(stored', x)
    BY <1>1, <1>5, SentStays DEF PageInv, CallsOK
  <2>4. call' \in [{"save", "op"} -> Calls \cup {None}]
    BY <1>3, <2>2
  <2>5. QED
    BY <2>1, <2>3, <2>4 DEF CallsOK
<1>9. InputOK'
  BY <1>1, <1>5, InputStays DEF PageInv
<1>10. SaverOK'
  <2>1. CASE p = "op"
    BY <1>1, <1>3, <1>5, <2>1, SaverStays DEF PageInv, written
  <2>2. CASE p = "save"
    <3>1. saver = "put" =>
            r = [kind |-> "save", revision |-> put.revision, content |-> put.content]
      BY <2>2 DEF PageInv, SaverOK
    <3>2. saver = "put" /\ a = "ok" => Past(stored', put.revision + 1, put.content)
      BY <1>4, <3>1
    <3>3. QED
      BY <1>1, <1>6, <2>2, <3>1, <3>2 DEF PageInv, SaverOK, Written, written
  <2>3. QED
    BY <2>1, <2>2
<1>11. OpOK'
  <2>1. CASE p = "save"
    BY <1>1, <1>3, <1>5, <2>1 DEF PageInv, OpOK, At, Extends
  <2>2. CASE p = "op"
    BY <1>1, <1>3, <1>5, <1>6, <2>2 DEF PageInv, OpOK, At
  <2>3. QED
    BY <2>1, <2>2
<1>12. QED
  BY <1>5, <1>8, <1>9, <1>10, <1>11 DEF PageInv

LEMMA LoseStep ==
  ASSUME PageInv, NEW p \in {"save", "op"}, Lose(p)
  PROVE  PageInv'
<1>1. /\ call[p] # None /\ call' = [call EXCEPT ![p].answer = "lost", ![p].draft = None]
      /\ late' = late \/ (call[p].answer = "none" /\ late' = late \cup {call[p].request})
      /\ UNCHANGED <<server, written, exportState, recovery, saver, put, op>>
  BY DEF Lose, exporting, kept, saving
<1>2. call[p] \in Calls /\ CallOK(stored, call[p])
      /\ call \in [{"save", "op"} -> Calls \cup {None}]
  BY <1>1 DEF PageInv, CallsOK, CallOK
<1>3. /\ call'[p] \in Calls /\ call'[p].answer = "lost" /\ call'[p].draft = None
      /\ call'[p].request = call[p].request
      /\ \A q \in {"save", "op"} : q # p => call'[q] = call[q]
      /\ call' \in [{"save", "op"} -> Calls \cup {None}]
  <2>1. [call[p] EXCEPT !.answer = "lost", !.draft = None] \in Calls
    BY <1>2 DEF Calls, Answers
  <2>2. QED
    BY <1>1, <1>2, <2>1 DEF Calls
<1>4. CallsOK'
  <2>1. CallOK(stored, call'[p])
    BY <1>3 DEF CallOK
  <2>2. \A r \in late' : Sent(stored, r)
    BY <1>1, <1>2 DEF PageInv, CallsOK, CallOK
  <2>3. QED
    BY <1>1, <1>3, <2>1, <2>2 DEF PageInv, CallsOK, server
<1>5. ServerOK' /\ Extends(stored, stored')
  BY <1>1, Idle DEF PageInv, server, ServerMoves
<1>6. InputOK'
  BY <1>1, <1>5, InputStays DEF PageInv
<1>7. SaverOK'
  BY <1>1, <1>3 DEF PageInv, SaverOK, Written, written, server
<1>8. OpOK'
  BY <1>1, <1>3 DEF PageInv, OpOK, At, server
<1>9. QED
  BY <1>4, <1>5, <1>6, <1>7, <1>8 DEF PageInv

LEMMA HandleLateStep ==
  ASSUME PageInv, HandleLate
  PROVE  PageInv'
<1>1. PICK r \in late : (Carry(r) \/ Refuse(r)) /\ late' = late \ {r}
  BY DEF HandleLate
<1>2. ServerMoves
  BY <1>1, CarryMoves, Idle DEF PageInv, CallsOK, Refuse, server
<1>3. QED
  BY <1>1, <1>2, ServerStep DEF HandleLate, exporting, kept, saving

LEMMA OtherMoves ==
  ASSUME ServerOK, Other
  PROVE  ServerMoves
<1>1. draft.state = "open" /\ draft \in Draft
  BY DEF Other, ServerOK
<1>2. ASSUME NEW t \in Texts, Store([draft.content EXCEPT !.text = t]), UNCHANGED requests
      PROVE  ServerMoves
  <2>1. [draft.content EXCEPT !.text = t] \in Content
    BY <1>1 DEF Draft, Content
  <2>2. QED
    BY <1>1, <1>2, <2>1, StoreMoves
<1>3. CASE exportDraft([revision |-> draft.revision, content |-> draft.content])
  <2> DEFINE r == [revision |-> draft.revision, content |-> draft.content]
  <2>1. r.revision = draft.revision /\ Past(stored, r.revision, r.content)
    BY DEF ServerOK
  <2> HIDE DEF r
  <2>2. exportDraft(r)
    BY <1>3 DEF r
  <2>3. QED
    BY <2>1, <2>2, ExportMoves
<1>4. CASE deleteDraft([revision |-> draft.revision])
  BY <1>4, DeleteMoves
<1>5. QED
  BY <1>2, <1>3, <1>4 DEF Other

LEMMA OtherStep ==
  ASSUME PageInv, Other
  PROVE  PageInv'
<1>1. UNCHANGED <<written, exportState, recovery, saver, put, op, call, late>>
  BY DEF Other, tab, exporting, kept, saving
<1>2. QED
  BY <1>1, OtherMoves, ServerStep DEF PageInv

-----------------------------------------------------------------------------
(* The calls of the tab and the position of its operation.                 *)
LEMMA ReadOK == ASSUME ServerOK PROVE CallOK(stored, Read)
BY DEF ServerOK, CallOK, Read, Calls, Answers

LEMMA AskOK ==
  ASSUME NEW kind \in {"save", "export", "delete", "append", "create"}, NEW rev \in Nat,
         NEW c \in Content, kind = "export" => Past(stored, rev, c)
  PROVE  CallOK(stored, Ask(kind, rev, c)) /\ Ask(kind, rev, c).answer = "none"
BY DEF CallOK, Ask, Calls, Answers, Request, Sent

(* A step of an operation: its call and its position, and perhaps input.   *)
LEMMA OpStep ==
  ASSUME PageInv, InputOK', \A w : Written(w) => Written(w)',
         UNCHANGED <<draft, requests, stored, saver, put, late>>,
         op' \in [kind : OpKinds, at : OpAts],
         NEW c, c = None \/ CallOK(stored, c), call' = [call EXCEPT !["op"] = c],
         op' = [kind |-> "follow", at |-> "call"] => c.answer # "ok"
  PROVE  PageInv'
<1>1. /\ call' \in [{"save", "op"} -> Calls \cup {None}]
      /\ call'["op"] = c /\ call'["save"] = call["save"]
  BY DEF PageInv, CallsOK, CallOK
<1>2. CallsOK'
  BY <1>1 DEF PageInv, CallsOK
<1>3. SaverOK'
  BY <1>1 DEF PageInv, SaverOK
<1>4. OpOK'
  BY <1>1 DEF OpOK, At
<1>5. ServerOK'
  BY DEF PageInv, ServerOK
<1>6. QED
  BY <1>2, <1>3, <1>4, <1>5 DEF PageInv

LEMMA SameCalls ==
  ASSUME PageInv, call' = call
  PROVE  /\ call' = [call EXCEPT !["op"] = call["op"]]
         /\ call["op"] = None \/ CallOK(stored, call["op"])
BY DEF PageInv, CallsOK

(* The save loop.                                                          *)
LEMMA SaveStep ==
  ASSUME PageInv, InputOK', UNCHANGED <<draft, requests, stored, version, content, late>>,
         saver' \in {"idle", "put", "check", "verify"}, saver' # "idle" => Written(put'),
         NEW c, c = None \/ CallOK(stored, c), call' = [call EXCEPT !["save"] = c],
         saver' = "put" => c = Ask("save", put'.revision, put'.content),
         op' \in {op, Free, [op EXCEPT !.at = "ready"]}
  PROVE  PageInv'
<1>1. /\ call' \in [{"save", "op"} -> Calls \cup {None}]
      /\ call'["save"] = c /\ call'["op"] = call["op"]
  BY DEF PageInv, CallsOK, CallOK
<1>2. CallsOK'
  BY <1>1 DEF PageInv, CallsOK
<1>3. SaverOK'
  BY <1>1 DEF SaverOK, Ask, Written
<1>4. OpOK'
  <2>1. op' \in [kind : OpKinds, at : OpAts] /\ (At("follow", "call")' => op' = op)
    <3>1. op \in [kind : OpKinds, at : OpAts]
      BY DEF PageInv, OpOK
    <3>2. CASE op' = Free
      BY <3>2 DEF Free, OpKinds, OpAts, At
    <3>3. CASE op' = [op EXCEPT !.at = "ready"]
      BY <3>1, <3>3 DEF OpAts, At
    <3>4. QED
      BY <3>1, <3>2, <3>3
  <2>2. QED
    BY <1>1, <2>1 DEF PageInv, OpOK, At
<1>5. ServerOK'
  BY DEF PageInv, ServerOK
<1>6. QED
  BY <1>2, <1>3, <1>4, <1>5 DEF PageInv

FlushOutcomes == {op, Free, [op EXCEPT !.at = "ready"]}

LEMMA LoopStep ==
  ASSUME PageInv, NEW cv \in Nat, cv <= version, NEW rev, NEW base, Past(stored, rev, base),
         exportState # "exported" /\ cv = version => content = base, NEW err,
         Loop(cv, rev, base, err),
         UNCHANGED <<draft, requests, stored, version, content, exportState, recovery, late>>
  PROVE  PageInv'
<1>1. rev \in Nat /\ base \in Content /\ content \in Content /\ version \in Nat
  BY PastContent DEF PageInv, InputOK
<1>2. confirmed' = cv /\ revision' = rev /\ baseline' = base
  BY DEF Loop
<1>3. CASE /\ pending' = None /\ saver' = "idle" /\ (Flushed(TRUE) \/ Flushed(FALSE))
           /\ call' = [call EXCEPT !["save"] = None]
  <2>1. InputOK'
    BY <1>2, <1>3 DEF PageInv, InputOK, Written
  <2>2. op' \in FlushOutcomes
    BY <1>3 DEF Flushed, FlushOutcomes
  <2>3. QED
    BY <1>3, <2>1, <2>2, SaveStep DEF FlushOutcomes
<1>4. CASE /\ pending' = [revision |-> rev, content |-> content, version |-> version,
                          baseline |-> base]
           /\ put' = pending' /\ saver' = "put" /\ op' = op
           /\ call' = [call EXCEPT !["save"] = Ask("save", rev, content)]
  <2>1. Written(put')
    BY <1>1, <1>4 DEF Written, Write
  <2>2. Written(pending)'
    BY <1>4, <2>1 DEF Written
  <2>3. InputOK'
    BY <1>2, <2>2 DEF PageInv, InputOK
  <2>4. CallOK(stored, Ask("save", rev, content))
    BY <1>1, AskOK
  <2>5. put'.revision = rev /\ put'.content = content
    BY <1>4
  <2>6. QED
    BY <1>4, <2>1, <2>3, <2>4, <2>5, SaveStep
<1>5. QED
  BY <1>3, <1>4 DEF Loop

LEMMA StartLoopStep ==
  ASSUME PageInv, StartLoop,
         UNCHANGED <<draft, requests, stored, version, content, exportState, recovery, late>>
  PROVE  PageInv'
<1>1. CASE pending = None /\ Loop(confirmed, revision, baseline, FALSE)
  BY <1>1, LoopStep DEF PageInv, InputOK
<1>2. CASE /\ pending # None /\ saver' = "check" /\ put' = pending
           /\ call' = [call EXCEPT !["save"] = Read]
           /\ UNCHANGED <<confirmed, revision, baseline, pending, op>>
  <2>1. Written(put')
    BY <1>2 DEF PageInv, InputOK
  <2>2. InputOK'
    BY <1>2 DEF PageInv, InputOK, Written
  <2>3. QED
    BY <1>2, <2>1, <2>2, ReadOK, SaveStep DEF PageInv
<1>3. QED
  BY <1>1, <1>2 DEF StartLoop

LEMMA FailStep ==
  ASSUME PageInv, LoopFails, InputOK',
         UNCHANGED <<draft, requests, stored, version, content, late>>
  PROVE  PageInv'
<1>1. op' \in FlushOutcomes
  BY DEF LoopFails, Flushed, FlushOutcomes
<1>2. saver' = "idle" /\ call' = [call EXCEPT !["save"] = None]
  BY DEF LoopFails
<1>3. QED
  BY <1>1, <1>2, SaveStep DEF FlushOutcomes

(* What the page takes from a record it has read.                          *)
LEMMA ExportSeen ==
  ASSUME InputOK, NEW a, ObserveExported(a),
         UNCHANGED <<stored, content, revision, version, baseline>>
  PROVE  InputOK'
BY DEF InputOK, ObserveExported, Written

LEMMA ObserveStep ==
  ASSUME InputOK, NEW a, NEW token, Observe(a, token),
         UNCHANGED <<stored, content, revision, version, baseline>>
  PROVE  InputOK'
<1>1. CASE ObserveExported(a)
  BY <1>1, ExportSeen
<1>2. CASE /\ UNCHANGED <<recovery, recovered, confirmed, pending, timer, exportToken>>
           /\ exportState = "exported" => exportState' = "exported"
  BY <1>2 DEF InputOK, Written
<1>3. QED
  BY <1>1, <1>2 DEF Observe

LEMMA SaveLoopStep ==
  ASSUME PageInv, SaveLoop
  PROVE  PageInv'
<1>1. CASE PutSucceeds
  <2>1. /\ Written(put) /\ put.version \in Nat /\ put.version <= version
        /\ Past(stored, put.revision + 1, put.content)
        /\ put.version = version => content = put.content
    BY <1>1 DEF PageInv, SaverOK, PutSucceeds, Answered, Written, Write
  <2>2. /\ Loop(put.version, put.revision + 1, put.content, error)
        /\ UNCHANGED <<draft, requests, stored, version, content, exportState, recovery, late>>
    BY <1>1 DEF PutSucceeds, ReceiptVersion, ReceiptContent, server, exporting, kept
  <2>3. QED
    BY <2>1, <2>2, LoopStep
<1>2. CASE PutFails
  <2>1. /\ saver = "put" /\ saver' = "verify" /\ call' = [call EXCEPT !["save"] = Read]
        /\ UNCHANGED <<draft, requests, stored, version, content, exportState, recovery, late,
                       written, put, op>>
    BY <1>2 DEF PutFails, server, exporting, kept, written
  <2>2. InputOK'
    BY <2>1 DEF PageInv, InputOK, Written, written
  <2>3. Written(put')
    BY <2>1 DEF PageInv, SaverOK
  <2>4. QED
    BY <2>1, <2>2, <2>3, ReadOK, SaveStep DEF PageInv
<1>3. CASE Verified
  <2> DEFINE a == call["save"].draft
  <2>1. /\ saver \in {"check", "verify"} /\ a # None
        /\ UNCHANGED <<draft, requests, stored, version, content, late>>
    BY <1>3 DEF Verified, Found, server
  <2>2. /\ Written(put) /\ put.version \in Nat /\ put.version <= version
        /\ put.version = version => content = put.content
    BY <2>1 DEF PageInv, SaverOK, Written, Write
  <2>3. Past(stored, a.revision, a.content)
    BY <1>3 DEF PageInv, CallsOK, CallOK, Verified, Found, Answered
  <2>4. CASE WriteFound(a) /\ Loop(put.version, a.revision, a.content, error)
             /\ UNCHANGED <<exporting, kept, timer>>
    BY <2>1, <2>2, <2>3, <2>4, LoopStep DEF WriteFound, exporting, kept
  <2>5. CASE Loop(confirmed, revision, baseline, error) /\ UNCHANGED <<exporting, kept, timer>>
    BY <2>1, <2>5, LoopStep DEF PageInv, InputOK, exporting, kept
  <2>7. CASE LoopFails /\ ObserveExported(a)
    <3>1. InputOK'
      BY <2>1, <2>7, ExportSeen DEF PageInv, LoopFails
    <3>2. QED
      BY <2>1, <2>7, <3>1, FailStep
  <2>8. CASE LoopFails /\ pending' \in {None, pending} /\ UNCHANGED <<confirmed, exporting, kept>>
    <3>1. InputOK'
      BY <2>1, <2>8 DEF PageInv, InputOK, LoopFails, exporting, kept, Written
    <3>2. QED
      BY <2>1, <2>8, <3>1, FailStep
  <2>9. QED
    BY <1>3, <2>4, <2>5, <2>7, <2>8 DEF Verified
<1>4. CASE VerifyUnread
  <2>1. /\ LoopFails
        /\ UNCHANGED <<draft, requests, stored, version, content, late, confirmed, pending,
                       exportState, recovery>>
    BY <1>4 DEF VerifyUnread, server, exporting, kept
  <2>2. InputOK'
    BY <2>1 DEF PageInv, InputOK, LoopFails, Written
  <2>3. QED
    BY <2>1, <2>2, FailStep
<1>5. QED
  BY <1>1, <1>2, <1>3, <1>4 DEF SaveLoop

(* The flush of a timer, of the retry button or of an operation.           *)
LEMMA FlushStep ==
  ASSUME PageInv, TimerFires \/ Retry \/ Flush
  PROVE  PageInv'
<1>1. UNCHANGED <<draft, requests, stored, version, content, exportState, recovery, late>>
  BY DEF TimerFires, Retry, Flush, server, exporting, kept
<1>2. CASE StartLoop
  BY <1>1, <1>2, StartLoopStep
<1>3. CASE op' \in {op, Free} /\ UNCHANGED <<confirmed, revision, baseline, pending, saving, call>>
  <2>1. InputOK'
    BY <1>1, <1>3 DEF PageInv, InputOK, Written
  <2>2. op' \in [kind : OpKinds, at : OpAts]
    <3>1. op \in [kind : OpKinds, at : OpAts] /\ Free \in [kind : OpKinds, at : OpAts]
      BY DEF PageInv, OpOK, Free, OpKinds, OpAts
    <3>2. QED
      BY <1>3, <3>1
  <2>3. op' = [kind |-> "follow", at |-> "call"] => op' = op
    <3>1. Free.kind # "follow"
      BY DEF Free
    <3>2. QED
      BY <1>3, <3>1
  <2>4. SaverOK'
    BY <1>1, <1>3 DEF PageInv, SaverOK, Written, saving
  <2>5. CallsOK' /\ ServerOK'
    BY <1>1, <1>3 DEF PageInv, CallsOK, ServerOK
  <2>6. OpOK'
    BY <1>1, <1>3, <2>2, <2>3 DEF PageInv, OpOK, At
  <2>7. QED
    BY <2>1, <2>4, <2>5, <2>6 DEF PageInv
<1>4. QED
  BY <1>2, <1>3 DEF TimerFires, Retry, Flush, saving

-----------------------------------------------------------------------------
(* Operations.                                                             *)

(* The input and the saved basis do not change; a record known to be       *)
(* exported stays so.                                                      *)
InputSame ==
  /\ UNCHANGED <<stored, written, recovery>>
  /\ exportState = "exported" => exportState' = "exported"

LEMMA SameInput ==
  ASSUME InputOK, InputSame
  PROVE  InputOK' /\ \A w : Written(w) => Written(w)'
BY DEF InputOK, InputSame, Written, written

LEMMA OpKnown ==
  ASSUME OpOK
  PROVE  /\ op \in [kind : OpKinds, at : OpAts] /\ Free \in [kind : OpKinds, at : OpAts]
         /\ \A k \in OpKinds, t \in OpAts : [kind |-> k, at |-> t] \in [kind : OpKinds, at : OpAts]
         /\ \A t \in OpAts : [op EXCEPT !.at = t] = [kind |-> op.kind, at |-> t]
         /\ Free.kind = "none"
<1>1. op \in [kind : OpKinds, at : OpAts]
  BY DEF OpOK
<1>2. Free \in [kind : OpKinds, at : OpAts] /\ Free.kind = "none"
  BY DEF Free, OpKinds, OpAts
<1>3. \A t \in OpAts : [op EXCEPT !.at = t] = [kind |-> op.kind, at |-> t]
  BY <1>1
<1>4. QED
  BY <1>1, <1>2, <1>3

(* The operation begins, ends, reads or sends, and the input stays.        *)
LEMMA QuietStep ==
  ASSUME PageInv, InputSame, UNCHANGED <<draft, requests, saver, put, late>>,
         NEW kind \in OpKinds, NEW at \in OpAts, op' = [kind |-> kind, at |-> at],
         NEW c, c = None \/ CallOK(stored, c), call' = [call EXCEPT !["op"] = c],
         kind = "follow" /\ at = "call" => c.answer # "ok"
  PROVE  PageInv'
<1>1. InputOK' /\ \A w : Written(w) => Written(w)'
  BY SameInput DEF PageInv
<1>2. op' \in [kind : OpKinds, at : OpAts]
  OBVIOUS
<1>3. op' = [kind |-> "follow", at |-> "call"] => c.answer # "ok"
  OBVIOUS
<1>4. UNCHANGED stored
  BY DEF InputSame
<1>5. QED
  BY <1>1, <1>2, <1>3, <1>4, OpStep

(* An operation ends with what it has read.                                *)
LEMMA EndStep ==
  ASSUME PageInv, InputOK', EndOp,
         UNCHANGED <<draft, requests, stored, content, version, saver, put, late>>
  PROVE  PageInv'
<1>1. \A w : Written(w) => Written(w)'
  BY DEF Written
<1>2. op' \in [kind : OpKinds, at : OpAts] /\ op' # [kind |-> "follow", at |-> "call"]
  BY OpKnown DEF PageInv, EndOp, Free
<1>3. call' = [call EXCEPT !["op"] = None]
  BY DEF EndOp
<1>4. QED
  BY <1>1, <1>2, <1>3, OpStep

LEMMA SimpleEnd ==
  ASSUME PageInv, InputSame, EndOp, UNCHANGED <<draft, requests, saver, put, late>>
  PROVE  PageInv'
<1>1. InputOK'
  BY SameInput DEF PageInv
<1>2. QED
  BY <1>1, EndStep DEF InputSame, written

LEMMA SimpleRead ==
  ASSUME PageInv, InputSame, ReadOp, UNCHANGED <<draft, requests, saver, put, late>>,
         NEW kind \in OpKinds, NEW at \in OpAts, op' = [kind |-> kind, at |-> at], at # "call"
  PROVE  PageInv'
<1>1. CallOK(stored, Read)
  BY ReadOK DEF PageInv
<1>2. QED
  BY <1>1, QuietStep DEF ReadOp

LEMMA SimpleSend ==
  ASSUME PageInv, InputSame, UNCHANGED <<draft, requests, saver, put, late>>,
         NEW kind \in OpKinds, NEW at \in OpAts, op' = [kind |-> kind, at |-> at],
         NEW k \in {"export", "delete", "append", "create"}, NEW rev \in Nat, NEW c \in Content,
         k = "export" => Past(stored, rev, c), SendOp(k, rev, c)
  PROVE  PageInv'
<1>1. CallOK(stored, Ask(k, rev, c)) /\ Ask(k, rev, c).answer = "none"
  BY AskOK
<1>2. QED
  BY <1>1, QuietStep DEF SendOp

LEMMA BeginStep ==
  ASSUME PageInv,
         \/ StartFlushing("export") \/ StartFlushing("delete") \/ StartCheckExport
         \/ StartCheckDelete \/ StartFollow \/ AdvanceFollow \/ StartRecover
  PROVE  PageInv'
<1>1. InputSame /\ UNCHANGED <<draft, requests, saver, put, late>>
  BY DEF StartFlushing, StartCheckExport, StartCheckDelete, StartFollow, AdvanceFollow,
         StartRecover, tab, server, exporting, kept, saving, InputSame
<1>2. CASE StartFlushing("export") \/ StartFlushing("delete")
  <2>1. /\ call["op"] = None \/ CallOK(stored, call["op"])
        /\ call' = [call EXCEPT !["op"] = call["op"]]
    BY <1>2, SameCalls DEF StartFlushing
  <2>2. PICK k \in {"export", "delete"} : op' = [kind |-> k, at |-> "flush"]
    BY <1>2 DEF StartFlushing, Begin
  <2>3. k \in OpKinds /\ "flush" \in OpAts
    BY DEF OpKinds, OpAts
  <2>4. QED
    BY <1>1, <2>1, <2>2, <2>3, QuietStep
<1>3. CASE StartCheckExport \/ StartCheckDelete \/ StartFollow \/ AdvanceFollow
  <2>1. ReadOp
    BY <1>3 DEF StartCheckExport, StartCheckDelete, StartFollow, AdvanceFollow
  <2>2. PICK k \in OpKinds, t \in OpAts : t # "call" /\ op' = [kind |-> k, at |-> t]
    BY <1>3 DEF StartCheckExport, StartCheckDelete, StartFollow, AdvanceFollow, Begin,
                OpKinds, OpAts
  <2>3. QED
    BY <1>1, <2>1, <2>2, SimpleRead
<1>4. CASE StartRecover
  <2>1. recovery \in Content /\ SendOp("create", 0, recovery)
        /\ op' = [kind |-> "recover", at |-> "call"]
    BY <1>4 DEF StartRecover, Begin, PageInv, InputOK
  <2>2. "recover" \in OpKinds /\ "call" \in OpAts
    BY DEF OpKinds, OpAts
  <2>3. QED
    BY <1>1, <2>1, <2>2, SimpleSend
<1>5. QED
  BY <1>2, <1>3, <1>4

LEMMA ExportStep ==
  ASSUME PageInv, BeginExport \/ ExportAnswered \/ ExportChecked
  PROVE  PageInv'
<1>1. CASE BeginExport
  <2>1. /\ InputSame /\ UNCHANGED <<draft, requests, saver, put, late>>
        /\ SendOp("export", revision, content) /\ version = confirmed
        /\ exportState # "exported" /\ op' = [kind |-> "export", at |-> "call"]
    <3>1. op' = [kind |-> "export", at |-> "call"]
      BY <1>1, OpKnown DEF PageInv, BeginExport, GoTo, At, OpAts
    <3>2. QED
      BY <1>1, <3>1 DEF BeginExport, Editable, Saved, server, kept, saving, InputSame
  <2>2. Past(stored, revision, content)
    BY <2>1 DEF PageInv, InputOK
  <2>3. revision \in Nat /\ content \in Content
    BY <2>2, PastContent DEF PageInv
  <2>4. "export" \in OpKinds /\ "call" \in OpAts
    BY DEF OpKinds, OpAts
  <2>5. QED
    BY <2>1, <2>2, <2>3, <2>4, SimpleSend
<1>2. CASE ExportAnswered
  <2>1. InputSame /\ UNCHANGED <<draft, requests, saver, put, late>>
    BY <1>2 DEF ExportAnswered, server, kept, saving, InputSame
  <2>2. CASE EndOp
    BY <2>1, <2>2, SimpleEnd
  <2>3. CASE GoTo("check") /\ ReadOp
    <3>1. op' = [kind |-> "export", at |-> "check"] /\ "export" \in OpKinds /\ "check" \in OpAts
      BY <1>2, <2>3, OpKnown DEF PageInv, ExportAnswered, GoTo, At, OpAts, OpKinds
    <3>2. QED
      BY <2>1, <2>3, <3>1, SimpleRead
  <2>4. QED
    BY <1>2, <2>2, <2>3 DEF ExportAnswered
<1>3. CASE ExportChecked
  <2>1. /\ EndOp
        /\ UNCHANGED <<draft, requests, stored, content, revision, version, baseline, saver,
                       put, late>>
    BY <1>3 DEF ExportChecked, server, saving
  <2>2. InputOK'
    <3>1. CASE Observe(call["op"].draft, exportToken)
      BY <2>1, <3>1, ObserveStep DEF PageInv
    <3>2. CASE UNCHANGED <<confirmed, pending, exporting, kept, error, timer>>
      BY <2>1, <3>2 DEF PageInv, InputOK, Written, exporting, kept
    <3>3. QED
      BY <1>3, <3>1, <3>2 DEF ExportChecked
  <2>3. QED
    BY <2>1, <2>2, EndStep
<1>4. QED
  BY <1>1, <1>2, <1>3

LEMMA DeleteStep ==
  ASSUME PageInv, NotReady \/ BeginDelete \/ DeleteAnswered \/ DeleteChecked \/ RecoverAnswered
  PROVE  PageInv'
<1>1. CASE NotReady
  <2>1. InputSame /\ EndOp /\ UNCHANGED <<draft, requests, saver, put, late>>
    BY <1>1 DEF NotReady, tab, server, exporting, kept, saving, InputSame
  <2>2. QED
    BY <2>1, SimpleEnd
<1>2. CASE BeginDelete
  <2>1. /\ InputSame /\ UNCHANGED <<draft, requests, saver, put, late>>
        /\ SendOp("delete", revision, content)
    BY <1>2 DEF BeginDelete, server, exporting, kept, saving, InputSame
  <2>2. op' = [kind |-> "delete", at |-> "call"] /\ "delete" \in OpKinds /\ "call" \in OpAts
    BY <1>2, OpKnown DEF PageInv, BeginDelete, GoTo, At, OpAts, OpKinds
  <2>3. revision \in Nat /\ content \in Content
    BY PastContent DEF PageInv, InputOK
  <2>4. QED
    BY <2>1, <2>2, <2>3, SimpleSend
<1>3. CASE DeleteAnswered
  <2>1. InputSame /\ UNCHANGED <<draft, requests, saver, put, late>>
    BY <1>3 DEF DeleteAnswered, server, exporting, kept, saving, InputSame
  <2>2. CASE EndOp
    BY <2>1, <2>2, SimpleEnd
  <2>3. CASE GoTo("check") /\ ReadOp
    <3>1. op' = [kind |-> "delete", at |-> "check"] /\ "delete" \in OpKinds /\ "check" \in OpAts
      BY <1>3, <2>3, OpKnown DEF PageInv, DeleteAnswered, GoTo, At, OpAts, OpKinds
    <3>2. QED
      BY <2>1, <2>3, <3>1, SimpleRead
  <2>4. QED
    BY <1>3, <2>2, <2>3 DEF DeleteAnswered
<1>4. CASE DeleteChecked
  <2>1. /\ EndOp
        /\ UNCHANGED <<draft, requests, stored, content, revision, version, baseline, saver,
                       put, late>>
    BY <1>4 DEF DeleteChecked, server, saving
  <2>2. InputOK'
    <3>1. CASE ObserveExported(call["op"].draft)
      BY <2>1, <3>1, ExportSeen DEF PageInv
    <3>2. CASE UNCHANGED <<confirmed, pending, exporting, kept, timer>>
      BY <2>1, <3>2 DEF PageInv, InputOK, Written, exporting, kept
    <3>3. QED
      BY <1>4, <3>1, <3>2 DEF DeleteChecked
  <2>3. QED
    BY <2>1, <2>2, EndStep
<1>5. CASE RecoverAnswered
  <2>1. /\ EndOp
        /\ UNCHANGED <<draft, requests, stored, written, exportState, saver, put, late>>
    BY <1>5 DEF RecoverAnswered, server, exporting, saving
  <2>2. recovery' \in {None, recovery}
    BY <1>5 DEF RecoverAnswered, kept
  <2>3. InputOK'
    BY <2>1, <2>2 DEF PageInv, InputOK, Written, written
  <2>4. QED
    BY <2>1, <2>3, EndStep DEF written
<1>6. QED
  BY <1>1, <1>2, <1>3, <1>4, <1>5

(* The follow-up operation.  A page that accepts an append takes over a    *)
(* saved record.                                                           *)
LEMMA AcceptStep ==
  ASSUME PageInv, NEW a, Past(stored, a.revision, a.content), Accept(a),
         UNCHANGED <<draft, requests, stored, saver, put, late, recovery>>
  PROVE  PageInv'
<1>1. /\ content' = a.content /\ baseline' = a.content /\ revision' = a.revision
      /\ version' = version + 1 /\ confirmed' = version' /\ pending' = None
      /\ a.content \in Content /\ version \in Nat /\ EndOp
  BY PastContent DEF Accept, PageInv, InputOK
<1>2. InputOK'
  BY <1>1 DEF PageInv, InputOK
<1>3. ASSUME NEW w, Written(w) PROVE Written(w)'
  <2>1. w.version \in Nat /\ w.version <= version /\ w \in Write
    BY <1>3 DEF Written, Write
  <2>2. QED
    BY <1>1, <2>1 DEF Written
<1>4. op' = Free /\ call' = [call EXCEPT !["op"] = None]
  BY <1>1 DEF EndOp
<1>5. op' \in [kind : OpKinds, at : OpAts] /\ op' # [kind |-> "follow", at |-> "call"]
  BY <1>4, OpKnown DEF PageInv, Free
<1>6. QED
  BY <1>2, <1>3, <1>4, <1>5, OpStep

LEMMA ReadRecord ==
  ASSUME PageInv, Found("op")
  PROVE  /\ call["op"].draft \in Draft
         /\ Past(stored, call["op"].draft.revision, call["op"].draft.content)
         /\ call["op"].draft.revision \in Nat /\ call["op"].draft.content \in Content
<1>1. call["op"] # None /\ call["op"].draft # None
  BY DEF Found, Answered
<1>2. CallOK(stored, call["op"])
  BY <1>1 DEF PageInv, CallsOK
<1>3. QED
  BY <1>1, <1>2 DEF CallOK, Calls, Draft

LEMMA FollowStep ==
  ASSUME PageInv, FollowRead \/ FollowFlushed \/ FollowReread
  PROVE  PageInv'
<1>1. CASE FollowRead
  <2>1. UNCHANGED <<draft, requests, stored, content, revision, version, baseline, saver, put,
                    late>>
    BY <1>1 DEF FollowRead, server, saving
  <2>2. CASE /\ Observe(call["op"].draft, None) /\ GoTo("flush")
             /\ call' = [call EXCEPT !["op"] = None]
    <3>1. InputOK'
      BY <2>1, <2>2, ObserveStep DEF PageInv
    <3>2. \A w : Written(w) => Written(w)'
      BY <2>1 DEF Written
    <3>3. op' = [kind |-> "follow", at |-> "flush"]
      BY <1>1, <2>2, OpKnown DEF PageInv, FollowRead, GoTo, At, OpAts
    <3>4. /\ op' \in [kind : OpKinds, at : OpAts]
          /\ op' # [kind |-> "follow", at |-> "call"]
      BY <3>3 DEF OpKinds, OpAts
    <3>5. QED
      BY <2>1, <2>2, <3>1, <3>2, <3>4, OpStep
  <2>3. CASE EndOp /\ UNCHANGED <<confirmed, pending, exporting, kept, error, timer>>
    <3>1. InputOK'
      BY <2>1, <2>3 DEF PageInv, InputOK, Written, exporting, kept
    <3>2. QED
      BY <2>1, <2>3, <3>1, EndStep
  <2>4. QED
    BY <1>1, <2>2, <2>3 DEF FollowRead
<1>2. CASE FollowFlushed
  <2>1. /\ InputSame /\ UNCHANGED <<draft, requests, saver, put, late>> /\ ReadOp
    BY <1>2 DEF FollowFlushed, tab, server, exporting, kept, saving, InputSame
  <2>2. /\ op' = [kind |-> "follow", at |-> "reread"]
        /\ "follow" \in OpKinds /\ "reread" \in OpAts
    BY <1>2, OpKnown DEF PageInv, FollowFlushed, GoTo, At, OpAts, OpKinds
  <2>3. QED
    BY <2>1, <2>2, SimpleRead
<1>3. CASE FollowReread
  <2> DEFINE a == call["op"].draft
  <2>1. UNCHANGED <<draft, requests, stored, content, revision, version, baseline, saver, put,
                    late>>
    BY <1>3 DEF FollowReread, server, saving
  <2>2. CASE EndOp /\ UNCHANGED <<confirmed, pending, exporting, kept, error, timer>>
    <3>1. InputOK'
      BY <2>1, <2>2 DEF PageInv, InputOK, Written, exporting, kept
    <3>2. QED
      BY <2>1, <2>2, <3>1, EndStep
  <2>3. CASE EndOp /\ Observe(a, None)
    <3>1. InputOK'
      BY <2>1, <2>3, ObserveStep DEF PageInv
    <3>2. QED
      BY <2>1, <2>3, <3>1, EndStep
  <2>4. CASE /\ Found("op") /\ GoTo("call") /\ SendOp("append", a.revision, a.content)
             /\ UNCHANGED <<confirmed, pending, exporting, kept, error>>
    <3>1. a.revision \in Nat /\ a.content \in Content
      BY <2>4, ReadRecord
    <3>2. InputSame
      BY <2>1, <2>4 DEF InputSame, written, exporting, kept
    <3>3. /\ op' = [kind |-> "follow", at |-> "call"]
          /\ "follow" \in OpKinds /\ "call" \in OpAts
      BY <1>3, <2>4, OpKnown DEF PageInv, FollowReread, GoTo, At, OpAts, OpKinds
    <3> HIDE DEF a
    <3>4. SendOp("append", a.revision, a.content)
      BY <2>4
    <3>5. QED
      BY <2>1, <3>1, <3>2, <3>3, <3>4, SimpleSend
  <2>5. QED
    BY <1>3, <2>2, <2>3, <2>4 DEF FollowReread
<1>4. QED
  BY <1>1, <1>2, <1>3

LEMMA AppendStep ==
  ASSUME PageInv, AppendAnswered \/ FollowVerified
  PROVE  PageInv'
<1> DEFINE a == call["op"].draft
<1>1. UNCHANGED <<draft, requests, stored, saver, put, late, recovery>>
  BY DEF AppendAnswered, FollowVerified, server, saving, kept
<1>2. CASE Accept(a) /\ Past(stored, a.revision, a.content)
  BY <1>1, <1>2, AcceptStep
<1>3. CASE AppendAnswered
  <2>1. CASE Answered("op", "ok") /\ AppendFound(a) /\ Accept(a)
    BY <1>2, <1>3, <2>1 DEF PageInv, OpOK, AppendAnswered, Answered
  <2>2. CASE GoTo("check") /\ ReadOp /\ UNCHANGED <<written, exporting>>
    <3>1. /\ op' = [kind |-> "follow", at |-> "check"]
          /\ "follow" \in OpKinds /\ "check" \in OpAts
      BY <1>3, <2>2, OpKnown DEF PageInv, AppendAnswered, GoTo, At, OpAts, OpKinds
    <3>2. InputSame
      BY <1>1, <2>2 DEF InputSame, exporting
    <3>3. QED
      BY <1>1, <2>2, <3>1, <3>2, SimpleRead
  <2>3. QED
    BY <1>3, <2>1, <2>2 DEF AppendAnswered
<1>4. CASE FollowVerified
  <2>1. CASE Found("op") /\ Accept(a)
    BY <1>2, <2>1, ReadRecord
  <2>2. CASE /\ Found("op") /\ AtBaseline(a) /\ GoTo("call")
             /\ SendOp("append", target.revision, target.content)
             /\ UNCHANGED <<written, exporting>>
    <3>1. target.revision \in Nat /\ target.content \in Content
      BY <2>2, ReadRecord DEF AtBaseline
    <3>2. InputSame
      BY <1>1, <2>2 DEF InputSame, exporting
    <3>3. /\ op' = [kind |-> "follow", at |-> "call"]
          /\ "follow" \in OpKinds /\ "call" \in OpAts
      BY <1>4, <2>2, OpKnown DEF PageInv, FollowVerified, GoTo, At, OpAts, OpKinds
    <3>4. QED
      BY <1>1, <2>2, <3>1, <3>2, <3>3, SimpleSend
  <2>3. CASE EndOp /\ UNCHANGED <<written, exporting>>
    <3>1. InputSame
      BY <1>1, <2>3 DEF InputSame, exporting
    <3>2. QED
      BY <1>1, <2>3, <3>1, SimpleEnd
  <2>4. QED
    BY <1>4, <2>1, <2>2, <2>3 DEF FollowVerified
<1>5. QED
  BY <1>3, <1>4

-----------------------------------------------------------------------------
(* Edits and the refresh.                                                  *)
LEMMA LocalStep ==
  ASSUME PageInv, InputOK', \A w : Written(w) => Written(w)',
         UNCHANGED <<draft, requests, stored, saver, put, late, op, call>>
  PROVE  PageInv'
<1>1. SaverOK' /\ CallsOK' /\ OpOK' /\ ServerOK'
  BY DEF PageInv, SaverOK, CallsOK, OpOK, At, ServerOK
<1>2. QED
  BY <1>1 DEF PageInv

LEMMA EditStep ==
  ASSUME PageInv, NEW c \in Content, Edit(c)
  PROVE  PageInv'
<1>1. /\ content' = c /\ version' = version + 1
      /\ UNCHANGED <<draft, requests, stored, confirmed, revision, baseline, pending, recovery,
                     exportState, saver, put, late, op, call>>
  BY DEF Edit, server, exporting, kept, saving
<1>2. ASSUME NEW w, Written(w) PROVE Written(w)'
  <2>1. w.version \in Nat /\ w.version <= version /\ w \in Write /\ version \in Nat
    BY <1>2 DEF Written, Write, PageInv, InputOK
  <2>2. QED
    BY <1>1, <2>1 DEF Written
<1>3. version \in Nat /\ confirmed \in Nat /\ confirmed <= version
  BY DEF PageInv, InputOK
<1>4. InputOK'
  BY <1>1, <1>2, <1>3 DEF PageInv, InputOK
<1>5. QED
  BY <1>1, <1>2, <1>4, LocalStep

LEMMA PollStep ==
  ASSUME PageInv, PollSend \/ PollReceived
  PROVE  PageInv'
<1>1. UNCHANGED <<draft, requests, stored, content, revision, version, baseline, saver, put, late,
                  op, call>>
  BY DEF PollSend, PollReceived, server, written, saving
<1>2. \A w : Written(w) => Written(w)'
  BY <1>1 DEF Written
<1>3. CASE PollSend
  <2>1. UNCHANGED <<confirmed, pending, recovery, exportState>>
    BY <1>3 DEF PollSend, written, exporting, kept
  <2>2. InputOK'
    BY <1>1, <2>1 DEF PageInv, InputOK, Written
  <2>3. QED
    BY <1>1, <1>2, <2>2, LocalStep
<1>4. CASE PollReceived
  <2>1. Observe(poll.draft, poll.token)
    BY <1>4 DEF PollReceived
  <2>2. InputOK'
    BY <1>1, <2>1, ObserveStep DEF PageInv
  <2>3. QED
    BY <1>1, <1>2, <2>2, LocalStep
<1>5. QED
  BY <1>3, <1>4

LEMMA PageInit == Init => PageInv
<1> DEFINE first == [text |-> FirstText, actions |-> 0]
<1> SUFFICES ASSUME Init PROVE PageInv
  OBVIOUS
<1>1. first \in Content
  BY TextsAssumption DEF Content
<1>2. /\ draft = [state |-> "open", revision |-> 1, content |-> first]
      /\ requests = <<>> /\ stored = <<first>> /\ content = first /\ baseline = first
      /\ revision = 1 /\ version = 0 /\ confirmed = 0 /\ pending = None
      /\ recovery = None /\ saver = "idle" /\ op = Free
      /\ call = [p \in {"save", "op"} |-> None] /\ late = {}
  BY DEF Init
<1> HIDE DEF first
<1>3. stored \in Seq(Content) /\ Len(stored) = 1 /\ stored[1] = first
  BY <1>1, <1>2
<1>4. ServerOK
  BY <1>1, <1>2, <1>3 DEF ServerOK, Draft, Past
<1>5. InputOK
  BY <1>1, <1>2, <1>3 DEF InputOK, Past
<1>6. SaverOK
  BY <1>2 DEF SaverOK
<1>7. CallsOK
  BY <1>2 DEF CallsOK
<1>8. OpOK
  BY <1>2 DEF OpOK, OpKinds, OpAts, Free, At
<1>9. QED
  BY <1>4, <1>5, <1>6, <1>7, <1>8 DEF PageInv

LEMMA PageStep == PageInv /\ [Next]_vars => PageInv'
<1> SUFFICES ASSUME PageInv, [Next]_vars PROVE PageInv'
  OBVIOUS
<1>1. CASE User
  <2>1. ASSUME NEW t \in Texts, Edit([content EXCEPT !.text = t]) PROVE PageInv'
    <3>1. [content EXCEPT !.text = t] \in Content
      BY DEF PageInv, InputOK, Content
    <3>2. QED
      BY <2>1, <3>1, EditStep
  <2>2. QED
    BY <1>1, <2>1, FlushStep, BeginStep DEF User
<1>2. CASE TimerFires
  BY <1>2, FlushStep
<1>3. CASE SaveLoop
  BY <1>3, SaveLoopStep
<1>4. CASE Operation
  BY <1>4, FlushStep, ExportStep, DeleteStep, FollowStep, AppendStep DEF Operation
<1>5. CASE PollSend \/ PollReceived
  BY <1>5, PollStep
<1>6. CASE \E p \in {"save", "op"} : Handle(p) \/ Lose(p)
  BY <1>6, HandleStep, LoseStep
<1>7. CASE HandleLate
  BY <1>7, HandleLateStep
<1>8. CASE Other
  BY <1>8, OtherStep
<1>9. CASE UNCHANGED vars
  <2>1. UNCHANGED <<draft, requests, stored, written, exportState, recovery, saver, put, op, call,
                    late>>
    BY <1>9 DEF vars, server, exporting, kept, saving
  <2>2. ServerMoves
    BY <2>1, Idle DEF PageInv
  <2>3. QED
    BY <2>1, <2>2, ServerStep
<1>10. QED
  BY <1>1, <1>2, <1>3, <1>4, <1>5, <1>6, <1>7, <1>8, <1>9 DEF Next

(* What the page knows of the store is true in every reachable state.      *)
THEOREM PageInvariant == Spec => []PageInv
BY PageInit, PageStep, PTL DEF Spec

(* What the page shows as saved was saved under the revision it names, and *)
(* the basis it writes on is the record of that revision, whatever is      *)
(* lost, late, or written by another tab.                                  *)
THEOREM PageTellsTheTruth == Spec => []PageMatchesStore
<1>1. PageInv => PageMatchesStore
  BY DEF PageInv, InputOK, Past, PageMatchesStore, SavedIsStored, BasisIsStored, Saved
<1>2. QED
  BY <1>1, PageInvariant, PTL

(* One request at most is exported, and it carries the revision saved last *)
(* before it, although an export given up as lost may be handled late.     *)
THEOREM OnlyTheSavedIsExported == Spec => []ExportsWhatWasSaved
<1>1. ASSUME NEW r, NEW c, Past(stored, r, c), requests = <<[revision |-> r, content |-> c]>>
      PROVE  ExportsWhatWasSaved
  <2>1. Len(requests) = 1 /\ DOMAIN requests = {1} /\ requests[1].revision = r
        /\ requests[1].content = c
    BY <1>1
  <2>2. QED
    BY <1>1, <2>1 DEF ExportsWhatWasSaved, Past
<1>2. requests = <<>> => ExportsWhatWasSaved
  BY DEF ExportsWhatWasSaved
<1>3. PageInv => ExportsWhatWasSaved
  BY <1>1, <1>2 DEF PageInv, ServerOK, Exported
<1>4. QED
  BY <1>3, PageInvariant, PTL

-----------------------------------------------------------------------------
(* Appends.                                                                *)
AppendsSame == \A r : r.kind = "append" /\ Waiting(r)' => Waiting(r)

LEMMA CallReplaced ==
  ASSUME CallsOK, NEW p \in {"save", "op"}, NEW c, call' = [call EXCEPT ![p] = c], late' = late,
         c = None \/ c.answer # "none" \/ c.request.kind # "append"
  PROVE  AppendsSame
<1>1. call'[p] = c /\ \A q \in {"save", "op"} : q # p => call'[q] = call[q]
  BY DEF CallsOK
<1>2. QED
  BY <1>1 DEF AppendsSame, Waiting

LEMMA ReadAsks == Read.answer # "none"
BY DEF Read

LEMMA AskAsks ==
  ASSUME NEW kind, kind # "append", NEW rev, NEW c
  PROVE  Ask(kind, rev, c).request.kind # "append"
BY DEF Ask

LEMMA FitsStay ==
  ASSUME OpOK, OpFits, UNCHANGED phase,
         \/ op' \in {op, Free}
         \/ op.at = "flush" /\ op' = [op EXCEPT !.at = "ready"]
  PROVE  OpFits'
<1>1. CASE op' = op
  BY <1>1 DEF OpFits
<1>2. CASE op' = Free
  BY <1>2 DEF OpFits, Free
<1>3. CASE op.at = "flush" /\ op' = [op EXCEPT !.at = "ready"]
  <2>1. op'.kind = op.kind /\ op'.at = "ready"
    BY <1>3 DEF OpOK
  <2>2. QED
    BY <1>3, <2>1 DEF OpFits
<1>4. QED
  BY <1>1, <1>2, <1>3

LEMMA KeptAppends ==
  ASSUME AppendInv, OpFits', AppendsSame, UNCHANGED <<draft, appended, follows, phase, target>>
  PROVE  AppendInv'
BY DEF AppendInv, AppendsSame, Live

LEMMA ServerAppends ==
  ASSUME ServerOK, ServerMoves, AppendInv, AppendsSame, UNCHANGED <<op, phase, target, follows>>,
         \/ appended' = appended
         \/ appended' = appended + 1 /\ Live /\ draft'.revision = draft.revision + 1
  PROVE  AppendInv'
<1>1. draft.revision \in Nat /\ draft'.revision \in {draft.revision, draft.revision + 1}
  BY DEF ServerOK, ServerMoves, Draft
<1>2. OpFits'
  BY DEF AppendInv, OpFits
<1>3. phase \in Appending => target.revision \in 1 .. draft.revision
  BY DEF AppendInv
<1>4. phase' \in Appending => target'.revision \in 1 .. draft'.revision
  BY <1>1, <1>3
<1>5. Live' => Live /\ draft'.revision = draft.revision
  BY <1>1, <1>3 DEF Live
<1>6. Live => phase # "target"
  BY DEF Live, Appending
<1>7. appended' \in Nat /\ appended' + (IF phase' = "target" \/ Live' THEN 1 ELSE 0) <= follows'
  <2>1. CASE appended' = appended
    BY <1>5, <2>1 DEF AppendInv
  <2>2. CASE appended' = appended + 1 /\ Live /\ draft'.revision = draft.revision + 1
    <3>1. ~Live' /\ phase' # "target"
      BY <1>1, <1>5, <1>6, <2>2
    <3>2. QED
      BY <2>2, <3>1 DEF AppendInv
  <2>3. QED
    BY <2>1, <2>2
<1>8. ASSUME NEW r, Waiting(r)', r.kind = "append"
      PROVE  r.revision \in 1 .. draft'.revision /\ (r.revision = draft'.revision => Live')
  <2>1. r.revision \in 1 .. draft.revision /\ (r.revision = draft.revision => Live)
    BY <1>8 DEF AppendsSame, AppendInv
  <2>2. draft'.revision = draft.revision => Live' = Live
    BY DEF Live
  <2>3. QED
    BY <1>1, <2>1, <2>2
<1>9. QED
  BY <1>2, <1>7, <1>8, <1>4 DEF AppendInv

LEMMA CarryAppends ==
  ASSUME ServerOK, AppendInv, NEW r, Waiting(r), Carry(r)
  PROVE  \/ appended' = appended
         \/ appended' = appended + 1 /\ Live /\ draft'.revision = draft.revision + 1
<1>1. CASE r.kind = "append" /\ appendAction(r)
  <2>1. r.revision = draft.revision
    BY <1>1 DEF appendAction, Accepts
  <2>2. Live
    BY <1>1, <2>1 DEF AppendInv
  <2>3. draft'.revision = draft.revision + 1
    BY <1>1 DEF appendAction, Store, ServerOK, Draft
  <2>4. QED
    BY <1>1, <2>2, <2>3 DEF appendAction
<1>2. QED
  BY <1>1 DEF Carry, saveDraft, exportDraft, deleteDraft, createDraft, server

(* The server handles a request, at once or late, or serves another tab.   *)
LEMMA HandleAppends ==
  ASSUME PageInv, AppendInv, NEW p \in {"save", "op"}, Handle(p)
  PROVE  AppendInv'
<1> DEFINE r == call[p].request
<1>1. /\ call[p] # None /\ call[p].answer = "none" /\ CallOK(stored, call[p]) /\ late' = late
      /\ call \in [{"save", "op"} -> Calls \cup {None}]
      /\ UNCHANGED <<op, phase, target, follows>>
  BY DEF Handle, PageInv, CallsOK, following, bounds
<1>2. call[p] \in Calls /\ Sent(stored, r) /\ Waiting(r)
  BY <1>1 DEF CallOK, Waiting
<1>3. /\ call'[p].answer \in {"ok", "refused"}
      /\ \A q \in {"save", "op"} : q # p => call'[q] = call[q]
  BY <1>1, <1>2 DEF Handle, Calls
<1>4. AppendsSame
  BY <1>1, <1>3 DEF AppendsSame, Waiting
<1>5. ServerMoves /\ (\/ appended' = appended
                      \/ appended' = appended + 1 /\ Live /\ draft'.revision = draft.revision + 1)
  <2>1. CASE Carry(r)
    BY <1>2, <2>1, CarryMoves, CarryAppends DEF PageInv
  <2>2. CASE Refuse(r)
    BY <2>2, Idle DEF PageInv, Refuse, server
  <2>3. QED
    BY <2>1, <2>2 DEF Handle
<1>6. QED
  BY <1>1, <1>4, <1>5, ServerAppends DEF PageInv

LEMMA LateAppends ==
  ASSUME PageInv, AppendInv, HandleLate
  PROVE  AppendInv'
<1>1. PICK r \in late : (Carry(r) \/ Refuse(r)) /\ late' = late \ {r}
  BY DEF HandleLate
<1>2. Waiting(r) /\ Sent(stored, r) /\ UNCHANGED <<op, phase, target, follows, call>>
  BY DEF HandleLate, Waiting, PageInv, CallsOK, following, bounds
<1>3. AppendsSame
  BY <1>1, <1>2 DEF AppendsSame, Waiting
<1>4. ServerMoves /\ (\/ appended' = appended
                      \/ appended' = appended + 1 /\ Live /\ draft'.revision = draft.revision + 1)
  <2>1. CASE Carry(r)
    BY <1>2, <2>1, CarryMoves, CarryAppends DEF PageInv
  <2>2. CASE Refuse(r)
    BY <2>2, Idle DEF PageInv, Refuse, server
  <2>3. QED
    BY <1>1, <2>1, <2>2
<1>5. QED
  BY <1>2, <1>3, <1>4, ServerAppends DEF PageInv

LEMMA OtherAppends ==
  ASSUME PageInv, AppendInv, Other
  PROVE  AppendInv'
<1>1. UNCHANGED <<appended, op, phase, target, follows, call, late>>
  BY DEF Other, tab, following, exportDraft, deleteDraft, server
<1>2. AppendsSame
  BY <1>1 DEF AppendsSame, Waiting
<1>3. QED
  BY <1>1, <1>2, OtherMoves, ServerAppends DEF PageInv

LEMMA LoseAppends ==
  ASSUME PageInv, AppendInv, NEW p \in {"save", "op"}, Lose(p)
  PROVE  AppendInv'
<1>1. /\ call[p] # None /\ call' = [call EXCEPT ![p].answer = "lost", ![p].draft = None]
      /\ late' = late \/ (call[p].answer = "none" /\ late' = late \cup {call[p].request})
      /\ UNCHANGED <<draft, appended, op, phase, target, follows>>
  BY DEF Lose, server, following
<1>2. call[p] \in Calls /\ call \in [{"save", "op"} -> Calls \cup {None}]
  BY <1>1 DEF PageInv, CallsOK, CallOK
<1>3. /\ call'[p].answer = "lost"
      /\ \A q \in {"save", "op"} : q # p => call'[q] = call[q]
  BY <1>1, <1>2 DEF Calls
<1>4. AppendsSame
  BY <1>1, <1>3 DEF AppendsSame, Waiting
<1>5. OpFits'
  BY <1>1 DEF AppendInv, OpFits
<1>6. QED
  BY <1>1, <1>4, <1>5, KeptAppends

(* The save loop.                                                          *)
LEMMA SaveAppends ==
  ASSUME PageInv, AppendInv, UNCHANGED <<draft, appended, follows, phase, target, late>>,
         \/ op' \in {op, Free}
         \/ op.at = "flush" /\ op' = [op EXCEPT !.at = "ready"],
         NEW c, call' = [call EXCEPT !["save"] = c],
         c = None \/ c.answer # "none" \/ c.request.kind # "append"
  PROVE  AppendInv'
<1>1. OpFits'
  BY FitsStay DEF PageInv, AppendInv
<1>2. AppendsSame
  BY CallReplaced DEF PageInv
<1>3. QED
  BY <1>1, <1>2, KeptAppends

LEMMA LoopAppends ==
  ASSUME PageInv, AppendInv, UNCHANGED <<draft, appended, follows, phase, target, late>>,
         \/ \E cv, rev, base, err : Loop(cv, rev, base, err)
         \/ LoopFails
         \/ StartLoop
         \/ op' = op /\ call' = [call EXCEPT !["save"] = Read]
  PROVE  AppendInv'
<1>1. ASSUME Flushed(TRUE) \/ Flushed(FALSE), call' = [call EXCEPT !["save"] = None]
      PROVE  AppendInv'
  <2>1. op' \in {op, Free} \/ (op.at = "flush" /\ op' = [op EXCEPT !.at = "ready"])
    BY <1>1 DEF Flushed
  <2>2. QED
    BY <1>1, <2>1, SaveAppends
<1>2. ASSUME op' = op, call' = [call EXCEPT !["save"] = Read]
      PROVE  AppendInv'
  BY <1>2, ReadAsks, SaveAppends
<1>3. ASSUME NEW cv, NEW rev, NEW base, NEW err, Loop(cv, rev, base, err)
      PROVE  AppendInv'
  <2>1. CASE op' = op /\ call' = [call EXCEPT !["save"] = Ask("save", rev, content)]
    <3>1. Ask("save", rev, content).request.kind # "append"
      BY AskAsks
    <3>2. QED
      BY <2>1, <3>1, SaveAppends
  <2>2. QED
    BY <1>1, <1>3, <2>1 DEF Loop
<1>4. CASE StartLoop
  BY <1>2, <1>3, <1>4 DEF StartLoop
<1>5. CASE LoopFails
  BY <1>1, <1>5 DEF LoopFails
<1>6. QED
  BY <1>2, <1>3, <1>4, <1>5

LEMMA SaverAppends ==
  ASSUME PageInv, AppendInv, SaveLoop \/ TimerFires \/ Retry \/ Flush
  PROVE  AppendInv'
<1>1. UNCHANGED <<draft, appended, follows, phase, target, late>>
  BY DEF SaveLoop, PutSucceeds, PutFails, Verified, VerifyUnread, TimerFires, Retry, Flush, server,
         following, bounds
<1>2. CASE \/ \E cv, rev, base, err : Loop(cv, rev, base, err)
           \/ LoopFails
           \/ StartLoop
           \/ op' = op /\ call' = [call EXCEPT !["save"] = Read]
  BY <1>1, <1>2, LoopAppends
<1>3. CASE op' \in {op, Free} /\ call' = call
  <2>1. OpFits'
    BY <1>1, <1>3, FitsStay DEF PageInv, AppendInv
  <2>2. AppendsSame
    BY <1>1, <1>3 DEF AppendsSame, Waiting
  <2>3. QED
    BY <1>1, <2>1, <2>2, KeptAppends
<1>4. CASE TimerFires \/ Retry \/ Flush
  BY <1>2, <1>3, <1>4 DEF TimerFires, Retry, Flush
<1>5. CASE PutSucceeds
  BY <1>2, <1>5 DEF PutSucceeds
<1>6. CASE PutFails
  BY <1>2, <1>6 DEF PutFails
<1>7. CASE Verified
  BY <1>2, <1>7 DEF Verified
<1>8. CASE VerifyUnread
  BY <1>2, <1>8 DEF VerifyUnread
<1>9. QED
  BY <1>4, <1>5, <1>6, <1>7, <1>8 DEF SaveLoop

(* Operations that neither begin nor end a follow-up.                      *)
LEMMA OpAppends ==
  ASSUME PageInv, AppendInv, OpFits', UNCHANGED <<draft, appended, follows, phase, target, late>>,
         NEW c, call' = [call EXCEPT !["op"] = c],
         c = None \/ c.answer # "none" \/ c.request.kind # "append"
  PROVE  AppendInv'
<1>1. AppendsSame
  BY CallReplaced DEF PageInv
<1>2. QED
  BY <1>1, KeptAppends

LEMMA NotFollowFits ==
  ASSUME op'.kind # "follow"
  PROVE  OpFits'
BY DEF OpFits

LEMMA EndAppends ==
  ASSUME PageInv, AppendInv, UNCHANGED <<draft, appended, follows, phase, target, late>>, EndOp
  PROVE  AppendInv'
<1>1. op'.kind # "follow" /\ call' = [call EXCEPT !["op"] = None]
  BY DEF EndOp, Free
<1>2. OpFits'
  BY <1>1, NotFollowFits
<1>3. QED
  BY <1>1, <1>2, OpAppends

LEMMA ReadAppends ==
  ASSUME PageInv, AppendInv, UNCHANGED <<draft, appended, follows, phase, target, late>>,
         OpFits', ReadOp
  PROVE  AppendInv'
BY ReadAsks, OpAppends DEF ReadOp

LEMMA PlainAppends ==
  ASSUME PageInv, AppendInv,
         \/ StartFlushing("export") \/ StartFlushing("delete") \/ StartCheckExport
         \/ StartCheckDelete \/ StartRecover
         \/ NotReady \/ BeginExport \/ ExportAnswered \/ ExportChecked
         \/ BeginDelete \/ DeleteAnswered \/ DeleteChecked \/ RecoverAnswered
  PROVE  AppendInv'
<1>1. UNCHANGED <<draft, appended, follows, phase, target, late>>
  BY DEF StartFlushing, StartCheckExport, StartCheckDelete, StartRecover, NotReady, BeginExport,
         ExportAnswered, ExportChecked, BeginDelete, DeleteAnswered, DeleteChecked,
         RecoverAnswered, server, tab, following, bounds
<1>2. op \in [kind : OpKinds, at : OpAts]
  BY DEF PageInv, OpOK
<1>3. CASE StartFlushing("export") \/ StartFlushing("delete")
  <2>1. op'.kind # "follow" /\ call' = call
    BY <1>3 DEF StartFlushing, Begin
  <2>2. OpFits' /\ AppendsSame
    BY <1>1, <2>1, NotFollowFits DEF AppendsSame, Waiting
  <2>3. QED
    BY <1>1, <2>2, KeptAppends
<1>4. CASE StartCheckExport \/ StartCheckDelete
  <2>1. op'.kind # "follow" /\ ReadOp
    BY <1>4 DEF StartCheckExport, StartCheckDelete, Begin
  <2>2. QED
    BY <1>1, <2>1, NotFollowFits, ReadAppends
<1>5. CASE EndOp
  BY <1>1, <1>5, EndAppends
<1>6. ASSUME GoTo("check"), ReadOp, op.kind # "follow" PROVE AppendInv'
  <2>1. op'.kind = op.kind
    BY <1>2, <1>6 DEF GoTo
  <2>2. QED
    BY <1>1, <1>6, <2>1, NotFollowFits, ReadAppends
<1>7. ASSUME op'.kind # "follow",
             NEW k \in {"export", "delete", "create"}, NEW rev, NEW c, SendOp(k, rev, c)
      PROVE  AppendInv'
  <2>1. Ask(k, rev, c).request.kind # "append"
    BY AskAsks
  <2>2. call' = [call EXCEPT !["op"] = Ask(k, rev, c)]
    BY <1>7 DEF SendOp
  <2>3. OpFits'
    BY <1>7, NotFollowFits
  <2>4. QED
    BY <1>1, <2>1, <2>2, <2>3, OpAppends
<1>8. CASE StartRecover
  <2>1. op'.kind # "follow" /\ SendOp("create", 0, recovery)
    BY <1>8 DEF StartRecover, Begin
  <2>2. QED
    BY <1>7, <2>1
<1>9. CASE BeginExport
  <2>1. op'.kind # "follow" /\ SendOp("export", revision, content)
    BY <1>2, <1>9 DEF BeginExport, At, GoTo
  <2>2. QED
    BY <1>7, <2>1
<1>10. CASE BeginDelete
  <2>1. op'.kind # "follow" /\ SendOp("delete", revision, content)
    BY <1>2, <1>10 DEF BeginDelete, At, GoTo
  <2>2. QED
    BY <1>7, <2>1
<1>11. CASE ExportAnswered
  BY <1>5, <1>6, <1>11 DEF ExportAnswered, At
<1>12. CASE DeleteAnswered
  BY <1>5, <1>6, <1>12 DEF DeleteAnswered, At
<1>13. CASE NotReady \/ ExportChecked \/ DeleteChecked \/ RecoverAnswered
  BY <1>5, <1>13 DEF NotReady, ExportChecked, DeleteChecked, RecoverAnswered
<1>14. QED
  BY <1>3, <1>4, <1>8, <1>9, <1>10, <1>11, <1>12, <1>13

LEMMA LocalAppends ==
  ASSUME AppendInv,
         UNCHANGED <<draft, appended, follows, phase, target, late, op, call>>
  PROVE  AppendInv'
<1>1. OpFits' /\ AppendsSame
  BY DEF AppendInv, OpFits, AppendsSame, Waiting
<1>2. QED
  BY <1>1, KeptAppends

(* A follow-up begins: one more append is owed.                            *)
LEMMA StartAppends ==
  ASSUME PageInv, AppendInv, StartFollow \/ AdvanceFollow
  PROVE  AppendInv'
<1>1. CASE StartFollow
  <2>1. /\ phase = "none" /\ phase' = "target" /\ follows' = follows + 1 /\ ReadOp
        /\ op' = [kind |-> "follow", at |-> "read"]
        /\ UNCHANGED <<draft, appended, target, late>>
    BY <1>1 DEF StartFollow, Begin, server
  <2>2. ~Live /\ ~Live' /\ phase' \notin Appending
    BY <2>1 DEF Live, Appending
  <2>3. OpFits'
    BY <2>1 DEF OpFits
  <2>4. AppendsSame
    BY <2>1, ReadAsks, CallReplaced DEF PageInv, ReadOp
  <2>5. appended' \in Nat /\ follows' \in Nat /\ appended' + 1 <= follows'
    BY <2>1, <2>2 DEF AppendInv
  <2>6. ASSUME NEW r, Waiting(r)', r.kind = "append"
        PROVE  r.revision \in 1 .. draft'.revision /\ r.revision # draft'.revision
    BY <2>1, <2>2, <2>4, <2>6 DEF AppendsSame, AppendInv
  <2>7. QED
    BY <2>1, <2>2, <2>3, <2>5, <2>6 DEF AppendInv
<1>2. CASE AdvanceFollow
  <2>1. /\ ReadOp /\ UNCHANGED <<draft, appended, follows, phase, target, late>>
        /\ \/ phase = "target" /\ op' = [kind |-> "follow", at |-> "read"]
           \/ phase \in Appending /\ op' = [kind |-> "follow", at |-> "check"]
    BY <1>2 DEF AdvanceFollow, Begin, Appending, tab, server, following, bounds
  <2>2. OpFits'
    BY <2>1 DEF OpFits
  <2>3. QED
    BY <2>1, <2>2, ReadAppends
<1>3. QED
  BY <1>1, <1>2

(* An append is sent, on the record just read.                             *)
LEMMA SendAppends ==
  ASSUME PageInv, AppendInv, NEW rev \in 1 .. draft.revision, NEW c,
         SendOp("append", rev, c), UNCHANGED <<draft, appended, follows, late>>,
         op' = [kind |-> "follow", at |-> "call"],
         phase' \in Appending, target'.revision = rev,
         phase = "target" \/ (phase \in Appending /\ target.revision = rev)
  PROVE  AppendInv'
<1>1. OpFits'
  BY DEF OpFits
<1>2. Live' <=> rev = draft.revision
  BY DEF Live
<1>3. phase' # "target"
  BY DEF Appending
<1>4. appended' + (IF phase' = "target" \/ Live' THEN 1 ELSE 0) <= follows'
  <2>1. Live' => phase = "target" \/ Live
    BY <1>2 DEF Live
  <2>2. appended \in Nat /\ follows \in Nat
        /\ appended + (IF phase = "target" \/ Live THEN 1 ELSE 0) <= follows
    BY DEF AppendInv
  <2>3. QED
    BY <1>3, <2>1, <2>2
<1>5. ASSUME NEW r, Waiting(r)', r.kind = "append"
      PROVE  r.revision \in 1 .. draft'.revision /\ (r.revision = draft'.revision => Live')
  <2>1. call'["op"] = Ask("append", rev, c) /\ call'["save"] = call["save"]
    BY DEF SendOp, PageInv, CallsOK
  <2>2. r = Ask("append", rev, c).request \/ Waiting(r)
    BY <1>5, <2>1 DEF Waiting
  <2>3. CASE r = Ask("append", rev, c).request
    BY <1>2, <2>3 DEF Ask
  <2>4. CASE Waiting(r)
    <3>1. r.revision \in 1 .. draft.revision /\ (r.revision = draft.revision => Live)
      BY <1>5, <2>4 DEF AppendInv
    <3>2. Live => Live'
      BY <1>2 DEF Live, Appending
    <3>3. QED
      BY <3>1, <3>2
  <2>5. QED
    BY <2>2, <2>3, <2>4
<1>6. QED
  BY <1>1, <1>4, <1>5 DEF AppendInv

(* The page has found its append in the record: it is no longer owed, and  *)
(* none that still waits fits the record.                                  *)
LEMMA AcceptAppends ==
  ASSUME PageInv, AppendInv, phase \in Appending, NEW a, a.revision = target.revision + 1,
         Past(stored, a.revision, a.content), Accept(a),
         UNCHANGED <<draft, appended, follows, late>>
  PROVE  AppendInv'
<1>1. /\ phase' = "none" /\ op' = Free /\ call' = [call EXCEPT !["op"] = None]
  BY DEF Accept, EndOp
<1>2. target.revision \in 1 .. draft.revision /\ target.revision + 1 <= draft.revision
      /\ draft.revision \in Nat
  BY PastContent DEF PageInv, AppendInv, ServerOK, Draft
<1>3. ~Live /\ ~Live' /\ phase' \notin Appending /\ phase' # "target"
  BY <1>1, <1>2 DEF Live, Appending
<1>4. OpFits'
  BY <1>1, NotFollowFits DEF Free
<1>5. AppendsSame
  BY <1>1, CallReplaced DEF PageInv
<1>6. appended' \in Nat /\ follows' \in Nat /\ appended' <= follows'
  BY DEF AppendInv
<1>7. ASSUME NEW r, Waiting(r)', r.kind = "append"
      PROVE  r.revision \in 1 .. draft'.revision /\ r.revision # draft'.revision
  BY <1>3, <1>5, <1>7 DEF AppendsSame, AppendInv
<1>8. QED
  BY <1>3, <1>4, <1>6, <1>7 DEF AppendInv

LEMMA FollowAppends ==
  ASSUME PageInv, AppendInv, FollowRead \/ FollowFlushed \/ FollowReread
  PROVE  AppendInv'
<1>1. op \in [kind : OpKinds, at : OpAts]
  BY DEF PageInv, OpOK
<1>2. phase = "target"
  BY DEF AppendInv, OpFits, FollowRead, FollowFlushed, FollowReread, At
<1>3. UNCHANGED <<draft, appended, follows, late>>
  BY DEF FollowRead, FollowFlushed, FollowReread, server, bounds
<1>4. CASE FollowRead
  <2>1. UNCHANGED <<phase, target>>
    BY <1>4 DEF FollowRead, following
  <2>2. CASE GoTo("flush") /\ call' = [call EXCEPT !["op"] = None]
    <3>1. op'.at = "flush"
      BY <1>1, <2>2 DEF GoTo
    <3>2. OpFits'
      BY <1>2, <2>1, <3>1 DEF OpFits
    <3>3. QED
      BY <1>3, <2>1, <2>2, <3>2, OpAppends
  <2>3. CASE EndOp
    BY <1>3, <2>1, <2>3, EndAppends
  <2>4. QED
    BY <1>4, <2>2, <2>3 DEF FollowRead
<1>5. CASE FollowFlushed
  <2>1. UNCHANGED <<phase, target>> /\ ReadOp
    BY <1>5 DEF FollowFlushed, tab, following
  <2>2. op'.at = "reread"
    BY <1>1, <1>5 DEF FollowFlushed, GoTo
  <2>3. OpFits'
    BY <1>2, <2>1, <2>2 DEF OpFits
  <2>4. QED
    BY <1>3, <2>1, <2>3, ReadAppends
<1>6. CASE FollowReread
  <2> DEFINE a == call["op"].draft
  <2>1. CASE EndOp /\ UNCHANGED following
    BY <1>3, <2>1, EndAppends DEF following
  <2>2. CASE /\ Found("op") /\ target' = a /\ phase' = "appending"
             /\ GoTo("call") /\ SendOp("append", a.revision, a.content)
    <3>1. a.revision \in 1 .. draft.revision
      BY <2>2, ReadRecord, PastContent DEF PageInv
    <3>2. op' = [kind |-> "follow", at |-> "call"]
      BY <1>6, <2>2, OpKnown DEF PageInv, FollowReread, GoTo, At, OpAts
    <3>3. phase' \in Appending /\ target'.revision = a.revision
      BY <2>2 DEF Appending
    <3> HIDE DEF a
    <3>4. SendOp("append", a.revision, a.content)
      BY <2>2
    <3>5. QED
      BY <1>2, <1>3, <3>1, <3>2, <3>3, <3>4, SendAppends
  <2>3. QED
    BY <1>6, <2>1, <2>2 DEF FollowReread
<1>7. QED
  BY <1>4, <1>5, <1>6

LEMMA VerifyAppends ==
  ASSUME PageInv, AppendInv, AppendAnswered \/ FollowVerified
  PROVE  AppendInv'
<1> DEFINE a == call["op"].draft
<1>1. op \in [kind : OpKinds, at : OpAts]
  BY DEF PageInv, OpOK
<1>2. phase \in Appending
  BY DEF AppendInv, OpFits, AppendAnswered, FollowVerified, At
<1>3. UNCHANGED <<draft, appended, follows, late>>
  BY DEF AppendAnswered, FollowVerified, server, bounds
<1>4. CASE AppendFound(a) /\ Accept(a) /\ Past(stored, a.revision, a.content)
  BY <1>2, <1>3, <1>4, AcceptAppends DEF AppendFound
<1>5. CASE AppendAnswered
  <2>1. CASE Answered("op", "ok") /\ AppendFound(a) /\ Accept(a)
    BY <1>4, <1>5, <2>1 DEF PageInv, OpOK, AppendAnswered, Answered
  <2>2. CASE GoTo("check") /\ ReadOp /\ UNCHANGED following
    <3>1. op'.at = "check"
      BY <1>1, <2>2 DEF GoTo
    <3>2. OpFits'
      BY <1>2, <2>2, <3>1 DEF OpFits, following
    <3>3. QED
      BY <1>3, <2>2, <3>2, ReadAppends DEF following
  <2>3. QED
    BY <1>5, <2>1, <2>2 DEF AppendAnswered
<1>6. CASE FollowVerified
  <2>1. CASE Found("op") /\ AppendFound(a) /\ Accept(a)
    BY <1>4, <2>1, ReadRecord
  <2>2. CASE /\ phase' = "appending" /\ GoTo("call") /\ UNCHANGED target
             /\ SendOp("append", target.revision, target.content)
    <3>1. target.revision \in 1 .. draft.revision
      BY <1>2 DEF AppendInv
    <3>2. op' = [kind |-> "follow", at |-> "call"]
      BY <1>6, <2>2, OpKnown DEF PageInv, FollowVerified, GoTo, At, OpAts
    <3>3. phase' \in Appending /\ target'.revision = target.revision
      BY <2>2 DEF Appending
    <3>4. QED
      BY <1>2, <1>3, <2>2, <3>1, <3>2, <3>3, SendAppends
  <2>3. CASE /\ phase' \in {"unknown", "not_appended", "conflict"} /\ EndOp
             /\ UNCHANGED target
    <3>1. call' = [call EXCEPT !["op"] = None] /\ op'.kind # "follow"
      BY <2>3 DEF EndOp, Free
    <3>2. AppendsSame /\ OpFits'
      BY <1>3, <3>1, CallReplaced, NotFollowFits DEF PageInv
    <3>3. /\ phase' \in Appending /\ Live' = Live
          /\ phase' # "target" /\ phase # "target"
      BY <1>2, <1>3, <2>3 DEF Live, Appending
    <3>4. QED
      BY <1>2, <1>3, <2>3, <3>2, <3>3 DEF AppendInv, AppendsSame
  <2>4. QED
    BY <1>6, <2>1, <2>2, <2>3 DEF FollowVerified
<1>7. QED
  BY <1>5, <1>6

LEMMA AppendInit == Init => AppendInv
<1> SUFFICES ASSUME Init PROVE AppendInv
  OBVIOUS
<1>1. /\ phase = "none" /\ op = Free /\ appended = 0 /\ follows = 0
      /\ call["save"] = None /\ call["op"] = None /\ late = {}
  BY DEF Init
<1>2. phase \notin Appending /\ ~Live
  BY <1>1 DEF Live, Appending
<1>3. OpFits /\ \A r : ~Waiting(r)
  BY <1>1 DEF OpFits, Free, Waiting
<1>4. QED
  BY <1>1, <1>2, <1>3 DEF AppendInv

LEMMA AppendsStep == PageInv /\ AppendInv /\ [Next]_vars => AppendInv'
<1> SUFFICES ASSUME PageInv, AppendInv, [Next]_vars PROVE AppendInv'
  OBVIOUS
<1>1. CASE UNCHANGED <<draft, appended, follows, phase, target, late, op, call>>
  BY <1>1, LocalAppends
<1>2. CASE User
  <2>1. ASSUME NEW c, Edit(c) PROVE AppendInv'
    BY <1>1, <2>1 DEF Edit, server, following
  <2>2. QED
    BY <1>2, <2>1, SaverAppends, PlainAppends, StartAppends DEF User
<1>3. CASE TimerFires \/ SaveLoop
  BY <1>3, SaverAppends
<1>4. CASE Operation
  BY <1>4, SaverAppends, PlainAppends, FollowAppends, VerifyAppends DEF Operation
<1>5. CASE PollSend \/ PollReceived
  BY <1>1, <1>5 DEF PollSend, PollReceived, server, following, bounds
<1>6. CASE \E p \in {"save", "op"} : Handle(p) \/ Lose(p)
  BY <1>6, HandleAppends, LoseAppends
<1>7. CASE HandleLate
  BY <1>7, LateAppends
<1>8. CASE Other
  BY <1>8, OtherAppends
<1>9. CASE UNCHANGED vars
  BY <1>1, <1>9 DEF vars, server, following, bounds
<1>10. QED
  BY <1>2, <1>3, <1>4, <1>5, <1>6, <1>7, <1>8, <1>9 DEF Next

(* However often a user retries after lost or late answers, a follow-up is *)
(* appended at most once, and what is exported is what was saved.          *)
THEOREM RequestsAreCarriedOutOnce == Spec => []CarriedOutOnce
<1>1. PageInv /\ AppendInv => AppendedOnce
  BY DEF AppendInv, AppendedOnce
<1>2. Spec => []AppendedOnce
  BY <1>1, PageInvariant, AppendInit, AppendsStep, PTL DEF Spec
<1>3. QED
  BY <1>2, OnlyTheSavedIsExported, PTL DEF CarriedOutOnce
=============================================================================
