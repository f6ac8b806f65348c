----------------------------- MODULE ReportMerge -----------------------------
(***************************************************************************)
(* The rules of apps/client/src/domain/reports.ts: when a status report is *)
(* consistent with itself, when it is consistent with what the client has  *)
(* already accepted, and what state results from merging it.               *)
(*                                                                         *)
(* A report (from, to] nests plans, actions, outputs and deliveries; here  *)
(* each kind is a function from identity to the entity's own fields, with  *)
(* the identity of its parent as one more field, which is how indexReport  *)
(* flattens it.  An optional field is a set of at most one value, so "once *)
(* known it stays" reads old \subseteq new.  The fields are those of the   *)
(* client's own declaration of the format, status-report.generated.ts.     *)
(* Wording, names, dates and fields no rule compares are left out.         *)
(***************************************************************************)
EXTENDS Integers, Sequences, TLC

CONSTANT SchemaId  \* what the schema in force wants report_id to be: "number",
                   \* like the client's own types, or "text"

Cameras == {"camera_take_photo", "camera_timelapse", "camera_record"}
Terminal(status) == status \notin {"pending", "running"}
Stages == <<"pending", "preparing", "prepared", "publishing", "published",
            "withdrawn">>
Complete == {"prepared", "publishing", "published", "withdrawn"}
Unfinished == {"pending", "preparing", "prepared", "publishing"}

\* What the parts of a result say, empty while there is no result.
Failures(a) == UNION {x.failures : x \in a.result}
Recordings(a) == UNION {x.recording : x \in a.result}
Copies(a) == UNION {x.copy : x \in a.result}
Items(a) == [x \in UNION {DOMAIN r.items : r \in a.result} |->
               (CHOOSE r \in a.result : TRUE).items[x]]

\* Every stop flow of a report with the recording it belongs to.
Flows(r) ==
  UNION {UNION {
      {[id |-> f, parent |-> a, kind |-> "followup", own |-> g.followup[f]]
         : f \in DOMAIN g.followup}
      \union
      {[id |-> f, parent |-> a, kind |-> "emergency", own |-> g.emergency[f]]
         : f \in DOMAIN g.emergency} : g \in Recordings(r.actions[a])}
    : a \in {x \in DOMAIN r.actions : r.actions[x].type = "camera_record"}}

------------------------------------------------------------------------------
(* One report by itself. *)

attempts(values, maximum) ==
  /\ Len(values) <= maximum
  /\ \A i \in DOMAIN values : values[i].no = i
  /\ \A i \in DOMAIN values : values[i].status = "running" => i = Len(values)

copyFacts(c) ==
  /\ attempts(c.reads, c.budget.reads)
  /\ c.recopies <= c.budget.recopies /\ c.round = c.recopies + 1
  /\ \A n \in c.source : c.committed <= n

\* Identities name one thing each; requests, sequence numbers, action names in
\* a plan, file names and the triggers of one recording are not shared either.
indexReport(r) ==
  /\ \A p, q \in DOMAIN r.plans : p # q =>
       /\ r.plans[p].request # r.plans[q].request
       /\ r.plans[p].seq # r.plans[q].seq
  /\ \A a, b \in DOMAIN r.actions :
       (a # b /\ r.actions[a].plan = r.actions[b].plan)
         => r.actions[a].name # r.actions[b].name
  /\ \A f, g \in Flows(r) : f.id = g.id => f = g
  /\ \A f, g \in {x \in Flows(r) : x.kind = "followup"} :
       (f # g /\ f.parent = g.parent) => f.own.trigger # g.own.trigger
  /\ \A o \in DOMAIN r.outputs : r.outputs[o].source = r.outputs[o].parent
  /\ \A d, e \in DOMAIN r.deliveries : d # e =>
       r.deliveries[d].file # r.deliveries[e].file

\* What a retrieval asked for covers what it reports on.
selected(r, a, source, output) ==
  LET asked == r.actions[a].input IN
  /\ asked.source # {}
  /\ \A s \in asked.source :
       /\ \A x \in s.action : source = x
       /\ source \in DOMAIN r.actions =>
            LET known == r.actions[source]
                plan == s.plan \union (IF s.plan = {} THEN {r.actions[a].plan} ELSE {})
            IN /\ known.type \in Cameras
               /\ \A n \in s.name : known.plan = r.actions[a].plan /\ known.name = n
               /\ \A g \in s.group : known.plan \in plan /\ known.group = {g}
  /\ \A o \in output, list \in asked.outputs : \E k \in DOMAIN list : list[k] = o

FlowLinks(r, flows) ==
  \A f \in {x \in flows : x.kind = "followup"} :
    /\ f.own.trigger # f.parent
    /\ f.own.trigger \in DOMAIN r.actions =>
         /\ r.actions[f.own.trigger].type \in Cameras
         /\ r.actions[f.own.trigger].device = r.actions[f.parent].device

OutputLinks(r) ==
  \A o \in DOMAIN r.outputs : \A s \in r.outputs[o].derived :
    /\ s # o
    /\ s \in DOMAIN r.outputs =>
         /\ r.outputs[s].kind = "original"
         /\ r.outputs[s].source = r.outputs[o].source

DeliveryLinks(r) ==
  \A d \in DOMAIN r.deliveries :
    LET x == r.deliveries[d] IN
    /\ x.parent \in DOMAIN r.actions
    /\ r.actions[x.parent].type = "obtain_action_outputs"
    /\ selected(r, x.parent, x.source, {x.output})
    /\ x.source \in DOMAIN r.actions => r.actions[x.source].type \in Cameras
    /\ x.output \in DOMAIN r.outputs =>
         LET o == r.outputs[x.output] IN
         /\ o.source = x.source
         /\ \A m \in x.size, n \in o.size : m = n
         /\ \A m \in x.sha, n \in o.sha : m = n

FailureFacts(r) ==
  \A a \in {x \in DOMAIN r.actions : r.actions[x].type = "obtain_action_outputs"} :
    /\ \A f, g \in Failures(r.actions[a]) :
         (f.source = g.source /\ f.output = g.output /\ f.delivery = g.delivery) => f = g
    /\ \A f \in Failures(r.actions[a]) :
         /\ selected(r, a, f.source, f.output)
         /\ \A o \in f.output \intersect DOMAIN r.outputs : r.outputs[o].source = f.source
         /\ \A d \in f.delivery \intersect DOMAIN r.deliveries :
              LET x == r.deliveries[d]
              IN x.parent = a /\ f.output = {x.output} /\ x.source = f.source

CancelLinks(r) ==
  \A a \in {x \in DOMAIN r.actions : r.actions[x].type = "cancel_task"} :
    \A b \in DOMAIN Items(r.actions[a]) :
      /\ r.actions[a].input.target # {}
      /\ \A t \in r.actions[a].input.target :
           /\ \A x \in t.action : x = b
           /\ b \in DOMAIN r.actions =>
                LET known == r.actions[b] IN
                /\ \A p \in t.plan : p = known.plan
                /\ \A g \in t.group :
                     known.group = {g} /\ known.type # "obtain_action_outputs"
                /\ known.plan \in DOMAIN r.plans =>
                     \A q \in t.request : q = r.plans[known.plan].request
      /\ \A d \in DOMAIN Items(r.actions[a])[b].withdrawals :
           d \in DOMAIN r.deliveries => r.deliveries[d].parent = b

associations(r, flows) ==
  /\ FlowLinks(r, flows) /\ OutputLinks(r) /\ DeliveryLinks(r)
  /\ FailureFacts(r) /\ CancelLinks(r)

\* The results as of one boundary agree with the deliveries as of another.
failureLinks(results, resultWm, others, deliveryWm) ==
  \A a \in {x \in DOMAIN results.actions :
              results.actions[x].type = "obtain_action_outputs"} :
    LET failures == Failures(results.actions[a]) IN
    /\ \A f \in failures : \A d \in f.delivery \intersect DOMAIN others.deliveries :
         LET x == others.deliveries[d] IN
         IF x.status = "failed" THEN x.error = {f.error}
         ELSE x.status \in Unfinished /\ deliveryWm < resultWm
    /\ \A d \in DOMAIN others.deliveries :
         (/\ others.deliveries[d].parent = a
          /\ others.deliveries[d].status = "failed"
          /\ resultWm >= deliveryWm)
         => \E f \in failures : f.delivery = {d}

NotStarted(r, a) ==
  /\ r.actions[a].result = {}
  /\ \A o \in DOMAIN r.outputs : r.outputs[o].parent # a
  /\ \A d \in DOMAIN r.deliveries : r.deliveries[d].parent # a

\* The result of a recording: its attempts, its stop flows, its source copy.
RecordFacts(a) ==
  /\ \A g \in Recordings(a) :
       /\ \A k \in {"start", "stop"} : attempts(g[k].attempts, g[k].max)
       /\ \A f \in DOMAIN g.followup : attempts(g.followup[f].attempts, g.followup[f].max)
       /\ \A f \in DOMAIN g.emergency :
            \A m \in g.emergency[f].max : g.emergency[f].used <= m
  /\ \A c \in Copies(a) : copyFacts(c)
  /\ a.status = "succeeded" =>
       \A x \in a.result : \A s \in x.repair : s \notin {"undetermined", "pending", "running"}

CaptureFacts(a) ==
  \A x \in a.result : \A k \in {"start", "stop"} : \A t \in x[k] : attempts(t.attempts, t.max)

DeleteFacts(a) ==
  a.result # {} =>
    /\ a.input.outputs # {}
    /\ \A list \in a.input.outputs :
         /\ \E n \in 0..Len(list) : DOMAIN Items(a) = {list[k] : k \in 1..n}
         /\ a.status = "succeeded" =>
              /\ Len(list) > 0 /\ DOMAIN Items(a) = {list[k] : k \in DOMAIN list}
              /\ \A o \in DOMAIN Items(a) : Items(a)[o].status = "succeeded"

CancelFacts(a) ==
  (a.result # {} /\ a.status = "succeeded") =>
    /\ DOMAIN Items(a) # {}
    /\ \A b \in DOMAIN Items(a) :
         /\ Items(a)[b].status = "succeeded"
         /\ \A d \in DOMAIN Items(a)[b].withdrawals :
              Items(a)[b].withdrawals[d].status \in {"withdrawn", "not_retractable"}

ResultFacts(a) ==
  CASE a.type = "camera_record" -> RecordFacts(a)
    [] a.type \in Cameras \ {"camera_record"} -> CaptureFacts(a)
    [] a.type = "delete_action_outputs" -> DeleteFacts(a)
    [] a.type = "cancel_task" -> CancelFacts(a)
    [] a.type = "obtain_action_outputs" ->
         a.status = "succeeded" => a.result # {} /\ Failures(a) = {}
    [] OTHER -> TRUE

\* An action judged invalid on arrival keeps whatever input it came with.
Inadmissible(a) ==
  /\ a.status = "failed" /\ ~a.started
  /\ \E e \in a.error : e.stage = "admission"

ActionFacts(r, a) ==
  LET x == r.actions[a]  plan == r.plans[x.plan] IN
  /\ Inadmissible(x) \/ x.input.valid
  /\ ~x.started => NotStarted(r, a)
  /\ plan.status = "completed" => Terminal(x.status)
  /\ plan.status = "pending" => ~x.started
  /\ x.expired = {"window_missed"} => ~x.started
  /\ x.expired = {"window_exhausted"} => x.started
  /\ ResultFacts(x)

DeliveryFacts(x) ==
  /\ copyFacts(x.copy)
  /\ x.status \in Complete =>
       /\ x.size = {x.copy.committed}
       /\ \A n \in x.copy.source : x.size = {n}

ownFacts(r) ==
  /\ r.from <= r.to
  /\ indexReport(r)
  /\ \A a \in DOMAIN r.actions : ActionFacts(r, a)
  /\ \A o \in DOMAIN r.outputs :
       (r.outputs[o].availability = "restricted")
         <=> (r.outputs[o].cleanup \in {"pending", "running", "incomplete"})
  /\ \A d \in DOMAIN r.deliveries : DeliveryFacts(r.deliveries[d])
  /\ associations(r, Flows(r))
  /\ failureLinks(r, r.to, r, r.to)

\* The schema is that of protocol/schemas, whichever version lies there.  All
\* reports and snapshots here number their identity, so one that wants a text
\* admits none of them.
SchemaAdmits == SchemaId = "number"
validateReport(r) == SchemaAdmits /\ ownFacts(r)

------------------------------------------------------------------------------
(* A report beside what was accepted before. *)

unchanged(old, next, keys) == \A k \in keys : old[k] = next[k]

attemptHistory(old, next) ==
  /\ Len(next) >= Len(old)
  /\ \A i \in DOMAIN old :
       /\ old[i].no = next[i].no
       /\ old[i].status \in {"succeeded", "failed"} => old[i] = next[i]

SlipRoundIgnored(old, next) ==
  /\ old.budget = next.budget
  /\ attemptHistory(old.reads, next.reads)
  /\ next.recopies >= old.recopies
  /\ next.committed >= old.committed
  /\ old.source \subseteq next.source

copyHistory(old, next) ==
  /\ old.budget = next.budget
  /\ attemptHistory(old.reads, next.reads)
  /\ next.recopies >= old.recopies
  /\ next.round = old.round => next.committed >= old.committed
  /\ old.source \subseteq next.source

\* The entities two reports of one boundary share are the same.
sameOwnFields(old, next) ==
  \A kind \in {"plans", "actions", "outputs", "deliveries"} :
    \A e \in DOMAIN old[kind] \intersect DOMAIN next[kind] :
      old[kind][e] = next[kind][e]

itemHistory(old, next) ==
  \A x \in DOMAIN old :
    /\ x \in DOMAIN next
    /\ IF Terminal(old[x].status) THEN next[x] = old[x]
       ELSE old[x].status = "running" => next[x].status # "pending"

\* The withdrawals within the targets of a cancellation are items of their own.
CancelHistory(old, next) ==
  /\ itemHistory(old, next)
  /\ \A x \in DOMAIN old : itemHistory(old[x].withdrawals, next[x].withdrawals)

CaptureHistory(old, next) ==
  old.result # {} =>
    /\ next.result # {}
    /\ Terminal(old.status) => old.result = next.result
    /\ \A x \in old.result, y \in next.result :
         /\ \A n \in x.count : \E m \in y.count : m >= n
         /\ \A k \in {"start", "stop"} : \A s \in x[k] :
              \E t \in y[k] : t.max = s.max /\ attemptHistory(s.attempts, t.attempts)

RecordHistory(old, next) ==
  /\ \A g \in Recordings(old) : \E h \in Recordings(next) :
       /\ \A k \in {"start", "stop"} :
            g[k].max = h[k].max /\ attemptHistory(g[k].attempts, h[k].attempts)
       /\ DOMAIN g.followup \subseteq DOMAIN h.followup
       /\ DOMAIN g.emergency \subseteq DOMAIN h.emergency
  /\ \A c \in Copies(old) : \E d \in Copies(next) : copyHistory(c, d)

actionResultHistory(old, next) ==
  CASE old.type = "camera_record" -> RecordHistory(old, next)
    [] old.type \in Cameras \ {"camera_record"} -> CaptureHistory(old, next)
    [] old.type = "obtain_action_outputs" -> Failures(old) \subseteq Failures(next)
    [] old.type = "delete_action_outputs" ->
         itemHistory(Items(old), Items(next))
    [] old.type = "cancel_task" -> CancelHistory(Items(old), Items(next))
    [] OTHER -> TRUE

\* Budgets and copies that both sides know are the same ones.
SameBudgets(old, next) ==
  /\ \A g \in Recordings(old), h \in Recordings(next) :
       g.start.max = h.start.max /\ g.stop.max = h.stop.max
  /\ \A c \in Copies(old), d \in Copies(next) : c.budget = d.budget

FlowHistory(old, next, advancing) ==
  \A f \in Flows(old), g \in Flows(next) : f.id = g.id =>
    /\ f.parent = g.parent /\ f.kind = g.kind
    /\ f.kind = "emergency" => f = g
    /\ f.kind = "followup" =>
         /\ unchanged(f.own, g.own, {"trigger", "max"})
         /\ advancing =>
              /\ attemptHistory(f.own.attempts, g.own.attempts)
              /\ Terminal(f.own.status) => unchanged(f.own, g.own, {"status", "error"})

PlanHistory(old, next, advancing) ==
  \A q \in DOMAIN next.plans : \A p \in DOMAIN old.plans :
    IF p = q THEN
      /\ unchanged(old.plans[p], next.plans[p], {"request", "seq", "head"})
      /\ advancing =>
           \/ old.plans[p].status = "pending"
           \/ old.plans[p].status = "running" /\ next.plans[p].status # "pending"
           \/ next.plans[p].status = "completed"
    ELSE /\ old.plans[p].request # next.plans[q].request
         /\ old.plans[p].seq # next.plans[q].seq

SlipEndForgotten(x, y) ==
  /\ actionResultHistory(x, y)
  /\ x.status = "running" => y.status # "pending"
  /\ x.started => y.started

ActionAdvances(x, y) ==
  /\ actionResultHistory(x, y)
  /\ Terminal(x.status) => y.status = x.status
  /\ x.status = "running" => y.status # "pending"
  /\ x.started => y.started

ActionHistory(old, next, advancing) ==
  \A a \in DOMAIN old.actions \intersect DOMAIN next.actions :
    LET x == old.actions[a]  y == next.actions[a] IN
    /\ x.plan = y.plan
    /\ unchanged(x, y, {"name", "type", "device", "group", "input"})
    /\ x.type = "camera_record" => SameBudgets(x, y)
    /\ advancing => ActionAdvances(x, y)

OutputHistory(old, next, advancing) ==
  \A o \in DOMAIN old.outputs \intersect DOMAIN next.outputs :
    LET x == old.outputs[o]  y == next.outputs[o] IN
    /\ unchanged(x, y, {"parent", "source", "kind", "derived"})
    /\ advancing =>
         /\ x.size \subseteq y.size /\ x.sha \subseteq y.sha
         /\ x.cleanup = "completed" => y.cleanup = "completed"

StageOf(status) == {k \in DOMAIN Stages : Stages[k] = status}

DeliveryHistory(old, next, advancing) ==
  /\ \A d \in DOMAIN next.deliveries, e \in DOMAIN old.deliveries :
       d # e => old.deliveries[e].file # next.deliveries[d].file
  /\ \A d \in DOMAIN old.deliveries \intersect DOMAIN next.deliveries :
       LET x == old.deliveries[d]  y == next.deliveries[d] IN
       /\ x.copy.budget = y.copy.budget
       /\ unchanged(x, y, {"parent", "output", "source", "file"})
       /\ advancing =>
            /\ copyHistory(x.copy, y.copy)
            /\ \A i \in StageOf(x.status), j \in StageOf(y.status) : i <= j
            /\ x.status \in {"failed", "canceled", "withdrawn"} => y.status = x.status
            /\ x.status = "published" => y.status \in {"published", "withdrawn"}
            /\ x.size \subseteq y.size /\ x.sha \subseteq y.sha

historicalIdentity(old, next, advancing) ==
  /\ FlowHistory(old, next, advancing)
  /\ PlanHistory(old, next, advancing)
  /\ ActionHistory(old, next, advancing)
  /\ OutputHistory(old, next, advancing)
  /\ DeliveryHistory(old, next, advancing)

SlipNewOnly(old, next) == next

members(old, next) ==
  [x \in DOMAIN old \union DOMAIN next |-> IF x \in DOMAIN next THEN next[x] ELSE old[x]]

\* Everything two reports know, in the first argument's version.
Together(next, old) ==
  [next EXCEPT !.plans = members(old.plans, next.plans),
               !.actions = members(old.actions, next.actions),
               !.outputs = members(old.outputs, next.outputs),
               !.deliveries = members(old.deliveries, next.deliveries)]

FlowsOf(next, old) ==
  Flows(next) \union {f \in Flows(old) : \A g \in Flows(next) : g.id # f.id}

validateReportAgainstHistory(current, incoming) ==
  /\ validateReport(incoming)
  /\ IF incoming.to < current.to THEN historicalIdentity(incoming, current, TRUE)
     ELSE /\ historicalIdentity(current, incoming, incoming.to > current.to)
          /\ incoming.to = current.to => sameOwnFields(current, incoming)
  /\ \A x \in DOMAIN current.diags \intersect DOMAIN incoming.diags :
       current.diags[x] = incoming.diags[x]
  /\ associations(Together(incoming, current), FlowsOf(incoming, current))
  /\ associations(Together(current, incoming), FlowsOf(current, incoming))
  /\ failureLinks(current, current.to, incoming, incoming.to)
  /\ failureLinks(incoming, incoming.to, current, current.to)

SlipNextMarkFits(coverage, from, to) ==
  IF to <= coverage THEN "covered" ELSE IF from <= coverage + 1 THEN "apply" ELSE "gap"

reportDecision(coverage, from, to) ==
  IF to <= coverage THEN "covered" ELSE IF from <= coverage THEN "apply" ELSE "gap"

SlipNewStart(current, incoming) ==
  [Together(incoming, current) EXCEPT !.diags = members(current.diags, incoming.diags)]

Combined(current, incoming) ==
  [Together(incoming, current) EXCEPT
     !.from = current.from, !.diags = members(current.diags, incoming.diags)]

\* mergeReport throws unless Mergeable, and then returns Merged.
Mergeable(current, incoming) ==
  /\ validateReportAgainstHistory(current, incoming)
  /\ CASE reportDecision(current.to, incoming.from, incoming.to) = "gap" -> FALSE
       [] reportDecision(current.to, incoming.from, incoming.to) = "covered" -> TRUE
       [] OTHER -> ownFacts(Combined(current, incoming))
Merged(current, incoming) ==
  IF reportDecision(current.to, incoming.from, incoming.to) = "covered"
  THEN current ELSE Combined(current, incoming)

\* The saved report whose end is the latest that is covered; the first of
\* several, in the order of their numbers.
selectSyncReport(reports, coverage) ==
  LET fit == {r \in reports : r.to <= coverage}
      last == {r \in fit : \A s \in fit : s.to <= r.to}
  IN {r.id : r \in {x \in last : \A s \in last : x.id <= s.id}}
==============================================================================
