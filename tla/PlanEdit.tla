------------------------------ MODULE PlanEdit ------------------------------
(***************************************************************************)
(* The content of one draft under the hands of its editor (web/editing.ts, *)
(* web/action-drafts.ts, Editor.tsx, BuiltinFields.tsx, Fields.tsx), and   *)
(* its export (application.ts, shared/plan.ts).  A content is a plan text, *)
(* the half-finished inputs by path, and what was entered for an action    *)
(* under its other types, both kept beside the text under action indices.  *)
(*                                                                         *)
(* Of an action the model keeps name, type and the fields group, params    *)
(* and policy; device and time are fixed.  A path is <<action, field>> or  *)
(* <<action, field, key>>.  An object is a function from keys; any other   *)
(* JSON value is NotObject.  Saving is DraftSession's part.                *)
(***************************************************************************)
EXTENDS Integers, Sequences, FiniteSets, SequencesExt

CONSTANTS MaxEdits,     \* bound on the edits
          MaxActions,   \* bound on the actions of a plan
          MaxCoverage   \* bound on the continuous coverage

ASSUME BoundsAssumption == {MaxEdits, MaxActions, MaxCoverage} \subseteq Nat

VARIABLES content, exported,  \* the open draft
          requests,           \* the plans exported so far
          presets,            \* the saved capture parameters
          coverage,           \* up to where reports were merged
          edits

vars == <<content, exported, requests, presets, coverage, edits>>

Types == {"none", "camera_record", "obtain_action_outputs", "report_status"}
isCameraAction(type) == type = "camera_record"
ActionNames == {"1", "2"}
DefaultName(n) == <<"1", "2", "3", "4">>[n]
Empty == <<>>                       \* {} in the text
NotObject == [x \in {""} |-> "5"]
isObject(value) == "" \notin DOMAIN value
Has(f, k) == k \in DOMAIN f
Without(f, k) == Restrict(f, DOMAIN f \ {k})
With(f, k, v) == [x \in DOMAIN f \union {k} |-> IF x = k THEN v ELSE f[x]]

\* Reports 1 and 2 are kept, and report r reaches up to mark r.
isSyncBasis(report) == report \in {1, 2} /\ report <= coverage

------------------------------------------------------------------------------
(* validatePlan. *)

\* The driver's schema asks for these keys.
validateParams(params) == DOMAIN params = {"type", "length"}
validateBuiltinParams(type, params) ==
  \/ /\ type = "obtain_action_outputs"
     /\ Has(params, "source") /\ params["source"].is # ""
     /\ DOMAIN params \subseteq {"source", "output_ids"}
     /\ Has(params, "output_ids") =>
          params["output_ids"] # "empty" /\ params["source"].by \notin {"group", "plan_group"}
  \/ /\ type = "report_status"
     /\ \/ params = [scope |-> "full"]
        \/ DOMAIN params = {"scope", "after_report_id"} /\ params["scope"] = "since"

InGroup(action, g) == Has(action.fields, "group") /\ action.fields["group"] = g
Captures(actions) == {a \in Range(actions) : isCameraAction(a.type)}
SourceFound(actions, source) ==
  /\ source.by = "action_name" => \E a \in Captures(actions) : a.name = source.is
  /\ source.by = "group" => \E a \in Captures(actions) : InGroup(a, source.is)
SlipSameNames(actions) == TRUE
NamesDiffer(actions) ==
  \A i, j \in DOMAIN actions : actions[i].name = actions[j].name => i = j

ActionValid(actions, action) ==
  LET fields == action.fields
      params == fields["params"] IN
  /\ action.type # "none" /\ Has(fields, "params") /\ isObject(params)
  /\ Has(fields, "group") => action.type # "obtain_action_outputs"
  /\ IF isCameraAction(action.type)
     THEN /\ Has(fields, "policy") /\ DOMAIN fields["policy"] = {"max_delay_ms"}
          /\ validateParams(params)
     ELSE /\ Has(fields, "policy") => fields["policy"] = Empty
          /\ validateBuiltinParams(action.type, params)
          /\ Has(params, "source") => SourceFound(actions, params["source"])
          /\ Has(params, "after_report_id") => isSyncBasis(params["after_report_id"])
validatePlan(actions) ==
  /\ actions # <<>> /\ NamesDiffer(actions)
  /\ \A a \in Range(actions) : ActionValid(actions, a)

------------------------------------------------------------------------------
(* Edits of a content. *)

SlipOnlyParents(c, path) == \E q \in DOMAIN c.pending : IsStrictPrefix(q, path)
pendingBlocks(c, path) ==
  \E q \in DOMAIN c.pending : IsStrictPrefix(path, q) \/ IsStrictPrefix(q, path)

\* What the text holds at a field that should be an object; else a new one.
Target(fields, k) == IF Has(fields, k) /\ isObject(fields[k]) THEN fields[k] ELSE Empty
SetAt(fields, path, value) ==
  With(fields, path[1],
       IF Len(path) = 1 THEN value ELSE With(Target(fields, path[1]), path[2], value))
OmitAt(fields, path) ==
  IF Len(path) = 1 THEN Without(fields, path[1])
  ELSE With(fields, path[1], Without(Target(fields, path[1]), path[2]))
Resolve(pending, path) == Restrict(pending, {q \in DOMAIN pending : ~IsPrefix(path, q)})

setValue(c, path, value) ==
  [c EXCEPT !.actions[path[1]].fields = SetAt(@, Tail(path), value), !.pending = Resolve(@, path)]
omitValue(c, path) ==
  [c EXCEPT !.actions[path[1]].fields = OmitAt(@, Tail(path)), !.pending = Resolve(@, path)]

\* A text is the JSON text of a value, or a part of it that does not parse.
editValue(c, path, text) ==
  IF text.whole THEN setValue(c, path, text.of)
  ELSE [c EXCEPT !.pending = With(@, path, text)]

\* What is entered under the current type, and under another one.
PathsOf(c, i) == {q \in DOMAIN c.pending : IsStrictPrefix(<<i>>, q)}
Blank == [fields |-> Empty, pending |-> <<>>]
Current(c, i) ==
  [fields |-> c.actions[i].fields,
   pending |-> [r \in {Tail(q) : q \in PathsOf(c, i)} |-> c.pending[<<i>> \o r]]]
Variants(c, i) == IF Has(c.variants, i) THEN c.variants[i] ELSE <<>>
Restored(c, i, type) == IF Has(Variants(c, i), type) THEN Variants(c, i)[type] ELSE Blank

canSwitchActionType(c, i) == \A q \in DOMAIN c.pending : ~IsPrefix(q, <<i>>)
switchActionType(c, i, type) ==
  LET old == c.actions[i].type
      restored == Restored(c, i, type)
      others == Restrict(Variants(c, i), DOMAIN Variants(c, i) \ {type, old})
      remaining == IF Current(c, i) = Blank THEN others ELSE With(others, old, Current(c, i))
  IN [c EXCEPT !.actions[i] = [@ EXCEPT !.type = type, !.fields = restored.fields],
        !.pending = [q \in (DOMAIN @ \ PathsOf(c, i)) \union
                           {<<i>> \o r : r \in DOMAIN restored.pending} |->
                       IF q[1] = i THEN restored.pending[Tail(q)] ELSE @[q]],
        !.variants = IF remaining = <<>> THEN Without(@, i) ELSE With(@, i, remaining)]

\* Inputs and variants of the later actions move one index down.
After(i, j) == IF j > i THEN j - 1 ELSE j
Before(i, j) == IF j >= i THEN j + 1 ELSE j
SlipVariantsStay(c, i) ==
  [c EXCEPT !.actions = RemoveAt(@, i),
     !.pending = [q \in {<<After(i, p[1])>> \o Tail(p) : p \in {d \in DOMAIN @ : d[1] # i}} |->
                    @[<<Before(i, q[1])>> \o Tail(q)]],
     !.variants = Without(@, i)]
removeAction(c, i) ==
  [c EXCEPT !.actions = RemoveAt(@, i),
     !.pending = [q \in {<<After(i, p[1])>> \o Tail(p) : p \in {d \in DOMAIN @ : d[1] # i}} |->
                    @[<<Before(i, q[1])>> \o Tail(q)]],
     !.variants = [k \in {After(i, j) : j \in DOMAIN @ \ {i}} |-> @[Before(i, k)]]]
appendDraftAction(c) ==
  [c EXCEPT !.actions =
     Append(@, [name |-> DefaultName(Len(@) + 1), type |-> "none", fields |-> Empty])]

\* A draft with this plan text and nothing beside it.
Fresh(actions) ==
  [parses |-> TRUE, actions |-> actions, pending |-> <<>>, variants |-> <<>>]
Broken == [Fresh(<<>>) EXCEPT !.parses = FALSE]

------------------------------------------------------------------------------
(* The plans and texts that are typed in. *)

Length == [type |-> "t", length |-> "5"]
From(by, is) == [source |-> [by |-> by, is |-> is]]
Capture ==
  [name |-> "1", type |-> "camera_record",
   fields |-> [params |-> Length, policy |-> [max_delay_ms |-> "0"], group |-> "g"]]
Retrieval(name, source) ==
  [name |-> name, type |-> "obtain_action_outputs", fields |-> [params |-> source]]
PlanTexts ==
  {<<Capture, Retrieval("1", From("group", "g"))>>,
   <<Retrieval("2", From("action_name", "1")), Capture>>}

Whole(value) == [whole |-> TRUE, of |-> value]
Cut(value) == [whole |-> FALSE, of |-> value]
JsonTexts(field, type) ==
  IF field = "policy" THEN {Whole(Empty), Cut(Empty)}
  ELSE {Whole(NotObject), Cut(Empty)} \union
       CASE isCameraAction(type) -> {Whole([type |-> "t"])}
         [] type = "obtain_action_outputs" ->
              {Whole(With(From("action_name", "1"), "output_ids", "some"))}
         [] type = "report_status" ->
              {Whole([scope |-> "since", after_report_id |-> 1])}
         [] OTHER -> {}

\* A new draft, a copy of a request, and one whose capture has a half-finished
\* input and is another type for now.
Init ==
  /\ \/ content = Fresh(<<>>) /\ requests = {}
     \/ LET plan == <<Capture, Retrieval("2", From("action_name", "1"))>>
            cut == editValue(Fresh(plan), <<1, "params", "length">>, Cut("5")) IN
        /\ content \in {Fresh(plan), switchActionType(cut, 1, "report_status")}
        /\ requests = {plan}
  /\ exported = FALSE /\ presets = {} /\ coverage = 0 /\ edits = 0

------------------------------------------------------------------------------
(* What the page offers. *)

Editing == ~exported /\ edits < MaxEdits /\ edits' = edits + 1
change(c) == content' = c /\ UNCHANGED <<exported, requests, presets, coverage>>
Actions == IF content.parses THEN DOMAIN content.actions ELSE {}
TypeOf(i) == content.actions[i].type
FieldsOf(i) == content.actions[i].fields
Params(i) == Target(FieldsOf(i), "params")
Unfinished(i) == \E q \in DOMAIN content.pending : IsPrefix(<<i, "params">>, q)

\* Inputs that write a value at a path, unless an unresolved one is in the way.
put(path, value) == ~pendingBlocks(content, path) /\ change(setValue(content, path, value))

Rename(i, name) ==
  Editing /\ content.actions[i].name # name /\ change([content EXCEPT !.actions[i].name = name])
Group(i, g) ==
  Editing /\ TypeOf(i) # "obtain_action_outputs" /\ put(<<i, "group">>, g)
Clear(i, field) ==
  /\ Editing /\ Has(FieldsOf(i), field)
  /\ field = "policy" => ~isCameraAction(TypeOf(i))
  /\ change(omitValue(content, <<i, field>>))
SelectType(i, type) ==
  /\ Editing /\ type # TypeOf(i) /\ canSwitchActionType(content, i)
  /\ change(switchActionType(content, i, type))
JsonField(i, field, text) ==
  /\ Editing /\ ~pendingBlocks(content, <<i, field>>)
  /\ field = "params" => TypeOf(i) # "none" \/ Has(FieldsOf(i), field) \/ Unfinished(i)
  /\ change(editValue(content, <<i, field>>, text))
NumberField(i, path, text) ==
  /\ Editing /\ isCameraAction(TypeOf(i))
  /\ path[2] = "params" =>
       Has(Params(i), "type") /\ ~Has(content.pending, <<i, "params">>)
  /\ ~pendingBlocks(content, path) /\ change(editValue(content, path, text))
ParameterType(i) ==
  /\ Editing /\ isCameraAction(TypeOf(i)) /\ ~Has(content.pending, <<i, "params">>)
  /\ put(<<i, "params", "type">>, "t")
ApplyPreset(i, params) ==
  Editing /\ isCameraAction(TypeOf(i)) /\ change(setValue(content, <<i, "params">>, params))
savePreset(i) ==
  /\ Editing /\ isCameraAction(TypeOf(i)) /\ ~Unfinished(i) /\ validateParams(Params(i))
  /\ presets' = presets \union {Params(i)}
  /\ UNCHANGED <<content, exported, requests, coverage>>

\* The forms of the built-in actions show when the parameters are an object
\* and nothing in them is unfinished.
Form(i, type) ==
  /\ Editing /\ TypeOf(i) = type /\ ~Unfinished(i)
  /\ Has(FieldsOf(i), "params") => isObject(FieldsOf(i)["params"])
ResetParams(i) ==
  /\ Editing /\ TypeOf(i) \notin {"none", "camera_record"} /\ ~Unfinished(i)
  /\ Has(FieldsOf(i), "params") /\ ~isObject(FieldsOf(i)["params"])
  /\ change(setValue(content, <<i, "params">>, Empty))
ChooseSource(i, by) ==
  /\ Form(i, "obtain_action_outputs")
  /\ LET next == setValue(content, <<i, "params", "source">>, [by |-> by, is |-> ""]) IN
     change(IF by = "action_instance_id" THEN next
            ELSE omitValue(next, <<i, "params", "output_ids">>))
ReferTo(i, is) ==
  /\ Form(i, "obtain_action_outputs") /\ Has(Params(i), "source")
  /\ LET by == Params(i)["source"].by IN
     /\ is \in CASE by = "action_name" -> ActionNames [] by = "group" -> {"g"} [] OTHER -> {"x"}
     /\ change(setValue(content, <<i, "params", "source">>, [by |-> by, is |-> is]))
OutputIds(i, list) ==
  /\ Form(i, "obtain_action_outputs")
  /\ \/ /\ Has(Params(i), "source") /\ Params(i)["source"].by = "action_instance_id"
        /\ list = "some" => Has(Params(i), "output_ids")
        /\ change(setValue(content, <<i, "params", "output_ids">>, list))
     \/ /\ Has(Params(i), "output_ids")
        /\ change(omitValue(content, <<i, "params", "output_ids">>))
ChooseScope(i, scope) ==
  /\ Form(i, "report_status")
  /\ scope = "since" => isSyncBasis(1)
  /\ change(setValue(content, <<i, "params">>, [scope |-> scope]))
ChooseBasis(i, report) ==
  /\ Form(i, "report_status") /\ Has(Params(i), "scope") /\ Params(i)["scope"] = "since"
  /\ isSyncBasis(report) /\ change(setValue(content, <<i, "params", "after_report_id">>, report))

\* The list of unfinished inputs: retype one, apply it, give it up.
Retype(q) ==
  Editing /\ change([content EXCEPT !.pending[q].whole = ~@])
ApplyInput(q) ==
  /\ Editing /\ content.pending[q].whole /\ ~pendingBlocks(content, q)
  /\ change(editValue(content, q, content.pending[q]))
OmitInput(q) == Editing /\ change(omitValue(content, q))

add == Editing /\ content.parses /\ Len(content.actions) < MaxActions /\ change(appendDraftAction(content))
remove(i) == Editing /\ change(removeAction(content, i))

\* The whole text is open to the keyboard while nothing is unfinished; the
\* variants go, after a question.
editPlanText(c) == Editing /\ DOMAIN content.pending = {} /\ change(c)

ActionEditor(i) ==
  \/ \E name \in ActionNames : Rename(i, name)
  \/ Group(i, "g")
  \/ \E field \in {"group", "policy"} : Clear(i, field)
  \/ \E type \in Types : SelectType(i, type)
  \/ \E field \in {"params", "policy"} : \E text \in JsonTexts(field, TypeOf(i)) : JsonField(i, field, text)
  \/ \E text \in {Whole("5"), Cut("5")} :
       NumberField(i, <<i, "params", "length">>, text) \/ NumberField(i, <<i, "policy", "max_delay_ms">>, text)
  \/ ParameterType(i) \/ (\E params \in presets : ApplyPreset(i, params)) \/ savePreset(i)
  \/ ResetParams(i)
  \/ \E by \in {"action_name", "group", "plan_group", "action_instance_id"} : ChooseSource(i, by)
  \/ \E is \in {"1", "2", "g", "x"} : ReferTo(i, is)
  \/ \E list \in {"empty", "some"} : OutputIds(i, list)
  \/ \E scope \in {"full", "since"} : ChooseScope(i, scope)
  \/ \E report \in {1, 2} : ChooseBasis(i, report)

PendingInput(q) == Retype(q) \/ ApplyInput(q) \/ OmitInput(q)
PlanText == \E plan \in PlanTexts : \E c \in {Fresh(plan), Broken} : editPlanText(c)
------------------------------------------------------------------------------
(* The server. *)

exportDraft ==
  /\ ~exported /\ content.parses /\ DOMAIN content.pending = {} /\ validatePlan(content.actions)
  /\ exported' = TRUE /\ requests' = requests \union {content.actions}
  /\ UNCHANGED <<content, presets, coverage, edits>>
copyRequest(plan) ==
  /\ exported /\ content' = Fresh(plan) /\ exported' = FALSE
  /\ UNCHANGED <<requests, presets, coverage, edits>>
ReportArrives ==
  /\ coverage < MaxCoverage /\ coverage' = coverage + 1
  /\ UNCHANGED <<content, exported, requests, presets, edits>>

Next ==
  \/ \E i \in Actions : ActionEditor(i) \/ remove(i)
  \/ content.parses /\ \E q \in DOMAIN content.pending : PendingInput(q)
  \/ add \/ PlanText \/ exportDraft \/ ReportArrives
  \/ \E plan \in requests : copyRequest(plan)
Spec == Init /\ [][Next]_vars

------------------------------------------------------------------------------
\* All that was entered for each action, under whichever type.
Entered(c) ==
  [i \in DOMAIN c.actions |->
     [t \in Types \union {"name"} |->
        CASE t = "name" -> c.actions[i].name
          [] t = c.actions[i].type -> Current(c, i)
          [] OTHER -> Restored(c, i, t)]]

\* An edit of one action's entries under one type, a removal, or an addition.
KeepsEntries ==
  LET old == Entered(content)  new == Entered(content') IN
  \/ new = old
  \/ \E i \in DOMAIN old \intersect DOMAIN new :
       \E t \in {"name", TypeOf(i)} :
         /\ content'.actions[i].type = TypeOf(i)
         /\ new = [old EXCEPT ![i][t] = new[i][t]]
  \/ \E i \in DOMAIN old : new = RemoveAt(old, i)
  \/ \E first \in {new[Len(new)]} :
       new = Append(old, first) /\ \A t \in Types : first[t] = Blank

\* Nothing entered is lost or ends up with another action: an edit changes one
\* action under its current type, a change of type nothing, and adding or
\* removing an action leaves those of the others alone
\* (docs/client/storage-and-recovery.md:46, verification.md:70).
EntriesKept ==
  [][PlanText \/ (\E plan \in requests : copyRequest(plan)) \/ KeepsEntries]_vars

\* Every unfinished input can be corrected on its own: it belongs to an action of
\* the plan, and none lies within another, under this type or one switched to
\* later (Editor.tsx:348).
EachCorrectable ==
  \A i \in DOMAIN Entered(content), t \in Types :
    LET paths == DOMAIN Entered(content)[i][t].pending IN
    /\ \A p, q \in paths : ~IsStrictPrefix(p, q)
    /\ \A q \in DOMAIN content.pending : q[1] \in DOMAIN content.actions

\* In an exported plan each retrieval by name means one action, a capture, one
\* by group has a capture to fetch from and no filter, and a report asked for
\* since a basis starts where everything before is covered.
ExportedIsSound ==
  \A plan \in requests, i \in 1..MaxActions :
    (i \in DOMAIN plan /\ Has(plan[i].fields, "params")) =>
      LET params == plan[i].fields["params"] IN
      /\ Has(params, "source") =>
           LET source == params["source"] IN
           /\ source.by = "action_name" =>
                \E j \in DOMAIN plan : {k \in DOMAIN plan : plan[k].name = source.is} = {j}
                                       /\ isCameraAction(plan[j].type)
           /\ source.by = "group" =>
                \E j \in DOMAIN plan \ {i} : isCameraAction(plan[j].type) /\ InGroup(plan[j], source.is)
           /\ source.by \in {"group", "plan_group"} => ~Has(params, "output_ids")
      /\ Has(params, "after_report_id") => params["after_report_id"] <= coverage
==============================================================================
