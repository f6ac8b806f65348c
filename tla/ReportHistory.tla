---------------------------- MODULE ReportHistory ----------------------------
(***************************************************************************)
(* A device and a client that only share status reports.                   *)
(*                                                                         *)
(* The device (camctl, outside this repository's client) keeps a history   *)
(* of business states; position w is the water mark of the w-th change.  A *)
(* report (from, to] carries every entity that changed after `from`, as it *)
(* was at `to`, below the plan and action it belongs to.  Reports reach    *)
(* the client in any order, any number of times, some never.  The client   *)
(* merges them with the rules of module ReportMerge.                       *)
(*                                                                         *)
(* One plan records and retrieves; a later plan takes a photograph (which  *)
(* makes sure the camera has stopped first), cancels the retrieval and     *)
(* deletes the recording.  A device restored from a backup forgets its     *)
(* last changes and takes another course under the same numbers.           *)
(***************************************************************************)
EXTENDS ReportMerge, Functions

CONSTANTS FirstSteps,  \* how many changes the device may make in its first one
          MaxChanges,  \* bound on the boundaries after that
          MaxForks     \* bound on restored backups

ASSUME StepsAssumption == FirstSteps \subseteq Nat

VARIABLES history,   \* the device's states, history[w + 1] at water mark w
          snapshot,  \* the client's merged state; snapshot.to is the coverage
          forks      \* how often the device was restored from a backup

vars == <<history, snapshot, forks>>

------------------------------------------------------------------------------
(* The device. *)

Empty == [plans |-> <<>>, actions |-> <<>>, outputs |-> <<>>,
          deliveries |-> <<>>, diags |-> <<>>]
Added(f, g) == [y \in DOMAIN f \union DOMAIN g |-> IF y \in DOMAIN g THEN g[y] ELSE f[y]]
With(f, e, x) == [y \in DOMAIN f \union {e} |-> IF y = e THEN x ELSE f[y]]
Put(w, kind, e, x) == [w EXCEPT ![kind] = With(@, e, x)]
Has(w, kind, e) == e \in DOMAIN w[kind]
Is(w, a, status) == Has(w, "actions", a) /\ w.actions[a].status = status

Plan(n) == [request |-> n, seq |-> n, head |-> n, status |-> "pending"]
Asked == [valid |-> TRUE, source |-> {}, outputs |-> {}, target |-> {}]
Action(p, a, type, input) ==
  [plan |-> p, name |-> a, type |-> type, device |-> "cam", group |-> {}, input |-> input,
   status |-> "pending", started |-> FALSE, expired |-> {}, error |-> {}, result |-> {}]
ByGroup == [action |-> {}, name |-> {}, group |-> {"g"}, plan |-> {}]
OfGet == [action |-> {"get"}, plan |-> {}, group |-> {}, request |-> {}]

Try(statuses) == [i \in DOMAIN statuses |-> [no |-> i, status |-> statuses[i]]]
Recorded(start, stop) ==
  [recording |-> {[start |-> [max |-> 2, attempts |-> Try(start)],
                   stop |-> [max |-> 2, attempts |-> Try(stop)],
                   followup |-> <<>>, emergency |-> <<>>]},
   copy |-> {}, repair |-> {}]
Copying(round, reads, committed) ==
  [budget |-> [reads |-> 2, recopies |-> 1], reads |-> Try(reads),
   recopies |-> round - 1, round |-> round, committed |-> committed, source |-> {}]

\* A plan runs from its first started action to the end of its last one.
Settle(w) ==
  [w EXCEPT !.plans = [p \in DOMAIN @ |->
     LET own == {a \in DOMAIN w.actions : w.actions[a].plan = p} IN
     [@[p] EXCEPT !.status =
        IF \A a \in own : Terminal(w.actions[a].status) THEN "completed"
        ELSE IF \E a \in own : w.actions[a].started THEN "running" ELSE "pending"]]]

Started(x, result) == [x EXCEPT !.status = "running", !.started = TRUE, !.result = {result}]
Ended(x, status, result) == [x EXCEPT !.status = status, !.result = {result}]

AcceptFirst(w) ==
  {[w EXCEPT !.plans = [p |-> Plan(1)],
             !.actions = [rec |-> [Action("p", "rec", "camera_record", Asked) EXCEPT !.group = {"g"}],
                          get |-> g]]
     : g \in IF Has(w, "plans", "p") THEN {}
             ELSE LET good == Action("p", "get", "obtain_action_outputs",
                                     [Asked EXCEPT !.source = {ByGroup}])
                  IN {good, [good EXCEPT !.input = [Asked EXCEPT !.valid = FALSE],
                             !.status = "failed", !.error = {[stage |-> "admission"]}]}}

AcceptSecond(w) ==
  {[w EXCEPT !.plans = With(@, "q", Plan(2)),
             !.actions = Added(@,
               [shot |-> Action("q", "shot", "camera_take_photo", Asked),
                cut |-> Action("q", "cut", "cancel_task", [Asked EXCEPT !.target = {OfGet}]),
                del |-> Action("q", "del", "delete_action_outputs",
                               [Asked EXCEPT !.outputs = {<<"o">>}])])]
     : x \in IF Has(w, "plans", "p") /\ ~Has(w, "plans", "q") THEN {1} ELSE {}}

Output == [parent |-> "rec", source |-> "rec", kind |-> "original", derived |-> {},
           availability |-> "available", cleanup |-> "not_requested", size |-> {}, sha |-> {}]

\* A recording may need a second start, is then stopped and copied; stopping
\* by force is a flow of its own, which the report only learns afterwards.
Record(w) ==
  LET x == w.actions["rec"]
      r == Recorded(<<"failed", "running">>, <<>>)
      Final(start, stop) ==
        [Recorded(start, stop) EXCEPT !.copy = {Copying(1, <<"succeeded">>, 2)},
                                      !.repair = {"not_needed"}]
      Forced == [Final(<<"failed", "succeeded">>, <<"failed", "failed">>) EXCEPT
                   !.recording = {[g EXCEPT !.emergency = [e |-> [session |-> 1, max |-> {2}, used |-> 1]]]
                                    : g \in @}]
      End(status, result) ==
        Put(Put(w, "outputs", "o", Output), "actions", "rec", Ended(x, status, result))
  IN IF Is(w, "rec", "pending")
     THEN {Put(w, "actions", "rec", y) :
             y \in {Started(x, Recorded(<<"running">>, <<>>)),
                    [x EXCEPT !.status = "expired", !.expired = {"window_missed"}]}}
     ELSE IF ~Is(w, "rec", "running") THEN {}
     ELSE IF x.result = {r} THEN {End("failed", Forced)}
     ELSE {Put(w, "actions", "rec", Ended(x, "running", r)),
           End("succeeded", Final(<<"succeeded">>, <<"succeeded">>))}

Digest(w) ==
  {Put(w, "outputs", "o", [w.outputs["o"] EXCEPT !.size = {2}, !.sha = {"right"}])
     : x \in IF Has(w, "outputs", "o") /\ w.outputs["o"].sha = {} THEN {1} ELSE {}}

Delivery(status, copy) ==
  [parent |-> "get", output |-> "o", source |-> "rec", file |-> "f", status |-> status,
   size |-> IF status \in Complete THEN {2} ELSE {},
   sha |-> IF status \in Complete THEN {"right"} ELSE {}, error |-> {}, copy |-> copy]

Retrieve(w) ==
  {Put(Put(w, "deliveries", "d", Delivery(s, Copying(1, <<>>, 0))),
       "actions", "get", Started(w.actions["get"], [failures |-> {}]))
     : s \in IF Is(w, "get", "pending") /\ Has(w, "outputs", "o") THEN {"pending"} ELSE {}}

Lost == [source |-> "rec", output |-> {"o"}, delivery |-> {"d"}, error |-> "x"]

Deliver(w) ==
  LET x == w.deliveries["d"]
      Now(status, copy) == Put(w, "deliveries", "d", Delivery(status, copy))
  IN IF ~Has(w, "deliveries", "d") \/ ~Is(w, "get", "running") THEN {} ELSE
  CASE x.status = "pending" -> {Now("preparing", Copying(1, <<"running">>, 1))}
    [] x.status = "preparing" /\ x.copy.round = 1 ->
         {Now("preparing", Copying(2, <<"failed", "running">>, 0)),
          Now("prepared", Copying(1, <<"succeeded">>, 2))}
    [] x.status = "preparing" /\ x.copy.round = 2 ->
         {Put(Put(w, "deliveries", "d", [Delivery("failed", Copying(2, <<"failed", "failed">>, 0))
                                           EXCEPT !.error = {"x"}]),
              "actions", "get", Ended(w.actions["get"], "failed", [failures |-> {Lost}])),
          Now("prepared", Copying(2, <<"failed", "succeeded">>, 2))}
    [] x.status = "prepared" ->
         {Now("publishing", x.copy),
          Put(Now("published", x.copy), "actions", "get",
              Ended(w.actions["get"], "succeeded", [failures |-> {}]))}
    [] x.status = "publishing" ->
         {Put(Now("published", x.copy), "actions", "get",
              Ended(w.actions["get"], "succeeded", [failures |-> {}]))}
    [] OTHER -> {}

\* The photograph first makes sure that the recording before it has stopped.
Photograph(w) ==
  LET x == w.actions["shot"]
      Taken(n, statuses) ==
        [count |-> {n}, start |-> {[max |-> 1, attempts |-> Try(statuses)]}, stop |-> {}]
      flow(status) == [trigger |-> "shot", max |-> 1, attempts |-> Try(<<status>>),
                       status |-> status, error |-> {}]
      Stopping(status) ==
        [w.actions["rec"] EXCEPT !.result =
           {[r EXCEPT !.recording = {[g EXCEPT !.followup = [s |-> flow(status)]] : g \in @}]
              : r \in @}]
      Waits == \A g \in Recordings(w.actions["rec"]) : "s" \in DOMAIN g.followup =>
                 g.followup["s"].status = "succeeded"
  IN IF Is(w, "shot", "pending") /\ Terminal(w.actions["rec"].status)
     THEN {Put(Put(w, "actions", "shot", Started(x, Taken(0, <<>>))),
               "actions", "rec", Stopping("running"))}
     ELSE IF Is(w, "shot", "running")
     THEN IF Waits THEN {Put(w, "actions", "shot", Ended(x, "succeeded", Taken(1, <<"succeeded">>)))}
          ELSE {Put(w, "actions", "rec", Stopping("succeeded"))}
     ELSE {}

Cancel(w) ==
  LET x == w.actions["cut"]
      known == {"d"} \intersect DOMAIN w.deliveries
      Items1(status, each) ==
        [items |-> [get |-> [status |-> status,
                             withdrawals |-> [d \in known |-> [status |-> each]]]]]
      published == known # {} /\ w.deliveries["d"].status = "published"
      ended == Terminal(w.actions["get"].status)
      stopped == IF known # {} /\ w.deliveries["d"].status \in Unfinished
                 THEN Put(w, "deliveries", "d", [w.deliveries["d"] EXCEPT !.status = "canceled"])
                 ELSE w
  IN IF Is(w, "cut", "pending") THEN {Put(w, "actions", "cut", Started(x, Items1("running", "pending")))}
     ELSE IF Is(w, "cut", "running") /\ DOMAIN Items(x)["get"].withdrawals = known
     THEN IF published
          THEN {Put(Put(w, "deliveries", "d", [w.deliveries["d"] EXCEPT !.status = "withdrawn"]),
                    "actions", "cut", Ended(x, "succeeded", Items1("succeeded", "withdrawn")))}
          ELSE {Put(IF ended THEN w
                    ELSE Put(stopped, "actions", "get",
                             [w.actions["get"] EXCEPT !.status = "canceled"]),
                    "actions", "cut", Ended(x, "succeeded", Items1("succeeded", "not_retractable")))}
     ELSE {}

Delete(w) ==
  LET x == w.actions["del"]
      Only(status) == [items |-> [o |-> [status |-> status]]]
      Cleaned(cleanup, availability) ==
        [w.outputs["o"] EXCEPT !.cleanup = cleanup, !.availability = availability]
  IN IF ~Has(w, "outputs", "o") THEN {}
     ELSE IF Is(w, "del", "pending")
     THEN {Put(Put(w, "outputs", "o", Cleaned("running", "restricted")),
               "actions", "del", Started(x, Only("running")))}
     ELSE IF Is(w, "del", "running")
     THEN {Put(Put(w, "outputs", "o", Cleaned("completed", "cleaned")),
               "actions", "del", Ended(x, "succeeded", Only("succeeded"))),
           Put(Put(w, "outputs", "o", Cleaned("incomplete", "restricted")),
               "actions", "del", Ended(x, "failed", Only("failed")))}
     ELSE {}

Diagnose(w) ==
  {Put(w, "diags", "x", "x") : y \in IF w.diags = <<>> /\ w.plans # <<>> THEN {1} ELSE {}}

Changes(w) ==
  {Settle(v) : v \in UNION {AcceptFirst(w), AcceptSecond(w), Record(w), Digest(w), Retrieve(w),
                            Deliver(w), Photograph(w), Cancel(w), Delete(w), Diagnose(w)}}

\* The states the device may be in after n changes.
Reach[n \in Nat] == IF n = 0 THEN {Empty} ELSE UNION {Changes(w) : w \in Reach[n - 1]}

Last == Len(history) - 1
Changed(kind, from, to) ==
  {e \in DOMAIN history[to + 1][kind] :
     \E w \in from + 1 .. to :
       e \notin DOMAIN history[w][kind] \/ history[w][kind][e] # history[w + 1][kind][e]}

Report(from, to) ==
  LET w == history[to + 1]
      O == Changed("outputs", from, to)
      D == Changed("deliveries", from, to)
      A == Changed("actions", from, to) \union {w.outputs[o].parent : o \in O}
                                        \union {w.deliveries[d].parent : d \in D}
      P == Changed("plans", from, to) \union {w.actions[a].plan : a \in A}
  IN [from |-> from, to |-> to,
      plans |-> Restrict(w.plans, P), actions |-> Restrict(w.actions, A),
      outputs |-> Restrict(w.outputs, O), deliveries |-> Restrict(w.deliveries, D),
      diags |-> Restrict(w.diags, Changed("diags", from, to))]

------------------------------------------------------------------------------
Init ==
  /\ history \in {<<Empty, w>> : w \in UNION {Reach[n] : n \in FirstSteps}}
  /\ snapshot = [from |-> 0, to |-> 0, plans |-> <<>>, actions |-> <<>>, outputs |-> <<>>,
                 deliveries |-> <<>>, diags |-> <<>>]
  /\ forks = 0

Device ==
  /\ Last <= MaxChanges
  /\ \E w \in Changes(history[Len(history)]) : history' = Append(history, w)
  /\ UNCHANGED <<snapshot, forks>>

Fork ==
  /\ forks < MaxForks
  /\ \E w \in 1 .. Last - 1 : history' = SubSeq(history, 1, w + 1)
  /\ forks' = forks + 1
  /\ UNCHANGED snapshot

\* The client accepts a report that advances it.
Import ==
  \E to \in 1 .. Last : \E from \in 0 .. to :
    /\ reportDecision(snapshot.to, from, to) = "apply"
    /\ Mergeable(snapshot, Report(from, to))
    /\ snapshot' = Merged(snapshot, Report(from, to))
    /\ UNCHANGED <<history, forks>>

Next == Device \/ Fork \/ Import
Spec == Init /\ [][Next]_vars

------------------------------------------------------------------------------
\* A report of an undisturbed device is taken, whatever the client has seen
\* before, as the tests of mergeReport and parseReport expect of the client with
\* the schema that lies in protocol/schemas (tests/unit/reports.test.ts:99, 325).
\* The pairs left out were offered to the same snapshot before the last change.
TruthTaken ==
  forks = 0 =>
    \A to \in 0 .. Last : \A from \in 0 .. to :
      (to = Last \/ snapshot.to = Last) =>
        IF reportDecision(snapshot.to, from, to) = "gap"
        THEN validateReportAgainstHistory(snapshot, Report(from, to))
        ELSE Mergeable(snapshot, Report(from, to))

\* The rules behind the schema refuse no report of an undisturbed device: where
\* the schema admits reports as the client declares them, none that repeats,
\* overlaps, comes late or leaves a gap is refused (mergeReport and
\* validateReportAgainstHistory in applyReports).
TruthAccepted == SchemaAdmits => TruthTaken

\* What the client shows is the device's own state at the coverage it claims,
\* whichever reports it was built from.
SnapshotIsHistory ==
  forks = 0 => snapshot = Report(0, snapshot.to)

\* Even when a device contradicts itself, what was reported as decided stays:
\* the end of an action, a digest, a final failure, a delivery that was
\* published, failed or withdrawn, and every entity ever seen.
Decided(old, new) ==
  /\ \A kind \in {"plans", "actions", "outputs", "deliveries", "diags"} :
       DOMAIN old[kind] \subseteq DOMAIN new[kind]
  /\ \A a \in DOMAIN old.actions :
       /\ Terminal(old.actions[a].status) => new.actions[a].status = old.actions[a].status
       /\ old.actions[a].type = "obtain_action_outputs" =>
            Failures(old.actions[a]) \subseteq Failures(new.actions[a])
  /\ \A d \in DOMAIN old.deliveries :
       /\ old.deliveries[d].sha \subseteq new.deliveries[d].sha
       /\ old.deliveries[d].status \in {"failed", "canceled", "withdrawn"} =>
            new.deliveries[d].status = old.deliveries[d].status
       /\ old.deliveries[d].status = "published" =>
            new.deliveries[d].status \in {"published", "withdrawn"}
DecidedStays == [][Decided(snapshot, snapshot')]_vars
==============================================================================
