------------------------- MODULE ReportHistoryProofs -------------------------
(***************************************************************************)
(* What TLAPS proves about a device and a client that share status         *)
(* reports, for any number of changes, restored backups and imports:       *)
(*                                                                         *)
(*   - whatever a device reports, an accepted report takes back nothing    *)
(*     that was decided (DecisionsStay);                                   *)
(*   - while the device was not restored from a backup, the client shows   *)
(*     exactly the device's own state at the water mark it claims          *)
(*     (SnapshotIsTrue);                                                   *)
(*   - the rules behind the schema never refuse a report of such a device, *)
(*     whatever the client has seen before (TruthIsAccepted); of reports   *)
(*     that the schema does not admit it says nothing.                     *)
(*                                                                         *)
(* The second rests on what every change of the device keeps (World): an   *)
(* entity lies below a plan and an action that exist; and on what a        *)
(* history keeps (HistoryInv): it starts with nothing, and an entity it    *)
(* knows stays known.  A report that covers the client's water mark then   *)
(* carries every entity that differs, so merging it needs no other fact    *)
(* about the rules of module ReportMerge than that new entities replace    *)
(* old ones.                                                               *)
(*                                                                         *)
(* The third needs to know what the entities are.  Every state of the      *)
(* device is described by a stage, which says how far each entity has      *)
(* come (Described) and how far they can have come together (Consistent);  *)
(* a change leads from a stage to a later one (Before).  So the history of *)
(* an undisturbed device is described by a sequence of stages (CourseInv). *)
(* Any report of it shows some entities of one stage (Seen), and that is   *)
(* all the rules get to know: those about one report are proved of one     *)
(* stage (SeenOwn), those about a report and what the client knows of two  *)
(* stages in either order (SeenValid).  The rules that follow the links    *)
(* between entities of both reports rest on what every version of an       *)
(* entity says (Lasting).                                                  *)
(***************************************************************************)
EXTENDS ReportHistory, WellFoundedInduction, TLAPS

Kinds == {"plans", "actions", "outputs", "deliveries", "diags"}

------------------------------------------------------------------------------
(* Merging. *)

\* A report, and the state it is merged into.
Rep(f, t, p, a, o, d, x) ==
  [from |-> f, to |-> t, plans |-> p, actions |-> a, outputs |-> o, deliveries |-> d, diags |-> x]
Known(r) == r = Rep(r.from, r.to, r.plans, r.actions, r.outputs, r.deliveries, r.diags)

LEMMA ReportIs ==
  ASSUME NEW from, NEW to
  PROVE  LET r == Report(from, to) IN Known(r) /\ r.from = from /\ r.to = to
  BY DEF Report, Known, Rep

LEMMA Replaced ==
  ASSUME NEW r, Known(r), NEW x
  PROVE  /\ [r EXCEPT !.plans = x] = Rep(r.from, r.to, x, r.actions, r.outputs, r.deliveries, r.diags)
         /\ [r EXCEPT !.actions = x] = Rep(r.from, r.to, r.plans, x, r.outputs, r.deliveries, r.diags)
         /\ [r EXCEPT !.outputs = x] = Rep(r.from, r.to, r.plans, r.actions, x, r.deliveries, r.diags)
         /\ [r EXCEPT !.deliveries = x] = Rep(r.from, r.to, r.plans, r.actions, r.outputs, x, r.diags)
         /\ [r EXCEPT !.diags = x] = Rep(r.from, r.to, r.plans, r.actions, r.outputs, r.deliveries, x)
         /\ [r EXCEPT !.from = x] = Rep(x, r.to, r.plans, r.actions, r.outputs, r.deliveries, r.diags)
  BY DEF Known, Rep

\* What is merged is the new entities over the old ones.
LEMMA Parts ==
  ASSUME NEW f, NEW t, NEW p, NEW a, NEW o, NEW d, NEW x
  PROVE  LET r == Rep(f, t, p, a, o, d, x) IN
         /\ Known(r) /\ r.from = f /\ r.to = t /\ r.plans = p /\ r.actions = a
         /\ r.outputs = o /\ r.deliveries = d /\ r.diags = x
  BY DEF Rep, Known

LEMMA CombinedIs ==
  ASSUME NEW old, NEW next, Known(next)
  PROVE  Combined(old, next) =
           Rep(old.from, next.to, members(old.plans, next.plans),
               members(old.actions, next.actions), members(old.outputs, next.outputs),
               members(old.deliveries, next.deliveries), members(old.diags, next.diags))
  <1> DEFINE a == members(old.plans, next.plans)
             b == members(old.actions, next.actions)
             c == members(old.outputs, next.outputs)
             d == members(old.deliveries, next.deliveries)
             e == old.from
             f == members(old.diags, next.diags)
             r1 == [next EXCEPT !.plans = a]
             r2 == [r1 EXCEPT !.actions = b]
             r3 == [r2 EXCEPT !.outputs = c]
             r4 == [r3 EXCEPT !.deliveries = d]
             r5 == [r4 EXCEPT !.from = e]
             r6 == [r5 EXCEPT !.diags = f]
  <1>1. Combined(old, next) = r6
    <2> DEFINE u == Together(next, old)
    <2>1. u = r4
      BY DEF Together
    <2>2. Combined(old, next) = [u EXCEPT !.from = e, !.diags = f]
      BY DEF Combined
    <2> HIDE DEF u, a, b, c, d, e, f
    <2>3. [u EXCEPT !.from = e, !.diags = f] = [[u EXCEPT !.from = e] EXCEPT !.diags = f]
      OBVIOUS
    <2> HIDE DEF r4
    <2> QED
      BY <2>1, <2>2, <2>3
  <1> HIDE DEF a, b, c, d, e, f
  <1>2. r1 = Rep(next.from, next.to, a, next.actions, next.outputs, next.deliveries, next.diags)
    BY Replaced
  <1> HIDE DEF r1
  <1>3. r2 = Rep(next.from, next.to, a, b, next.outputs, next.deliveries, next.diags)
    <2>1. /\ Known(r1) /\ r1.from = next.from
          /\ r1.to = next.to
          /\ r1.plans = a
          /\ r1.actions = next.actions
          /\ r1.outputs = next.outputs
          /\ r1.deliveries = next.deliveries
          /\ r1.diags = next.diags
      BY <1>2, Parts
    <2> HIDE DEF r1
    <2>2. r2 = Rep(r1.from, r1.to, r1.plans, b, r1.outputs, r1.deliveries, r1.diags)
      BY <2>1, Replaced
    <2> HIDE DEF r2
    <2> QED
      BY <2>1, <2>2
  <1> HIDE DEF r2
  <1>4. r3 = Rep(next.from, next.to, a, b, c, next.deliveries, next.diags)
    <2>1. /\ Known(r2) /\ r2.from = next.from
          /\ r2.to = next.to
          /\ r2.plans = a
          /\ r2.actions = b
          /\ r2.outputs = next.outputs
          /\ r2.deliveries = next.deliveries
          /\ r2.diags = next.diags
      BY <1>3, Parts
    <2> HIDE DEF r2
    <2>2. r3 = Rep(r2.from, r2.to, r2.plans, r2.actions, c, r2.deliveries, r2.diags)
      BY <2>1, Replaced
    <2> HIDE DEF r3
    <2> QED
      BY <2>1, <2>2
  <1> HIDE DEF r3
  <1>5. r4 = Rep(next.from, next.to, a, b, c, d, next.diags)
    <2>1. /\ Known(r3) /\ r3.from = next.from
          /\ r3.to = next.to
          /\ r3.plans = a
          /\ r3.actions = b
          /\ r3.outputs = c
          /\ r3.deliveries = next.deliveries
          /\ r3.diags = next.diags
      BY <1>4, Parts
    <2> HIDE DEF r3
    <2>2. r4 = Rep(r3.from, r3.to, r3.plans, r3.actions, r3.outputs, d, r3.diags)
      BY <2>1, Replaced
    <2> HIDE DEF r4
    <2> QED
      BY <2>1, <2>2
  <1> HIDE DEF r4
  <1>6. r5 = Rep(e, next.to, a, b, c, d, next.diags)
    <2>1. /\ Known(r4) /\ r4.from = next.from
          /\ r4.to = next.to
          /\ r4.plans = a
          /\ r4.actions = b
          /\ r4.outputs = c
          /\ r4.deliveries = d
          /\ r4.diags = next.diags
      BY <1>5, Parts
    <2> HIDE DEF r4
    <2>2. r5 = Rep(e, r4.to, r4.plans, r4.actions, r4.outputs, r4.deliveries, r4.diags)
      BY <2>1, Replaced
    <2> HIDE DEF r5
    <2> QED
      BY <2>1, <2>2
  <1> HIDE DEF r5
  <1>7. r6 = Rep(e, next.to, a, b, c, d, f)
    <2>1. /\ Known(r5) /\ r5.from = e
          /\ r5.to = next.to
          /\ r5.plans = a
          /\ r5.actions = b
          /\ r5.outputs = c
          /\ r5.deliveries = d
          /\ r5.diags = next.diags
      BY <1>6, Parts
    <2> HIDE DEF r5
    <2>2. r6 = Rep(r5.from, r5.to, r5.plans, r5.actions, r5.outputs, r5.deliveries, f)
      BY <2>1, Replaced
    <2> HIDE DEF r6
    <2> QED
      BY <2>1, <2>2
  <1> HIDE DEF r6
  <1> QED
    BY <1>1, <1>7 DEF a, b, c, d, e, f

-----------------------------------------------------------------------------
(* A report that is applied. *)

\* Where the client stands.
ClientInv == Known(snapshot) /\ snapshot.from = 0 /\ snapshot.to \in Nat

Applied(from, to) ==
  /\ to \in 1 .. Last /\ from \in 0 .. to
  /\ to \in Nat /\ from <= snapshot.to /\ snapshot.to < to
  /\ historicalIdentity(snapshot, Report(from, to), TRUE)
  /\ snapshot' = Combined(snapshot, Report(from, to))

LEMMA ImportApplies ==
  ASSUME ClientInv, Import
  PROVE  /\ UNCHANGED <<history, forks>>
         /\ \E to, from : Applied(from, to)
  <1>0. PICK to \in 1 .. Last : \E from \in 0 .. to :
          /\ reportDecision(snapshot.to, from, to) = "apply"
          /\ Mergeable(snapshot, Report(from, to))
          /\ snapshot' = Merged(snapshot, Report(from, to))
    BY DEF Import
  <1>1. PICK from \in 0 .. to :
          /\ reportDecision(snapshot.to, from, to) = "apply"
          /\ Mergeable(snapshot, Report(from, to))
          /\ snapshot' = Merged(snapshot, Report(from, to))
    BY <1>0
  <1> DEFINE r == Report(from, to)
  <1>2. r.from = from /\ r.to = to
    BY ReportIs
  <1> HIDE DEF r
  <1>3. to \in Nat /\ snapshot.to \in Nat
    BY DEF ClientInv
  <1>4. ~(to <= snapshot.to) /\ from <= snapshot.to
    BY <1>1 DEF reportDecision
  <1>5. snapshot.to < to /\ ~(to < snapshot.to) /\ to > snapshot.to
    BY <1>3, <1>4
  <1>6. validateReportAgainstHistory(snapshot, r)
    BY <1>1 DEF Mergeable, r
  <1>7. historicalIdentity(snapshot, r, r.to > snapshot.to)
    BY <1>2, <1>5, <1>6 DEF validateReportAgainstHistory
  <1>8. historicalIdentity(snapshot, r, TRUE)
    BY <1>2, <1>5, <1>7
  <1>9. snapshot' = Combined(snapshot, r)
    BY <1>1, <1>2 DEF Merged, r
  <1> QED
    BY <1>3, <1>4, <1>5, <1>8, <1>9 DEF Import, Applied, r

LEMMA ClientInvInit == Init => ClientInv
  BY DEF Init, ClientInv, Known, Rep

LEMMA ClientInvNext == ClientInv /\ [Next]_vars => ClientInv'
  <1> SUFFICES ASSUME ClientInv, [Next]_vars
               PROVE  ClientInv'
    OBVIOUS
  <1>1. CASE snapshot' = snapshot
    BY <1>1 DEF ClientInv
  <1>2. CASE Import
    <2>1. PICK to, from : Applied(from, to)
      BY <1>2, ImportApplies
    <2> DEFINE r == Report(from, to)
    <2>2. Known(r) /\ r.to = to
      BY ReportIs
    <2>3. snapshot' = Combined(snapshot, r) /\ to \in Nat
      BY <2>1 DEF Applied
    <2> HIDE DEF r
    <2>4. Known(snapshot') /\ snapshot'.from = snapshot.from /\ snapshot'.to = r.to
      BY <2>2, <2>3, CombinedIs, Parts
    <2> QED
      BY <2>2, <2>3, <2>4 DEF ClientInv
  <1> QED
    BY <1>1, <1>2 DEF Next, Device, Fork, vars

LEMMA MergedDecides ==
  ASSUME NEW old, NEW next, Known(next), historicalIdentity(old, next, TRUE)
  PROVE  Decided(old, Combined(old, next))
  <1> DEFINE new == Combined(old, next)
  <1>1. /\ new.plans = members(old.plans, next.plans)
        /\ new.actions = members(old.actions, next.actions)
        /\ new.outputs = members(old.outputs, next.outputs)
        /\ new.deliveries = members(old.deliveries, next.deliveries)
        /\ new.diags = members(old.diags, next.diags)
    BY CombinedIs, Parts
  <1> HIDE DEF new
  <1>a. /\ DOMAIN new.plans = DOMAIN old.plans \union DOMAIN next.plans
        /\ DOMAIN new.outputs = DOMAIN old.outputs \union DOMAIN next.outputs
        /\ DOMAIN new.diags = DOMAIN old.diags \union DOMAIN next.diags
    BY <1>1 DEF members
  <1>b. /\ DOMAIN new.actions = DOMAIN old.actions \union DOMAIN next.actions
        /\ \A a \in DOMAIN next.actions : new.actions[a] = next.actions[a]
        /\ \A a \in DOMAIN old.actions : a \notin DOMAIN next.actions => new.actions[a] = old.actions[a]
    BY <1>1 DEF members
  <1>c. /\ DOMAIN new.deliveries = DOMAIN old.deliveries \union DOMAIN next.deliveries
        /\ \A d \in DOMAIN next.deliveries : new.deliveries[d] = next.deliveries[d]
        /\ \A d \in DOMAIN old.deliveries :
             d \notin DOMAIN next.deliveries => new.deliveries[d] = old.deliveries[d]
    BY <1>1 DEF members
  <1>2. \A kind \in Kinds : DOMAIN old[kind] \subseteq DOMAIN new[kind]
    BY <1>a, <1>b, <1>c DEF Kinds
  <1>3. ASSUME NEW a \in DOMAIN old.actions
        PROVE  /\ Terminal(old.actions[a].status) => new.actions[a].status = old.actions[a].status
               /\ old.actions[a].type = "obtain_action_outputs" =>
                    Failures(old.actions[a]) \subseteq Failures(new.actions[a])
    <2>1. CASE a \in DOMAIN next.actions
      <3> DEFINE x == old.actions[a]  y == next.actions[a]
      <3>1. new.actions[a] = y
        BY <1>b, <2>1
      <3>2. ActionAdvances(x, y)
        BY <2>1 DEF historicalIdentity, ActionHistory
      <3> HIDE DEF x, y
      <3>3. Terminal(x.status) => y.status = x.status
        BY <3>2 DEF ActionAdvances
      <3>4. x.type = "obtain_action_outputs" => Failures(x) \subseteq Failures(y)
        BY <3>2 DEF ActionAdvances, actionResultHistory, Cameras
      <3> QED
        BY <3>1, <3>3, <3>4 DEF x
    <2>2. CASE a \notin DOMAIN next.actions
      BY <1>b, <2>2
    <2> QED
      BY <2>1, <2>2
  <1>4. ASSUME NEW d \in DOMAIN old.deliveries
        PROVE  /\ old.deliveries[d].sha \subseteq new.deliveries[d].sha
               /\ old.deliveries[d].status \in {"failed", "canceled", "withdrawn"} =>
                    new.deliveries[d].status = old.deliveries[d].status
               /\ old.deliveries[d].status = "published" =>
                    new.deliveries[d].status \in {"published", "withdrawn"}
    <2>1. CASE d \in DOMAIN next.deliveries
      <3>1. new.deliveries[d] = next.deliveries[d]
        BY <1>c, <2>1
      <3> QED
        BY <2>1, <3>1 DEF historicalIdentity, DeliveryHistory
    <2>2. CASE d \notin DOMAIN next.deliveries
      BY <1>c, <2>2
    <2> QED
      BY <2>1, <2>2
  <1>5. Decided(old, new)
    BY <1>2, <1>3, <1>4 DEF Decided, Kinds
  <1> QED
    BY <1>5 DEF new

\* Whatever a device reports, nothing that was reported as decided is taken
\* back by an accepted report (historicalIdentity in mergeReport).
THEOREM DecisionsStay == Spec => DecidedStays
  <1>1. ClientInv /\ [Next]_vars => [Decided(snapshot, snapshot')]_vars
    <2> SUFFICES ASSUME ClientInv, Next, snapshot' = snapshot \/ Import
                 PROVE  Decided(snapshot, snapshot')
      BY DEF Next, Device, Fork, vars
    <2>1. CASE snapshot' = snapshot
      BY <2>1 DEF Decided
    <2>2. CASE Import
      <3>1. PICK to, from : Applied(from, to)
        BY <2>2, ImportApplies
      <3>2. Known(Report(from, to))
        BY ReportIs
      <3> QED
        BY <3>1, <3>2, MergedDecides DEF Applied
    <2> QED
      BY <2>1, <2>2
  <1>2. Spec => []ClientInv
    BY ClientInvInit, ClientInvNext, PTL DEF Spec
  <1> QED
    BY <1>1, <1>2, PTL DEF Spec, DecidedStays

------------------------------------------------------------------------------
(* The states of the device. *)

State(p, a, o, d, x) == [plans |-> p, actions |-> a, outputs |-> o, deliveries |-> d, diags |-> x]
Mapping(f) == f = [e \in DOMAIN f |-> f[e]]
Shaped(w) ==
  /\ w = State(w.plans, w.actions, w.outputs, w.deliveries, w.diags)
  /\ Mapping(w.plans) /\ Mapping(w.actions) /\ Mapping(w.outputs)
  /\ Mapping(w.deliveries) /\ Mapping(w.diags)

PlanOf(w, x) == "plan" \in DOMAIN x /\ x.plan \in DOMAIN w.plans
ParentOf(w, x) == "parent" \in DOMAIN x /\ x.parent \in DOMAIN w.actions
World(w) ==
  /\ Shaped(w)
  /\ DOMAIN w.plans # {} => "p" \in DOMAIN w.plans
  /\ "p" \in DOMAIN w.plans => {"rec", "get"} \subseteq DOMAIN w.actions
  /\ \A a \in DOMAIN w.actions : PlanOf(w, w.actions[a])
  /\ \A o \in DOMAIN w.outputs : ParentOf(w, w.outputs[o])
  /\ \A d \in DOMAIN w.deliveries : ParentOf(w, w.deliveries[d])
Grows(v, w) == \A kind \in Kinds : DOMAIN v[kind] \subseteq DOMAIN w[kind]

LEMMA StateParts ==
  ASSUME NEW p, NEW a, NEW o, NEW d, NEW x
  PROVE  LET w == State(p, a, o, d, x) IN
         /\ w.plans = p /\ w.actions = a /\ w.outputs = o /\ w.deliveries = d /\ w.diags = x
         /\ w = State(w.plans, w.actions, w.outputs, w.deliveries, w.diags)
  BY DEF State

LEMMA EmptyWorld == World(Empty)
  <1> DEFINE none == <<>>
  <1>1. Mapping(none) /\ DOMAIN none = {}
    BY DEF Mapping
  <1>2. Empty = State(none, none, none, none, none)
    BY DEF Empty, State
  <1> HIDE DEF none
  <1>3. /\ Empty.plans = none /\ Empty.actions = none /\ Empty.outputs = none
        /\ Empty.deliveries = none /\ Empty.diags = none
        /\ Empty = State(Empty.plans, Empty.actions, Empty.outputs, Empty.deliveries, Empty.diags)
    BY <1>2, StateParts
  <1> QED
    BY <1>1, <1>3 DEF World, Shaped

LEMMA Replacing ==
  ASSUME NEW w, w = State(w.plans, w.actions, w.outputs, w.deliveries, w.diags), NEW y
  PROVE  /\ [w EXCEPT !.plans = y] = State(y, w.actions, w.outputs, w.deliveries, w.diags)
         /\ [w EXCEPT !.actions = y] = State(w.plans, y, w.outputs, w.deliveries, w.diags)
         /\ [w EXCEPT !.outputs = y] = State(w.plans, w.actions, y, w.deliveries, w.diags)
         /\ [w EXCEPT !.deliveries = y] = State(w.plans, w.actions, w.outputs, y, w.diags)
         /\ [w EXCEPT !.diags = y] = State(w.plans, w.actions, w.outputs, w.deliveries, y)
  BY DEF State

LEMMA PutIs ==
  ASSUME NEW w, Shaped(w), NEW e, NEW x
  PROVE  /\ Put(w, "actions", e, x) = State(w.plans, With(w.actions, e, x), w.outputs, w.deliveries, w.diags)
         /\ Put(w, "outputs", e, x) = State(w.plans, w.actions, With(w.outputs, e, x), w.deliveries, w.diags)
         /\ Put(w, "deliveries", e, x) = State(w.plans, w.actions, w.outputs, With(w.deliveries, e, x), w.diags)
         /\ Put(w, "diags", e, x) = State(w.plans, w.actions, w.outputs, w.deliveries, With(w.diags, e, x))
  <1>2. w = State(w.plans, w.actions, w.outputs, w.deliveries, w.diags)
    BY DEF Shaped
  <1>4. Put(w, "actions", e, x) = [w EXCEPT !.actions = With(w.actions, e, x)]
    BY DEF Put
  <1>5. Put(w, "outputs", e, x) = [w EXCEPT !.outputs = With(w.outputs, e, x)]
    BY DEF Put
  <1>6. Put(w, "deliveries", e, x) = [w EXCEPT !.deliveries = With(w.deliveries, e, x)]
    BY DEF Put
  <1>7. Put(w, "diags", e, x) = [w EXCEPT !.diags = With(w.diags, e, x)]
    BY DEF Put
  <1> DEFINE fa == With(w.actions, e, x)  fo == With(w.outputs, e, x)
             fd == With(w.deliveries, e, x)  fx == With(w.diags, e, x)
  <1> HIDE DEF fa, fo, fd, fx
  <1>8. /\ [w EXCEPT !.actions = fa] = State(w.plans, fa, w.outputs, w.deliveries, w.diags)
        /\ [w EXCEPT !.outputs = fo] = State(w.plans, w.actions, fo, w.deliveries, w.diags)
        /\ [w EXCEPT !.deliveries = fd] = State(w.plans, w.actions, w.outputs, fd, w.diags)
        /\ [w EXCEPT !.diags = fx] = State(w.plans, w.actions, w.outputs, w.deliveries, fx)
    BY <1>2, Replacing
  <1> QED
    BY <1>4, <1>5, <1>6, <1>7, <1>8 DEF fa, fo, fd, fx

LEMMA GrowsOn == ASSUME NEW u, NEW v, NEW w, Grows(u, v), Grows(v, w) PROVE Grows(u, w)
  BY DEF Grows

\* What is put into a state of the device leaves it one.
LEMMA PutAction ==
  ASSUME NEW w, World(w), NEW e, NEW x, PlanOf(w, x)
  PROVE  LET v == Put(w, "actions", e, x) IN World(v) /\ Grows(w, v) /\ v.plans = w.plans
         /\ v.outputs = w.outputs /\ v.deliveries = w.deliveries
         /\ v.actions = With(w.actions, e, x)
  <1> DEFINE v == Put(w, "actions", e, x)  f == With(w.actions, e, x)
  <1>1. v = State(w.plans, f, w.outputs, w.deliveries, w.diags)
    BY PutIs DEF World
  <1> HIDE DEF v, f
  <1>2. /\ v.plans = w.plans /\ v.actions = f /\ v.outputs = w.outputs
        /\ v.deliveries = w.deliveries /\ v.diags = w.diags
        /\ v = State(v.plans, v.actions, v.outputs, v.deliveries, v.diags)
    BY <1>1, StateParts
  <1>3. /\ Mapping(f) /\ DOMAIN f = DOMAIN w.actions \union {e} /\ f[e] = x
        /\ \A y \in DOMAIN w.actions : y # e => f[y] = w.actions[y]
    BY DEF f, With, Mapping
  <1>4. Shaped(v)
    BY <1>2, <1>3 DEF World, Shaped
  <1>5. World(v)
    BY <1>2, <1>3, <1>4 DEF World, PlanOf, ParentOf
  <1>6. Grows(w, v)
    BY <1>2, <1>3 DEF Grows, Kinds
  <1> QED
    BY <1>2, <1>5, <1>6 DEF v, f

LEMMA PutOutput ==
  ASSUME NEW w, World(w), NEW e, NEW x, ParentOf(w, x)
  PROVE  LET v == Put(w, "outputs", e, x) IN World(v) /\ Grows(w, v) /\ v.plans = w.plans
         /\ v.actions = w.actions /\ v.deliveries = w.deliveries
         /\ v.outputs = With(w.outputs, e, x)
  <1> DEFINE v == Put(w, "outputs", e, x)  f == With(w.outputs, e, x)
  <1>1. v = State(w.plans, w.actions, f, w.deliveries, w.diags)
    BY PutIs DEF World
  <1> HIDE DEF v, f
  <1>2. /\ v.plans = w.plans /\ v.actions = w.actions /\ v.outputs = f
        /\ v.deliveries = w.deliveries /\ v.diags = w.diags
        /\ v = State(v.plans, v.actions, v.outputs, v.deliveries, v.diags)
    BY <1>1, StateParts
  <1>3. /\ Mapping(f) /\ DOMAIN f = DOMAIN w.outputs \union {e} /\ f[e] = x
        /\ \A y \in DOMAIN w.outputs : y # e => f[y] = w.outputs[y]
    BY DEF f, With, Mapping
  <1>4. Shaped(v)
    BY <1>2, <1>3 DEF World, Shaped
  <1>5. World(v)
    BY <1>2, <1>3, <1>4 DEF World, PlanOf, ParentOf
  <1>6. Grows(w, v)
    BY <1>2, <1>3 DEF Grows, Kinds
  <1> QED
    BY <1>2, <1>5, <1>6 DEF v, f

LEMMA PutDelivery ==
  ASSUME NEW w, World(w), NEW e, NEW x, ParentOf(w, x)
  PROVE  LET v == Put(w, "deliveries", e, x) IN World(v) /\ Grows(w, v) /\ v.plans = w.plans
         /\ v.actions = w.actions /\ v.outputs = w.outputs
         /\ v.deliveries = With(w.deliveries, e, x)
  <1> DEFINE v == Put(w, "deliveries", e, x)  f == With(w.deliveries, e, x)
  <1>1. v = State(w.plans, w.actions, w.outputs, f, w.diags)
    BY PutIs DEF World
  <1> HIDE DEF v, f
  <1>2. /\ v.plans = w.plans /\ v.actions = w.actions /\ v.outputs = w.outputs
        /\ v.deliveries = f /\ v.diags = w.diags
        /\ v = State(v.plans, v.actions, v.outputs, v.deliveries, v.diags)
    BY <1>1, StateParts
  <1>3. /\ Mapping(f) /\ DOMAIN f = DOMAIN w.deliveries \union {e} /\ f[e] = x
        /\ \A y \in DOMAIN w.deliveries : y # e => f[y] = w.deliveries[y]
    BY DEF f, With, Mapping
  <1>4. Shaped(v)
    BY <1>2, <1>3 DEF World, Shaped
  <1>5. World(v)
    BY <1>2, <1>3, <1>4 DEF World, PlanOf, ParentOf
  <1>6. Grows(w, v)
    BY <1>2, <1>3 DEF Grows, Kinds
  <1> QED
    BY <1>2, <1>5, <1>6 DEF v, f

LEMMA DiagnoseGrows ==
  ASSUME NEW w, World(w), NEW v \in Diagnose(w)
  PROVE  World(v) /\ Grows(w, v)
  <1> DEFINE f == With(w.diags, "x", "x")
  <1>1. v = State(w.plans, w.actions, w.outputs, w.deliveries, f)
    BY PutIs DEF World, Diagnose
  <1> HIDE DEF f
  <1>2. /\ v.plans = w.plans /\ v.actions = w.actions /\ v.outputs = w.outputs
        /\ v.deliveries = w.deliveries /\ v.diags = f
        /\ v = State(v.plans, v.actions, v.outputs, v.deliveries, v.diags)
    BY <1>1, StateParts
  <1>3. Mapping(f) /\ DOMAIN f = DOMAIN w.diags \union {"x"}
    BY DEF f, With, Mapping
  <1>4. Shaped(v)
    BY <1>2, <1>3 DEF World, Shaped
  <1>5. World(v)
    BY <1>2, <1>3, <1>4 DEF World, PlanOf, ParentOf
  <1> QED
    BY <1>2, <1>3, <1>5 DEF Grows, Kinds

\* A changed entity stays below its plan or action.
LEMMA FieldKept ==
  ASSUME NEW r, NEW x
  PROVE  /\ \A w : PlanOf(w, r) => /\ PlanOf(w, [r EXCEPT !.status = x])
                                   /\ PlanOf(w, [r EXCEPT !.started = x])
                                   /\ PlanOf(w, [r EXCEPT !.expired = x])
                                   /\ PlanOf(w, [r EXCEPT !.result = x])
                                   /\ PlanOf(w, [r EXCEPT !.input = x])
                                   /\ PlanOf(w, [r EXCEPT !.error = x])
                                   /\ PlanOf(w, [r EXCEPT !.group = x])
         /\ \A w : ParentOf(w, r) => /\ ParentOf(w, [r EXCEPT !.status = x])
                                     /\ ParentOf(w, [r EXCEPT !.size = x])
                                     /\ ParentOf(w, [r EXCEPT !.sha = x])
                                     /\ ParentOf(w, [r EXCEPT !.cleanup = x])
                                     /\ ParentOf(w, [r EXCEPT !.availability = x])
                                     /\ ParentOf(w, [r EXCEPT !.error = x])
  BY DEF PlanOf, ParentOf

LEMMA StartedKept ==
  ASSUME NEW w, NEW r, PlanOf(w, r), NEW x, NEW y
  PROVE  /\ PlanOf(w, Started(r, x))
         /\ PlanOf(w, Ended(r, x, y))
         /\ PlanOf(w, [r EXCEPT !.status = x, !.expired = y])
  <1>1. Started(r, x) = [[[r EXCEPT !.status = "running"] EXCEPT !.started = TRUE] EXCEPT !.result = {x}]
    BY DEF Started
  <1>2. Ended(r, x, y) = [[r EXCEPT !.status = x] EXCEPT !.result = {y}]
    BY DEF Ended
  <1>3. [r EXCEPT !.status = x, !.expired = y] = [[r EXCEPT !.status = x] EXCEPT !.expired = y]
    OBVIOUS
  <1> DEFINE r1 == [r EXCEPT !.status = "running"]
             r2 == [r1 EXCEPT !.started = TRUE]
             r3 == [r EXCEPT !.status = x]
  <1>4. PlanOf(w, r1) /\ PlanOf(w, r3)
    BY FieldKept
  <1> HIDE DEF r1, r3
  <1>5. PlanOf(w, r2)
    BY <1>4, FieldKept
  <1> HIDE DEF r2
  <1>6. PlanOf(w, [r2 EXCEPT !.result = {x}]) /\ PlanOf(w, [r3 EXCEPT !.result = {y}])
        /\ PlanOf(w, [r3 EXCEPT !.expired = y])
    BY <1>4, <1>5, FieldKept
  <1> QED
    BY <1>1, <1>2, <1>3, <1>6 DEF r1, r2, r3

LEMMA SettleGrows ==
  ASSUME NEW w, World(w)
  PROVE  World(Settle(w)) /\ Grows(w, Settle(w))
  <1> DEFINE g == [p \in DOMAIN w.plans |->
       LET own == {a \in DOMAIN w.actions : w.actions[a].plan = p} IN
       [w.plans[p] EXCEPT !.status =
          IF \A a \in own : Terminal(w.actions[a].status) THEN "completed"
          ELSE IF \E a \in own : w.actions[a].started THEN "running" ELSE "pending"]]
       v == [w EXCEPT !.plans = g]
  <1>1. Settle(w) = v
    BY DEF Settle
  <1>2. DOMAIN g = DOMAIN w.plans /\ Mapping(g)
    BY DEF Mapping
  <1> HIDE DEF g
  <1>3. v = State(g, w.actions, w.outputs, w.deliveries, w.diags)
    BY Replacing DEF World, Shaped
  <1> HIDE DEF v
  <1>4. /\ v.plans = g /\ v.actions = w.actions /\ v.outputs = w.outputs
        /\ v.deliveries = w.deliveries /\ v.diags = w.diags
        /\ v = State(v.plans, v.actions, v.outputs, v.deliveries, v.diags)
    BY <1>3, StateParts
  <1>5. Shaped(v)
    BY <1>2, <1>4 DEF World, Shaped
  <1>6. World(v)
    BY <1>2, <1>4, <1>5 DEF World, PlanOf, ParentOf
  <1>7. Grows(w, v)
    BY <1>2, <1>4 DEF Grows, Kinds
  <1> QED
    BY <1>1, <1>6, <1>7

LEMMA ActionPlan ==
  ASSUME NEW w, NEW p, p \in DOMAIN w.plans, NEW a, NEW t, NEW i
  PROVE  PlanOf(w, Action(p, a, t, i))
  BY DEF Action, PlanOf

------------------------------------------------------------------------------
(* Its changes. *)

LEMMA FirstGrows ==
  ASSUME NEW w, World(w), NEW v \in AcceptFirst(w)
  PROVE  World(v) /\ Grows(w, v)
  <1> DEFINE rec == [Action("p", "rec", "camera_record", Asked) EXCEPT !.group = {"g"}]
             good == Action("p", "get", "obtain_action_outputs", [Asked EXCEPT !.source = {ByGroup}])
             bad == [good EXCEPT !.input = [Asked EXCEPT !.valid = FALSE],
                                 !.status = "failed", !.error = {[stage |-> "admission"]}]
             ps == [p |-> Plan(1)]
  <1>1. /\ "p" \notin DOMAIN w.plans
        /\ \E g \in {good, bad} : v = [w EXCEPT !.plans = ps, !.actions = [rec |-> rec, get |-> g]]
    BY DEF AcceptFirst, Has
  <1>2. PICK g \in {good, bad} : v = [w EXCEPT !.plans = ps, !.actions = [rec |-> rec, get |-> g]]
    BY <1>1
  <1>3. DOMAIN ps = {"p"} /\ Mapping(ps)
    BY DEF Mapping
  <1> HIDE DEF ps
  <1>4. \A u : u.plans = ps => PlanOf(u, rec) /\ PlanOf(u, good)
    <2> SUFFICES ASSUME NEW u, u.plans = ps
                 PROVE  PlanOf(u, rec) /\ PlanOf(u, good)
      OBVIOUS
    <2> DEFINE r0 == Action("p", "rec", "camera_record", Asked)
               i == [Asked EXCEPT !.source = {ByGroup}]
    <2>1. PlanOf(u, r0)
      BY <1>3, ActionPlan
    <2> HIDE DEF r0, i
    <2>2. PlanOf(u, [r0 EXCEPT !.group = {"g"}])
      BY <2>1, FieldKept
    <2>3. PlanOf(u, Action("p", "get", "obtain_action_outputs", i))
      BY <1>3, ActionPlan
    <2> QED
      BY <2>2, <2>3 DEF r0, i
  <1>5. \A u : u.plans = ps => PlanOf(u, bad)
    <2> SUFFICES ASSUME NEW u, u.plans = ps
                 PROVE  PlanOf(u, bad)
      OBVIOUS
    <2> DEFINE i == [Asked EXCEPT !.valid = FALSE]  e == {[stage |-> "admission"]}
               b1 == [good EXCEPT !.input = i]
               b2 == [b1 EXCEPT !.status = "failed"]
               b3 == [b2 EXCEPT !.error = e]
    <2>0. PlanOf(u, good)
      BY <1>4
    <2> HIDE DEF good, i, e
    <2>1. PlanOf(u, b1)
      BY <2>0, FieldKept
    <2>2. bad = b3
      BY DEF i, e
    <2> HIDE DEF b1
    <2>3. PlanOf(u, b2)
      BY <2>1, FieldKept
    <2> HIDE DEF b2
    <2>4. PlanOf(u, b3)
      BY <2>3, FieldKept
    <2> HIDE DEF b3, bad
    <2> QED
      BY <2>2, <2>4
  <1> HIDE DEF rec, good, bad
  <1> DEFINE acts == [rec |-> rec, get |-> g]
             v1 == [w EXCEPT !.plans = ps]
             v2 == [v1 EXCEPT !.actions = acts]
  <1>6. v = v2
    BY <1>2
  <1>7. DOMAIN acts = {"rec", "get"} /\ Mapping(acts) /\ acts["rec"] = rec /\ acts["get"] = g
    BY DEF Mapping
  <1> HIDE DEF acts
  <1>8. v1 = State(ps, w.actions, w.outputs, w.deliveries, w.diags)
    BY Replacing DEF World, Shaped
  <1> HIDE DEF v1
  <1>9. /\ v1.plans = ps /\ v1.actions = w.actions /\ v1.outputs = w.outputs
        /\ v1.deliveries = w.deliveries /\ v1.diags = w.diags
        /\ v1 = State(v1.plans, v1.actions, v1.outputs, v1.deliveries, v1.diags)
    BY <1>8, StateParts
  <1>10. v2 = State(v1.plans, acts, v1.outputs, v1.deliveries, v1.diags)
    BY <1>9, Replacing
  <1> HIDE DEF v2
  <1>11. /\ v.plans = ps /\ v.actions = acts /\ v.outputs = w.outputs
         /\ v.deliveries = w.deliveries /\ v.diags = w.diags
         /\ v = State(v.plans, v.actions, v.outputs, v.deliveries, v.diags)
    BY <1>6, <1>9, <1>10, StateParts
  <1>12. Shaped(v)
    BY <1>3, <1>7, <1>11 DEF World, Shaped
  <1>13. DOMAIN w.plans = {} /\ DOMAIN w.actions = {}
    BY <1>1 DEF World, PlanOf
  <1>14. PlanOf(v, rec) /\ PlanOf(v, g)
    BY <1>4, <1>5, <1>11
  <1>15. World(v)
    BY <1>3, <1>7, <1>11, <1>12, <1>13, <1>14 DEF World, ParentOf
  <1>16. Grows(w, v)
    BY <1>11, <1>13 DEF Grows, Kinds
  <1> QED
    BY <1>15, <1>16

LEMMA SecondGrows ==
  ASSUME NEW w, World(w), NEW v \in AcceptSecond(w)
  PROVE  World(v) /\ Grows(w, v)
  <1> DEFINE i == [Asked EXCEPT !.target = {OfGet}]
             j == [Asked EXCEPT !.outputs = {<<"o">>}]
             shot == Action("q", "shot", "camera_take_photo", Asked)
             cut == Action("q", "cut", "cancel_task", i)
             del == Action("q", "del", "delete_action_outputs", j)
             more == [shot |-> shot, cut |-> cut, del |-> del]
             ps == With(w.plans, "q", Plan(2))
             acts == Added(w.actions, more)
             v1 == [w EXCEPT !.plans = ps]
             v2 == [v1 EXCEPT !.actions = acts]
  <1>1. Has(w, "plans", "p") /\ v = v2
    BY DEF AcceptSecond
  <1>2. DOMAIN ps = DOMAIN w.plans \union {"q"} /\ Mapping(ps)
    BY DEF With, Mapping
  <1> HIDE DEF ps
  <1>3. \A u : u.plans = ps => PlanOf(u, shot) /\ PlanOf(u, cut) /\ PlanOf(u, del)
    <2> HIDE DEF i, j
    <2> SUFFICES ASSUME NEW u, u.plans = ps
                 PROVE  PlanOf(u, shot) /\ PlanOf(u, cut) /\ PlanOf(u, del)
      OBVIOUS
    <2> QED
      BY <1>2, ActionPlan
  <1> HIDE DEF shot, cut, del
  <1>4. /\ DOMAIN more = {"shot", "cut", "del"}
        /\ more["shot"] = shot /\ more["cut"] = cut /\ more["del"] = del
    OBVIOUS
  <1> HIDE DEF more
  <1>5. /\ DOMAIN acts = DOMAIN w.actions \union {"shot", "cut", "del"} /\ Mapping(acts)
        /\ \A a \in DOMAIN more : acts[a] = more[a]
        /\ \A a \in DOMAIN w.actions : a \notin DOMAIN more => acts[a] = w.actions[a]
    BY <1>4 DEF Added, Mapping
  <1> HIDE DEF acts
  <1>8. v1 = State(ps, w.actions, w.outputs, w.deliveries, w.diags)
    BY Replacing DEF World, Shaped
  <1> HIDE DEF v1
  <1>9. /\ v1.plans = ps /\ v1.actions = w.actions /\ v1.outputs = w.outputs
        /\ v1.deliveries = w.deliveries /\ v1.diags = w.diags
        /\ v1 = State(v1.plans, v1.actions, v1.outputs, v1.deliveries, v1.diags)
    BY <1>8, StateParts
  <1>10. v2 = State(v1.plans, acts, v1.outputs, v1.deliveries, v1.diags)
    BY <1>9, Replacing
  <1> HIDE DEF v2
  <1>11. /\ v.plans = ps /\ v.actions = acts /\ v.outputs = w.outputs
         /\ v.deliveries = w.deliveries /\ v.diags = w.diags
         /\ v = State(v.plans, v.actions, v.outputs, v.deliveries, v.diags)
    BY <1>1, <1>9, <1>10, StateParts
  <1>12. Shaped(v)
    BY <1>2, <1>5, <1>11 DEF World, Shaped
  <1>13. "p" \in DOMAIN w.plans /\ {"rec", "get"} \subseteq DOMAIN w.actions
    BY <1>1 DEF World, Has
  <1>14. PlanOf(v, shot) /\ PlanOf(v, cut) /\ PlanOf(v, del)
    BY <1>3, <1>11
  <1>15. \A a \in DOMAIN v.actions : PlanOf(v, v.actions[a])
    <2> SUFFICES ASSUME NEW a \in DOMAIN v.actions
                 PROVE  PlanOf(v, v.actions[a])
      OBVIOUS
    <2>1. CASE a \in DOMAIN more
      BY <1>4, <1>5, <1>11, <1>14, <2>1
    <2>2. CASE a \notin DOMAIN more
      <3>1. a \in DOMAIN w.actions /\ v.actions[a] = w.actions[a]
        BY <1>4, <1>5, <1>11, <2>2
      <3> QED
        BY <1>2, <1>11, <3>1 DEF World, PlanOf
    <2> QED
      BY <2>1, <2>2
  <1>16. World(v)
    BY <1>2, <1>5, <1>11, <1>12, <1>13, <1>15 DEF World, ParentOf
  <1>17. Grows(w, v)
    BY <1>2, <1>5, <1>11 DEF Grows, Kinds
  <1> QED
    BY <1>16, <1>17

\* Actions, outputs and deliveries that are changed one after the other.
LEMMA AgainGrows ==
  ASSUME NEW w, World(w), NEW u, World(u), Grows(w, u), u.plans = w.plans,
         NEW a, NEW x, PlanOf(w, x)
  PROVE  World(Put(u, "actions", a, x)) /\ Grows(w, Put(u, "actions", a, x))
  <1>1. PlanOf(u, x)
    BY DEF PlanOf
  <1>2. World(Put(u, "actions", a, x)) /\ Grows(u, Put(u, "actions", a, x))
    BY <1>1, PutAction
  <1> QED
    BY <1>2, GrowsOn

LEMMA RecordGrows ==
  ASSUME NEW w, World(w), NEW v \in Record(w)
  PROVE  World(v) /\ Grows(w, v)
  <1> DEFINE x == w.actions["rec"]
             r == Recorded(<<"failed", "running">>, <<>>)
             r1 == Recorded(<<"running">>, <<>>)
             Final(start, stop) ==
               [Recorded(start, stop) EXCEPT !.copy = {Copying(1, <<"succeeded">>, 2)},
                                             !.repair = {"not_needed"}]
             Forced == [Final(<<"failed", "succeeded">>, <<"failed", "failed">>) EXCEPT
                          !.recording = {[g EXCEPT !.emergency = [e |-> [session |-> 1, max |-> {2}, used |-> 1]]]
                                           : g \in @}]
             good == Final(<<"succeeded">>, <<"succeeded">>)
             u == Put(w, "outputs", "o", Output)
             End(status, result) == Put(u, "actions", "rec", Ended(x, status, result))
             missed == [x EXCEPT !.status = "expired", !.expired = {"window_missed"}]
  <1>1. Has(w, "actions", "rec")
    BY DEF Record, Is
  <1>2. v \in {Put(w, "actions", "rec", y) : y \in {Started(x, r1), missed}}
        \/ v \in {End("failed", Forced)}
        \/ v \in {Put(w, "actions", "rec", Ended(x, "running", r)), End("succeeded", good)}
    BY DEF Record
  <1> HIDE DEF r, r1, Forced, good, missed
  <1>3. \/ v = Put(w, "actions", "rec", Started(x, r1))
        \/ v = Put(w, "actions", "rec", missed)
        \/ v = Put(w, "actions", "rec", Ended(x, "running", r))
        \/ v = Put(u, "actions", "rec", Ended(x, "failed", Forced))
        \/ v = Put(u, "actions", "rec", Ended(x, "succeeded", good))
    BY <1>2
  <1>4. PlanOf(w, x)
    BY <1>1 DEF World, Has
  <1> HIDE DEF x
  <1>5. /\ PlanOf(w, Started(x, r1)) /\ PlanOf(w, Ended(x, "running", r))
        /\ PlanOf(w, Ended(x, "failed", Forced)) /\ PlanOf(w, Ended(x, "succeeded", good))
        /\ PlanOf(w, missed)
    BY <1>4, StartedKept DEF missed
  <1>6. ParentOf(w, Output)
    BY <1>1 DEF ParentOf, Output, Has
  <1>7. World(u) /\ Grows(w, u) /\ u.plans = w.plans
    BY <1>6, PutOutput
  <1> HIDE DEF u
  <1> QED
    BY <1>3, <1>5, <1>7, PutAction, AgainGrows

LEMMA DigestGrows ==
  ASSUME NEW w, World(w), NEW v \in Digest(w)
  PROVE  World(v) /\ Grows(w, v)
  <1> DEFINE r == w.outputs["o"]
             r1 == [r EXCEPT !.size = {2}]
             r2 == [r1 EXCEPT !.sha = {"right"}]
  <1>1. Has(w, "outputs", "o") /\ v = Put(w, "outputs", "o", r2)
    BY DEF Digest
  <1>2. ParentOf(w, r)
    BY <1>1 DEF World, Has
  <1> HIDE DEF r
  <1>3. ParentOf(w, r1)
    BY <1>2, FieldKept
  <1> HIDE DEF r1
  <1>4. ParentOf(w, r2)
    BY <1>3, FieldKept
  <1> HIDE DEF r2
  <1> QED
    BY <1>1, <1>4, PutOutput

LEMMA DeliveryParent ==
  ASSUME NEW w, "get" \in DOMAIN w.actions, NEW status, NEW copy
  PROVE  ParentOf(w, Delivery(status, copy))
  BY DEF ParentOf, Delivery

LEMMA RetrieveGrows ==
  ASSUME NEW w, World(w), NEW v \in Retrieve(w)
  PROVE  World(v) /\ Grows(w, v)
  <1> DEFINE y == Delivery("pending", Copying(1, <<>>, 0))
             u == Put(w, "deliveries", "d", y)
             none == [failures |-> {}]
             x == w.actions["get"]
  <1>1. Is(w, "get", "pending") /\ v = Put(u, "actions", "get", Started(x, none))
    BY DEF Retrieve
  <1>2. PlanOf(w, x) /\ ParentOf(w, y)
    BY <1>1, DeliveryParent DEF World, Is, Has
  <1> HIDE DEF x, y, none
  <1>3. World(u) /\ Grows(w, u) /\ u.plans = w.plans
    BY <1>2, PutDelivery
  <1>4. PlanOf(w, Started(x, none))
    BY <1>2, StartedKept
  <1> HIDE DEF u
  <1> QED
    BY <1>1, <1>3, <1>4, AgainGrows

LEMMA DeliverGrows ==
  ASSUME NEW w, World(w), NEW v \in Deliver(w)
  PROVE  World(v) /\ Grows(w, v)
  <1> DEFINE x == w.deliveries["d"]
             a == w.actions["get"]
             Now(status, copy) == Put(w, "deliveries", "d", Delivery(status, copy))
             f == [Delivery("failed", Copying(2, <<"failed", "failed">>, 0)) EXCEPT !.error = {"x"}]
             none == [failures |-> {}]
             lost == [failures |-> {Lost}]
  <1>1. Is(w, "get", "running")
    BY DEF Deliver
  <1>2. \/ \E s, c : v = Now(s, c)
        \/ v = Put(Put(w, "deliveries", "d", f), "actions", "get", Ended(a, "failed", lost))
        \/ v = Put(Now("published", x.copy), "actions", "get", Ended(a, "succeeded", none))
    BY DEF Deliver
  <1>3. PlanOf(w, a)
    BY <1>1 DEF World, Is, Has
  <1>4. "get" \in DOMAIN w.actions
    BY <1>1 DEF Is, Has
  <1>5. ParentOf(w, f)
    <2> DEFINE y == Delivery("failed", Copying(2, <<"failed", "failed">>, 0))
    <2>1. ParentOf(w, y)
      BY <1>4, DeliveryParent
    <2> HIDE DEF y
    <2>2. ParentOf(w, [y EXCEPT !.error = {"x"}])
      BY <2>1, FieldKept
    <2> QED
      BY <2>2 DEF y
  <1> HIDE DEF a, f, none, lost
  <1>6. PlanOf(w, Ended(a, "failed", lost)) /\ PlanOf(w, Ended(a, "succeeded", none))
    BY <1>3, StartedKept
  <1>7. CASE \E s, c : v = Now(s, c)
    <2>1. PICK s, c : v = Put(w, "deliveries", "d", Delivery(s, c))
      BY <1>7
    <2>2. ParentOf(w, Delivery(s, c))
      BY <1>4, DeliveryParent
    <2> QED
      BY <2>1, <2>2, PutDelivery
  <1>8. CASE v = Put(Put(w, "deliveries", "d", f), "actions", "get", Ended(a, "failed", lost))
    <2> DEFINE u == Put(w, "deliveries", "d", f)
    <2>1. World(u) /\ Grows(w, u) /\ u.plans = w.plans
      BY <1>5, PutDelivery
    <2> HIDE DEF u
    <2>2. World(Put(u, "actions", "get", Ended(a, "failed", lost)))
          /\ Grows(w, Put(u, "actions", "get", Ended(a, "failed", lost)))
      BY <1>6, <2>1, AgainGrows
    <2> QED
      BY <1>8, <2>2 DEF u
  <1>9. CASE v = Put(Now("published", x.copy), "actions", "get", Ended(a, "succeeded", none))
    <2> DEFINE c == x.copy  u == Put(w, "deliveries", "d", Delivery("published", c))
    <2>0. ParentOf(w, Delivery("published", c))
      BY <1>4, DeliveryParent
    <2>1. World(u) /\ Grows(w, u) /\ u.plans = w.plans
      BY <2>0, PutDelivery
    <2> HIDE DEF u
    <2>2. World(Put(u, "actions", "get", Ended(a, "succeeded", none)))
          /\ Grows(w, Put(u, "actions", "get", Ended(a, "succeeded", none)))
      BY <1>6, <2>1, AgainGrows
    <2> QED
      BY <1>9, <2>2 DEF u
  <1> QED
    BY <1>2, <1>7, <1>8, <1>9

LEMMA FirstPlanStays ==
  ASSUME NEW w, World(w), NEW a \in DOMAIN w.actions
  PROVE  {"rec", "get"} \subseteq DOMAIN w.actions
  BY DEF World, PlanOf

LEMMA PhotographGrows ==
  ASSUME NEW w, World(w), NEW v \in Photograph(w)
  PROVE  World(v) /\ Grows(w, v)
  <1> DEFINE x == w.actions["shot"]
             rec == w.actions["rec"]
             Taken(n, statuses) ==
               [count |-> {n}, start |-> {[max |-> 1, attempts |-> Try(statuses)]}, stop |-> {}]
             flow(status) == [trigger |-> "shot", max |-> 1, attempts |-> Try(<<status>>),
                              status |-> status, error |-> {}]
             G(r, status) ==
               [r EXCEPT !.recording = {[g EXCEPT !.followup = [s |-> flow(status)]] : g \in @}]
             Stopping(status) ==
               [w.actions["rec"] EXCEPT !.result = {G(r, status) : r \in @}]
             t0 == Taken(0, <<>>)
             t1 == Taken(1, <<"succeeded">>)
             s0 == Stopping("running")
             s1 == Stopping("succeeded")
  <1>1. Has(w, "actions", "shot")
    BY DEF Photograph, Is
  <1>2. \/ v = Put(Put(w, "actions", "shot", Started(x, t0)), "actions", "rec", s0)
        \/ v = Put(w, "actions", "shot", Ended(x, "succeeded", t1))
        \/ v = Put(w, "actions", "rec", s1)
    BY DEF Photograph
  <1>3. PlanOf(w, x) /\ PlanOf(w, rec)
    BY <1>1, FirstPlanStays DEF World, Has
  <1>4. ASSUME NEW status PROVE PlanOf(w, Stopping(status))
    <2> DEFINE new == {G(r, status) : r \in rec.result}
    <2> HIDE DEF G
    <2>1. Stopping(status) = [rec EXCEPT !.result = new]
      OBVIOUS
    <2> HIDE DEF rec, new
    <2>2. PlanOf(w, [rec EXCEPT !.result = new])
      BY <1>3, FieldKept
    <2> QED
      BY <2>1, <2>2
  <1> HIDE DEF Stopping
  <1>5. PlanOf(w, s0) /\ PlanOf(w, s1)
    BY <1>4
  <1> HIDE DEF x, s0, s1, t0, t1
  <1>6. PlanOf(w, Started(x, t0)) /\ PlanOf(w, Ended(x, "succeeded", t1))
    BY <1>3, StartedKept
  <1> DEFINE u == Put(w, "actions", "shot", Started(x, t0))
  <1>7. World(u) /\ Grows(w, u) /\ u.plans = w.plans
    BY <1>6, PutAction
  <1> HIDE DEF u
  <1>8. World(Put(u, "actions", "rec", s0)) /\ Grows(w, Put(u, "actions", "rec", s0))
    BY <1>5, <1>7, AgainGrows
  <1> QED
    BY <1>2, <1>5, <1>6, <1>8, PutAction DEF u

LEMMA CancelGrows ==
  ASSUME NEW w, World(w), NEW v \in Cancel(w)
  PROVE  World(v) /\ Grows(w, v)
  <1> DEFINE x == w.actions["cut"]
             get == w.actions["get"]
             d == w.deliveries["d"]
             known == {"d"} \intersect DOMAIN w.deliveries
             Items1(status, each) ==
               [items |-> [get |-> [status |-> status,
                                    withdrawals |-> [e \in known |-> [status |-> each]]]]]
             taken == [d EXCEPT !.status = "withdrawn"]
             over == [d EXCEPT !.status = "canceled"]
             off == [get EXCEPT !.status = "canceled"]
             published == known # {} /\ w.deliveries["d"].status = "published"
             i0 == Items1("running", "pending")
             i1 == Items1("succeeded", "withdrawn")
             i2 == Items1("succeeded", "not_retractable")
             u == Put(w, "deliveries", "d", taken)
             c == Put(w, "deliveries", "d", over)
             stopped == IF known # {} /\ w.deliveries["d"].status \in Unfinished THEN c ELSE w
             z == IF Terminal(w.actions["get"].status) THEN w ELSE Put(stopped, "actions", "get", off)
  <1>1. Has(w, "actions", "cut")
    BY DEF Cancel, Is
  <1>2. PlanOf(w, x) /\ PlanOf(w, get)
    BY <1>1, FirstPlanStays DEF World, Has
  <1>3. known # {} => ParentOf(w, d)
    BY DEF World
  <1>4. \/ v = Put(w, "actions", "cut", Started(x, i0))
        \/ published /\ v = Put(u, "actions", "cut", Ended(x, "succeeded", i1))
        \/ v = Put(z, "actions", "cut", Ended(x, "succeeded", i2))
    <2>1. CASE Is(w, "cut", "pending")
      BY <2>1 DEF Cancel
    <2>2. CASE ~Is(w, "cut", "pending") /\ published
      BY <2>2 DEF Cancel
    <2>3. CASE ~Is(w, "cut", "pending") /\ ~published
      BY <2>3 DEF Cancel
    <2> QED
      BY <2>1, <2>2, <2>3
  <1> HIDE DEF i0, i1, i2, x, get, d
  <1>5. PlanOf(w, Started(x, i0)) /\ PlanOf(w, Ended(x, "succeeded", i1))
        /\ PlanOf(w, Ended(x, "succeeded", i2))
    BY <1>2, StartedKept
  <1>6. PlanOf(w, off)
    BY <1>2, FieldKept
  <1>7. known # {} => ParentOf(w, taken) /\ ParentOf(w, over)
    BY <1>3, FieldKept
  <1> HIDE DEF taken, over, off
  <1>8. known # {} => /\ World(u) /\ Grows(w, u) /\ u.plans = w.plans
                      /\ World(c) /\ Grows(w, c) /\ c.plans = w.plans
    BY <1>7, PutDelivery
  <1>0. Grows(w, w)
    BY DEF Grows
  <1> HIDE DEF u, c
  <1>9. World(stopped) /\ Grows(w, stopped) /\ stopped.plans = w.plans
    BY <1>0, <1>8
  <1> HIDE DEF stopped
  <1>10. World(Put(stopped, "actions", "get", off)) /\ Grows(w, Put(stopped, "actions", "get", off))
    BY <1>6, <1>9, AgainGrows
  <1>11. Put(stopped, "actions", "get", off).plans = w.plans
    <2>1. PlanOf(stopped, off)
      BY <1>6, <1>9 DEF PlanOf
    <2> QED
      BY <1>9, <2>1, PutAction
  <1>12. World(z) /\ Grows(w, z) /\ z.plans = w.plans
    BY <1>0, <1>10, <1>11
  <1> HIDE DEF z
  <1>13. CASE v = Put(w, "actions", "cut", Started(x, i0))
    BY <1>5, <1>13, PutAction
  <1>14. CASE published /\ v = Put(u, "actions", "cut", Ended(x, "succeeded", i1))
    <2>1. World(u) /\ Grows(w, u) /\ u.plans = w.plans
      BY <1>8, <1>14
    <2> QED
      BY <1>5, <1>14, <2>1, AgainGrows
  <1>15. CASE v = Put(z, "actions", "cut", Ended(x, "succeeded", i2))
    BY <1>5, <1>12, <1>15, AgainGrows
  <1> QED
    BY <1>4, <1>13, <1>14, <1>15

LEMMA DeleteGrows ==
  ASSUME NEW w, World(w), NEW v \in Delete(w)
  PROVE  World(v) /\ Grows(w, v)
  <1> DEFINE x == w.actions["del"]
             o == w.outputs["o"]
             Only(status) == [items |-> [o |-> [status |-> status]]]
             Cleaned(cleanup, availability) ==
               [w.outputs["o"] EXCEPT !.cleanup = cleanup, !.availability = availability]
             U(cleanup, availability) == Put(w, "outputs", "o", Cleaned(cleanup, availability))
             i0 == Only("running")
             i1 == Only("succeeded")
             i2 == Only("failed")
             u0 == U("running", "restricted")
             u1 == U("completed", "cleaned")
             u2 == U("incomplete", "restricted")
  <1>1. Has(w, "actions", "del") /\ Has(w, "outputs", "o")
    BY DEF Delete, Is
  <1>2. \/ v = Put(u0, "actions", "del", Started(x, i0))
        \/ v = Put(u1, "actions", "del", Ended(x, "succeeded", i1))
        \/ v = Put(u2, "actions", "del", Ended(x, "failed", i2))
    BY DEF Delete
  <1>3. PlanOf(w, x) /\ ParentOf(w, o)
    BY <1>1 DEF World, Has
  <1>4. ASSUME NEW cleanup, NEW availability
        PROVE  /\ World(U(cleanup, availability)) /\ Grows(w, U(cleanup, availability))
               /\ U(cleanup, availability).plans = w.plans
    <2> DEFINE o1 == [o EXCEPT !.cleanup = cleanup]
               o2 == [o1 EXCEPT !.availability = availability]
    <2>1. Cleaned(cleanup, availability) = o2
      OBVIOUS
    <2> HIDE DEF o
    <2>2. ParentOf(w, o1)
      BY <1>3, FieldKept
    <2> HIDE DEF o1
    <2>3. ParentOf(w, o2)
      BY <2>2, FieldKept
    <2> HIDE DEF o2
    <2>4. World(Put(w, "outputs", "o", o2)) /\ Grows(w, Put(w, "outputs", "o", o2))
          /\ Put(w, "outputs", "o", o2).plans = w.plans
      BY <2>3, PutOutput
    <2> QED
      BY <2>1, <2>4
  <1>5. /\ World(u0) /\ Grows(w, u0) /\ u0.plans = w.plans
        /\ World(u1) /\ Grows(w, u1) /\ u1.plans = w.plans
        /\ World(u2) /\ Grows(w, u2) /\ u2.plans = w.plans
    BY <1>4
  <1> HIDE DEF x, i0, i1, i2, u0, u1, u2
  <1>6. PlanOf(w, Started(x, i0)) /\ PlanOf(w, Ended(x, "succeeded", i1))
        /\ PlanOf(w, Ended(x, "failed", i2))
    BY <1>3, StartedKept
  <1>7. CASE v = Put(u0, "actions", "del", Started(x, i0))
    BY <1>5, <1>6, <1>7, AgainGrows
  <1>8. CASE v = Put(u1, "actions", "del", Ended(x, "succeeded", i1))
    BY <1>5, <1>6, <1>8, AgainGrows
  <1>9. CASE v = Put(u2, "actions", "del", Ended(x, "failed", i2))
    BY <1>5, <1>6, <1>9, AgainGrows
  <1> QED
    BY <1>2, <1>7, <1>8, <1>9

LEMMA ChangesGrow ==
  ASSUME NEW w, World(w), NEW v \in Changes(w)
  PROVE  World(v) /\ Grows(w, v)
  <1>1. PICK u : v = Settle(u) /\ \E X \in {AcceptFirst(w), AcceptSecond(w), Record(w), Digest(w),
              Retrieve(w), Deliver(w), Photograph(w), Cancel(w), Delete(w), Diagnose(w)} : u \in X
    BY DEF Changes
  <1>2. World(u) /\ Grows(w, u)
    BY <1>1, FirstGrows, SecondGrows, RecordGrows, DigestGrows, RetrieveGrows, DeliverGrows,
       PhotographGrows, CancelGrows, DeleteGrows, DiagnoseGrows
  <1>3. World(Settle(u)) /\ Grows(u, Settle(u))
    BY <1>2, SettleGrows
  <1> QED
    BY <1>1, <1>2, <1>3, GrowsOn

------------------------------------------------------------------------------
(* The states it may start with. *)

\* Induction over the natural numbers, for a property stated as a set.
LEMMA Least ==
  ASSUME NEW T \in SUBSET Nat, T # {}
  PROVE  \E x \in T : \A y \in T : ~(y < x)
  <1>1. PICK R : IsWellFoundedOn(R, Nat) /\ R = {p \in Nat \X Nat : p[1] < p[2]}
    BY NatLessThanWellFounded DEF OpToRel
  <1>2. PICK x \in T : \A y \in T : ~(<<y, x>> \in R)
    BY <1>1, WFMin
  <1>3. \A y \in T : y < x => <<y, x>> \in R
    BY <1>1
  <1> QED
    BY <1>2, <1>3

LEMMA SetInduction ==
  ASSUME NEW S, 0 \in S, \A n \in Nat : n \in S => n + 1 \in S
  PROVE  Nat \subseteq S
  <1> SUFFICES ASSUME Nat \ S # {} PROVE FALSE
    OBVIOUS
  <1>1. PICK x \in Nat \ S : \A y \in Nat \ S : ~(y < x)
    BY Least
  <1>2. x # 0 /\ x - 1 \in Nat /\ x - 1 < x /\ (x - 1) + 1 = x
    BY <1>1
  <1>3. x - 1 \in S
    BY <1>1, <1>2
  <1> QED
    BY <1>1, <1>2, <1>3

\* What the device may be in after one more change.
After(S) == UNION {Changes(w) : w \in S}
Upto(n, f) == f = [k \in 0 .. n |-> IF k = 0 THEN {Empty} ELSE After(f[k - 1])]

LEMMA UptoExists == \A n \in Nat : \E f : Upto(n, f)
  <1> DEFINE S == {n \in Nat : \E f : Upto(n, f)}
  <1>1. 0 \in S
    <2> DEFINE f == [k \in 0 .. 0 |-> {Empty}]
    <2>1. \A k \in 0 .. 0 : k = 0
      OBVIOUS
    <2>2. Upto(0, f)
      BY <2>1 DEF Upto
    <2> HIDE DEF f
    <2> QED
      BY <2>2
  <1>2. ASSUME NEW n \in Nat, n \in S
        PROVE  n + 1 \in S
    <2>1. PICK f : Upto(n, f)
      BY <1>2
    <2> DEFINE g == [k \in 0 .. n + 1 |-> IF k = 0 THEN {Empty} ELSE After(f[k - 1])]
    <2>2. ASSUME NEW k \in 0 .. n
          PROVE  g[k] = f[k]
      <3>1. g[k] = (IF k = 0 THEN {Empty} ELSE After(f[k - 1]))
        OBVIOUS
      <3>2. f[k] = (IF k = 0 THEN {Empty} ELSE After(f[k - 1]))
        <4> HIDE DEF g
        <4>1. f = [i \in 0 .. n |-> IF i = 0 THEN {Empty} ELSE After(f[i - 1])]
          BY <2>1 DEF Upto
        <4> QED
          BY <4>1
      <3> QED
        BY <3>1, <3>2
    <2>3. ASSUME NEW k \in 0 .. n + 1
          PROVE  g[k] = (IF k = 0 THEN {Empty} ELSE After(g[k - 1]))
      <3>1. k # 0 => k - 1 \in 0 .. n
        OBVIOUS
      <3>2. k # 0 => g[k - 1] = f[k - 1]
        BY <2>2, <3>1
      <3> QED
        BY <3>2
    <2>4. g = [k \in 0 .. n + 1 |-> g[k]]
      OBVIOUS
    <2> HIDE DEF g
    <2>5. Upto(n + 1, g)
      BY <2>3, <2>4 DEF Upto
    <2> QED
      BY <2>5
  <1> HIDE DEF S
  <1>3. Nat \subseteq S
    BY <1>1, <1>2, SetInduction
  <1> QED
    BY <1>3 DEF S

LEMMA UptoAgree ==
  ASSUME NEW m \in Nat, NEW n \in Nat, NEW f, NEW g, Upto(m, f), Upto(n, g)
  PROVE  \A k \in Nat : k <= m /\ k <= n => f[k] = g[k]
  <1> DEFINE S == {k \in Nat : k <= m /\ k <= n => f[k] = g[k]}
  <1>1. 0 \in S
    BY DEF Upto
  <1>2. ASSUME NEW k \in Nat, k \in S
        PROVE  k + 1 \in S
    <2> SUFFICES ASSUME k + 1 <= m, k + 1 <= n
                 PROVE  f[k + 1] = g[k + 1]
      OBVIOUS
    <2>1. k + 1 \in 0 .. m /\ k + 1 \in 0 .. n /\ k + 1 # 0 /\ (k + 1) - 1 = k /\ f[k] = g[k]
      BY <1>2
    <2>2. f[k + 1] = After(f[k])
      BY <2>1 DEF Upto
    <2>3. g[k + 1] = After(g[k])
      BY <2>1 DEF Upto
    <2> QED
      BY <2>1, <2>2, <2>3
  <1> HIDE DEF S
  <1>3. Nat \subseteq S
    BY <1>1, <1>2, SetInduction
  <1> QED
    BY <1>3 DEF S

\* The states after so many changes are those that the definition names.
LEMMA ReachIs ==
  /\ Reach[0] = {Empty}
  /\ \A n \in Nat : Reach[n + 1] = After(Reach[n])
  <1> DEFINE F(n) == CHOOSE f : Upto(n, f)
             R == [n \in Nat |-> F(n)[n]]
  <1>1. \A n \in Nat : Upto(n, F(n))
    BY UptoExists
  <1> HIDE DEF F
  <1>2. R[0] = {Empty}
    BY <1>1 DEF Upto
  <1>3. ASSUME NEW n \in Nat
        PROVE  R[n + 1] = After(R[n])
    <2>1. F(n + 1)[n] = F(n)[n]
      BY <1>1, UptoAgree
    <2>2. F(n + 1)[n + 1] = After(F(n + 1)[n])
      <3>1. Upto(n + 1, F(n + 1)) /\ n + 1 \in 0 .. n + 1 /\ n + 1 # 0 /\ (n + 1) - 1 = n
        BY <1>1
      <3> DEFINE f == F(n + 1)
      <3> HIDE DEF f
      <3>2. f[n + 1] = After(f[n])
        BY <3>1 DEF Upto, f
      <3> QED
        BY <3>2 DEF f
    <2> QED
      BY <2>1, <2>2
  <1>4. ASSUME NEW n \in Nat
        PROVE  R[n] = (IF n = 0 THEN {Empty} ELSE UNION {Changes(w) : w \in R[n - 1]})
    <2>1. CASE n = 0
      BY <1>2, <2>1
    <2>2. CASE n # 0
      <3>1. n - 1 \in Nat /\ (n - 1) + 1 = n
        BY <2>2
      <3>2. R[n] = After(R[n - 1])
        BY <1>3, <3>1
      <3> HIDE DEF R
      <3> QED
        BY <2>2, <3>2 DEF After
    <2> QED
      BY <2>1, <2>2
  <1>5. R = [n \in Nat |-> R[n]]
    OBVIOUS
  <1> HIDE DEF R
  <1>6. R = [n \in Nat |-> IF n = 0 THEN {Empty} ELSE UNION {Changes(w) : w \in R[n - 1]}]
    BY <1>4, <1>5
  <1> DEFINE Q == CHOOSE g : g = [n \in Nat |-> IF n = 0 THEN {Empty} ELSE UNION {Changes(w) : w \in g[n - 1]}]
  <1>7. Q = [n \in Nat |-> IF n = 0 THEN {Empty} ELSE UNION {Changes(w) : w \in Q[n - 1]}]
    BY <1>6
  <1>8. Reach = Q
    BY DEF Reach
  <1> HIDE DEF Q
  <1>9. Q[0] = {Empty}
    BY <1>7
  <1>10. ASSUME NEW n \in Nat PROVE Q[n + 1] = After(Q[n])
    <2>1. n + 1 \in Nat /\ n + 1 # 0 /\ (n + 1) - 1 = n
      OBVIOUS
    <2>2. Q[n + 1] = UNION {Changes(w) : w \in Q[(n + 1) - 1]}
      BY <1>7, <2>1
    <2> QED
      BY <2>1, <2>2 DEF After
  <1> QED
    BY <1>8, <1>9, <1>10

LEMMA ReachedWorlds == \A n \in Nat : \A w \in Reach[n] : World(w)
  <1> DEFINE S == {n \in Nat : \A w \in Reach[n] : World(w)}
  <1>1. 0 \in S
    BY ReachIs, EmptyWorld
  <1>2. ASSUME NEW n \in Nat, n \in S
        PROVE  n + 1 \in S
    <2>1. ASSUME NEW v \in Reach[n + 1]
          PROVE  World(v)
      <3>1. PICK w \in Reach[n] : v \in Changes(w)
        BY ReachIs DEF After
      <3> QED
        BY <1>2, <3>1, ChangesGrow
    <2> QED
      BY <2>1
  <1> HIDE DEF S
  <1>3. Nat \subseteq S
    BY <1>1, <1>2, SetInduction
  <1> QED
    BY <1>3 DEF S

------------------------------------------------------------------------------
(* Its history, and the reports of it. *)

\* The device's history: it starts with nothing and never forgets an entity.
HistoryInv ==
  /\ \E S : history \in Seq(S)
  /\ Len(history) \in Nat \ {0}
  /\ history[1] = Empty
  /\ \A i \in 1 .. Len(history) : World(history[i])
  /\ \A i, j \in 1 .. Len(history) : i <= j => Grows(history[i], history[j])

LEMMA LastIs == HistoryInv => Last \in Nat /\ Last + 1 = Len(history)
  BY DEF HistoryInv, Last

LEMMA AllChanged ==
  ASSUME HistoryInv, NEW t \in 0 .. Last, NEW kind \in Kinds
  PROVE  Changed(kind, 0, t) = DOMAIN history[t + 1][kind]
  <1>1. DOMAIN history[1][kind] = {}
    BY DEF HistoryInv, Empty, Kinds
  <1>2. CASE t = 0
    BY <1>1, <1>2 DEF Changed
  <1>3. CASE t # 0
    <2>1. 1 \in 0 + 1 .. t
      BY <1>3, LastIs
    <2> QED
      BY <1>1, <2>1 DEF Changed
  <1> QED
    BY <1>2, <1>3

LEMMA Unchanging ==
  ASSUME HistoryInv, NEW t \in 0 .. Last, NEW c \in 0 .. Last, NEW from \in 0 .. Last,
         from <= c, c <= t, NEW kind \in Kinds,
         NEW e \in DOMAIN history[t + 1][kind], e \notin Changed(kind, from, t)
  PROVE  history[t + 1][kind][e] = history[c + 1][kind][e]
  <1> DEFINE S == {i \in Nat : c + i <= t => history[c + 1 + i][kind][e] = history[c + 1][kind][e]}
  <1>0. t \in Nat /\ c \in Nat /\ from \in Nat
    BY LastIs
  <1>1. 0 \in S
    BY <1>0
  <1>2. ASSUME NEW i \in Nat, i \in S
        PROVE  i + 1 \in S
    <2> SUFFICES ASSUME c + (i + 1) <= t
                 PROVE  history[c + 1 + (i + 1)][kind][e] = history[c + 1][kind][e]
      OBVIOUS
    <2> DEFINE w == c + 1 + i
    <2>1. w \in from + 1 .. t /\ c + i <= t /\ c + 1 + (i + 1) = w + 1
      BY <1>0
    <2> HIDE DEF w
    <2>2. history[w][kind][e] = history[w + 1][kind][e]
      BY <2>1 DEF Changed
    <2>3. history[w][kind][e] = history[c + 1][kind][e]
      BY <1>2, <2>1 DEF w
    <2> QED
      BY <2>1, <2>2, <2>3
  <1> HIDE DEF S
  <1>3. t - c \in Nat /\ t - c \in S
    BY <1>0, <1>1, <1>2, SetInduction
  <1>4. c + (t - c) <= t /\ c + 1 + (t - c) = t + 1
    BY <1>0
  <1> QED
    BY <1>3, <1>4 DEF S

\* What a report carries brings any earlier state to its end.
LEMMA MergedKind ==
  ASSUME HistoryInv, NEW t \in 0 .. Last, NEW c \in 0 .. Last, NEW from \in 0 .. Last,
         from <= c, c < t, NEW kind \in Kinds,
         NEW K, Changed(kind, from, t) \subseteq K, K \subseteq DOMAIN history[t + 1][kind]
  PROVE  members(history[c + 1][kind], Restrict(history[t + 1][kind], K)) = history[t + 1][kind]
  <1> DEFINE f == history[c + 1][kind]  g == history[t + 1][kind]  r == Restrict(g, K)
  <1>0. t \in Nat /\ c \in Nat /\ from \in Nat /\ c + 1 \in 1 .. Len(history) /\ t + 1 \in 1 .. Len(history)
        /\ c + 1 <= t + 1 /\ c + 1 \in from + 1 .. t
    BY LastIs
  <1>1. DOMAIN f \subseteq DOMAIN g
    BY <1>0 DEF HistoryInv, Grows
  <1>2. Mapping(g)
    BY <1>0 DEF HistoryInv, World, Shaped, Kinds
  <1>3. \A e \in DOMAIN g : e \notin K => e \in DOMAIN f
    BY <1>0 DEF Changed
  <1>4. \A e \in DOMAIN g : e \notin K => f[e] = g[e]
    BY <1>0, Unchanging
  <1> HIDE DEF f, g
  <1>5. DOMAIN r = K /\ \A e \in K : r[e] = g[e]
    BY DEF Restrict
  <1> HIDE DEF r
  <1> DEFINE h == members(f, r)
  <1>6. h = [e \in DOMAIN g |-> IF e \in K THEN g[e] ELSE f[e]]
    BY <1>1, <1>3, <1>5 DEF members, f, g
  <1>7. h = [e \in DOMAIN g |-> g[e]]
    BY <1>4, <1>6
  <1> HIDE DEF h
  <1>8. h = g
    BY <1>2, <1>7 DEF Mapping
  <1> QED
    BY <1>8 DEF f, g, h, r

LEMMA RestrictAll == ASSUME NEW f, Mapping(f) PROVE Restrict(f, DOMAIN f) = f
  BY DEF Restrict, Mapping

\* A report that starts with nothing is the whole state.
LEMMA WholeReport ==
  ASSUME HistoryInv, NEW t \in 0 .. Last
  PROVE  LET w == history[t + 1] IN
         Report(0, t) = Rep(0, t, w.plans, w.actions, w.outputs, w.deliveries, w.diags)
  <1> DEFINE w == history[t + 1]
             O == Changed("outputs", 0, t)
             D == Changed("deliveries", 0, t)
             A == Changed("actions", 0, t) \union {w.outputs[o].parent : o \in O}
                                           \union {w.deliveries[d].parent : d \in D}
             P == Changed("plans", 0, t) \union {w.actions[a].plan : a \in A}
             X == Changed("diags", 0, t)
  <1>1. World(w)
    BY LastIs DEF HistoryInv
  <1>2. /\ O = DOMAIN w.outputs /\ D = DOMAIN w.deliveries /\ X = DOMAIN w.diags
        /\ Changed("actions", 0, t) = DOMAIN w.actions
        /\ Changed("plans", 0, t) = DOMAIN w.plans
    BY AllChanged DEF Kinds
  <1>3. A = DOMAIN w.actions
    BY <1>1, <1>2 DEF World, ParentOf
  <1> HIDE DEF O, D, A, X
  <1>4. P = DOMAIN w.plans
    BY <1>1, <1>2, <1>3 DEF World, PlanOf
  <1> HIDE DEF P
  <1>5. Report(0, t) = Rep(0, t, Restrict(w.plans, P), Restrict(w.actions, A), Restrict(w.outputs, O),
                           Restrict(w.deliveries, D), Restrict(w.diags, X))
    BY DEF Report, Rep, O, D, A, P, X
  <1> HIDE DEF w
  <1>6. /\ Restrict(w.plans, P) = w.plans /\ Restrict(w.actions, A) = w.actions
        /\ Restrict(w.outputs, O) = w.outputs /\ Restrict(w.deliveries, D) = w.deliveries
        /\ Restrict(w.diags, X) = w.diags
    BY <1>1, <1>2, <1>3, <1>4, RestrictAll DEF World, Shaped
  <1> QED
    BY <1>5, <1>6 DEF w

LEMMA MergedReport ==
  ASSUME HistoryInv, NEW t \in 0 .. Last, NEW c \in 0 .. Last, NEW from \in 0 .. Last,
         from <= c, c < t
  PROVE  Combined(Report(0, c), Report(from, t)) = Report(0, t)
  <1> DEFINE w == history[t + 1]
             v == history[c + 1]
             O == Changed("outputs", from, t)
             D == Changed("deliveries", from, t)
             A == Changed("actions", from, t) \union {w.outputs[o].parent : o \in O}
                                              \union {w.deliveries[d].parent : d \in D}
             P == Changed("plans", from, t) \union {w.actions[a].plan : a \in A}
             X == Changed("diags", from, t)
  <1>1. World(w)
    BY LastIs DEF HistoryInv
  <1>2. /\ O \subseteq DOMAIN w.outputs /\ D \subseteq DOMAIN w.deliveries /\ X \subseteq DOMAIN w.diags
        /\ Changed("actions", from, t) \subseteq DOMAIN w.actions
        /\ Changed("plans", from, t) \subseteq DOMAIN w.plans
    BY DEF Changed
  <1>3. A \subseteq DOMAIN w.actions /\ Changed("actions", from, t) \subseteq A
    BY <1>1, <1>2 DEF World, ParentOf
  <1> HIDE DEF O, D, A, X
  <1>4. P \subseteq DOMAIN w.plans /\ Changed("plans", from, t) \subseteq P
    BY <1>1, <1>2, <1>3 DEF World, PlanOf
  <1> HIDE DEF P
  <1> DEFINE p == Restrict(w.plans, P)  a == Restrict(w.actions, A)  o == Restrict(w.outputs, O)
             d == Restrict(w.deliveries, D)  x == Restrict(w.diags, X)
  <1>5. Report(from, t) = Rep(from, t, p, a, o, d, x)
    BY DEF Report, Rep, O, D, A, P, X
  <1>6. /\ members(v.plans, p) = w.plans /\ members(v.actions, a) = w.actions
        /\ members(v.outputs, o) = w.outputs /\ members(v.deliveries, d) = w.deliveries
        /\ members(v.diags, x) = w.diags
    <2>1. members(history[c + 1]["plans"], Restrict(history[t + 1]["plans"], P)) = history[t + 1]["plans"]
      BY <1>4, MergedKind DEF Kinds
    <2>2. members(history[c + 1]["actions"], Restrict(history[t + 1]["actions"], A)) = history[t + 1]["actions"]
      BY <1>3, MergedKind DEF Kinds
    <2>3. members(history[c + 1]["outputs"], Restrict(history[t + 1]["outputs"], O)) = history[t + 1]["outputs"]
      BY <1>2, MergedKind DEF Kinds, O
    <2>4. members(history[c + 1]["deliveries"], Restrict(history[t + 1]["deliveries"], D)) = history[t + 1]["deliveries"]
      BY <1>2, MergedKind DEF Kinds, D
    <2>5. members(history[c + 1]["diags"], Restrict(history[t + 1]["diags"], X)) = history[t + 1]["diags"]
      BY <1>2, MergedKind DEF Kinds, X
    <2> QED
      BY <2>1, <2>2, <2>3, <2>4, <2>5
  <1> DEFINE old == Report(0, c)  new == Report(from, t)
  <1>7. old = Rep(0, c, v.plans, v.actions, v.outputs, v.deliveries, v.diags)
    BY WholeReport
  <1>8. Report(0, t) = Rep(0, t, w.plans, w.actions, w.outputs, w.deliveries, w.diags)
    BY WholeReport
  <1> HIDE DEF old, new, v, w, p, a, o, d, x
  <1>9. /\ old.from = 0 /\ old.plans = v.plans /\ old.actions = v.actions /\ old.outputs = v.outputs
        /\ old.deliveries = v.deliveries /\ old.diags = v.diags
    BY <1>7, Parts
  <1>10. /\ Known(new) /\ new.to = t /\ new.plans = p /\ new.actions = a /\ new.outputs = o
         /\ new.deliveries = d /\ new.diags = x
    BY <1>5, Parts DEF new
  <1>11. Combined(old, new) =
           Rep(old.from, new.to, members(old.plans, new.plans),
               members(old.actions, new.actions), members(old.outputs, new.outputs),
               members(old.deliveries, new.deliveries), members(old.diags, new.diags))
    BY <1>10, CombinedIs
  <1>12. Combined(old, new) = Rep(0, t, w.plans, w.actions, w.outputs, w.deliveries, w.diags)
    BY <1>6, <1>9, <1>10, <1>11
  <1> QED
    BY <1>8, <1>12 DEF old, new

------------------------------------------------------------------------------
(* What the client shows. *)

\* While the device is undisturbed, the snapshot is its report from the start.
ShownInv ==
  /\ forks \in Nat
  /\ forks = 0 => /\ HistoryInv
                  /\ snapshot.to \in 0 .. Last
                  /\ snapshot = Report(0, snapshot.to)

LEMMA ShownInvInit == Init => ShownInv
  <1> SUFFICES ASSUME Init PROVE ShownInv
    OBVIOUS
  <1>1. PICK w : history = <<Empty, w>> /\ w \in UNION {Reach[n] : n \in FirstSteps}
    BY DEF Init
  <1>2. World(w)
    BY <1>1, ReachedWorlds, StepsAssumption
  <1>3. /\ history \in Seq({Empty, w}) /\ Len(history) = 2
        /\ history[1] = Empty /\ history[2] = w
    BY <1>1
  <1>4. Grows(Empty, w) /\ Grows(w, w) /\ Grows(Empty, Empty)
    BY DEF Grows, Empty, Kinds
  <1>5. \A i \in 1 .. 2 : i = 1 \/ i = 2
    OBVIOUS
  <1>6. HistoryInv
    BY <1>2, <1>3, <1>4, <1>5, EmptyWorld DEF HistoryInv
  <1>7. 0 \in 0 .. Last
    BY <1>6, LastIs
  <1> DEFINE none == <<>>
  <1>8. Report(0, 0) = Rep(0, 0, Empty.plans, Empty.actions, Empty.outputs, Empty.deliveries, Empty.diags)
    BY <1>3, <1>6, <1>7, WholeReport
  <1>9. snapshot = Rep(0, 0, none, none, none, none, none)
    BY DEF Init, Rep
  <1>10. /\ Empty.plans = none /\ Empty.actions = none /\ Empty.outputs = none
         /\ Empty.deliveries = none /\ Empty.diags = none
    BY DEF Empty
  <1> HIDE DEF none
  <1>11. snapshot = Report(0, 0) /\ snapshot.to = 0
    BY <1>8, <1>9, <1>10, Parts
  <1> QED
    BY <1>6, <1>7, <1>11 DEF ShownInv, Init

LEMMA DeviceKeeps ==
  ASSUME HistoryInv, Device
  PROVE  HistoryInv' /\ Last' = Last + 1
         /\ \A i \in 1 .. Len(history) : history'[i] = history[i]
  <1>1. PICK w \in Changes(history[Len(history)]) : history' = Append(history, w)
    BY DEF Device
  <1>2. PICK S : history \in Seq(S)
    BY DEF HistoryInv
  <1> DEFINE n == Len(history)
  <1>3. n \in Nat \ {0} /\ World(history[n])
    BY DEF HistoryInv
  <1>4. World(w) /\ Grows(history[n], w)
    BY <1>1, <1>3, ChangesGrow
  <1>5. history \in Seq(S \union {w})
    BY <1>2
  <1>6. /\ history' \in Seq(S \union {w}) /\ Len(history') = n + 1
        /\ history'[n + 1] = w
        /\ \A i \in 1 .. n : history'[i] = history[i]
    BY <1>1, <1>5
  <1>7. \A i \in 1 .. n + 1 : i \in 1 .. n \/ i = n + 1
    BY <1>3
  <1>8. \A i \in 1 .. n : Grows(history[i], w)
    <2> SUFFICES ASSUME NEW i \in 1 .. n PROVE Grows(history[i], w)
      OBVIOUS
    <2>1. Grows(history[i], history[n])
      BY <1>3 DEF HistoryInv
    <2> QED
      BY <1>4, <2>1, GrowsOn
  <1>9. Grows(w, w)
    BY DEF Grows
  <1>10. \A i \in 1 .. n + 1 : World(history'[i])
    BY <1>4, <1>6, <1>7 DEF HistoryInv
  <1>11. ASSUME NEW i \in 1 .. n + 1, NEW j \in 1 .. n + 1, i <= j
         PROVE  Grows(history'[i], history'[j])
    <2>1. CASE j = n + 1
      BY <1>6, <1>7, <1>8, <1>9, <2>1
    <2>2. CASE j # n + 1
      <3>1. i \in 1 .. n /\ j \in 1 .. n
        BY <1>3, <1>11, <2>2
      <3> QED
        BY <1>6, <1>11, <3>1 DEF HistoryInv
    <2> QED
      BY <2>1, <2>2
  <1>12. history'[1] = Empty
    BY <1>3, <1>6 DEF HistoryInv
  <1>13. HistoryInv'
    BY <1>3, <1>6, <1>10, <1>11, <1>12 DEF HistoryInv
  <1> QED
    BY <1>3, <1>6, <1>13 DEF Last

WholeReports ==
  \A t \in 0 .. Last :
    LET w == history[t + 1] IN
    Report(0, t) = Rep(0, t, w.plans, w.actions, w.outputs, w.deliveries, w.diags)

LEMMA WholeAfter == HistoryInv' => WholeReports'
  <1>1. HistoryInv => WholeReports
    BY WholeReport DEF WholeReports
  <1> QED
    BY <1>1, PTL

LEMMA ShownInvNext == ShownInv /\ ClientInv /\ [Next]_vars => ShownInv'
  <1> SUFFICES ASSUME ShownInv, ClientInv, [Next]_vars
               PROVE  ShownInv'
    OBVIOUS
  <1>1. CASE UNCHANGED vars
    BY <1>1 DEF vars, ShownInv, HistoryInv, Last, Report, Changed
  <1>2. CASE Fork
    BY <1>2 DEF Fork, ShownInv
  <1>3. CASE Device
    <2>1. UNCHANGED <<snapshot, forks>>
      BY <1>3 DEF Device
    <2> SUFFICES ASSUME forks = 0
                 PROVE  HistoryInv' /\ (snapshot.to \in 0 .. Last)' /\ (snapshot = Report(0, snapshot.to))'
      BY <2>1 DEF ShownInv
    <2>2. HistoryInv /\ snapshot.to \in 0 .. Last /\ snapshot = Report(0, snapshot.to)
      BY DEF ShownInv
    <2>3. HistoryInv' /\ Last' = Last + 1 /\ \A i \in 1 .. Len(history) : history'[i] = history[i]
      BY <1>3, <2>2, DeviceKeeps
    <2> DEFINE c == snapshot.to  w == history[c + 1]
    <2>4. c \in 0 .. Last' /\ c + 1 \in 1 .. Len(history)
      BY <2>2, <2>3, LastIs
    <2>5. Report(0, c) = Rep(0, c, w.plans, w.actions, w.outputs, w.deliveries, w.diags)
      BY <2>2, WholeReport
    <2>6. Report(0, c)' = Rep(0, c', w'.plans, w'.actions, w'.outputs, w'.deliveries, w'.diags)
      BY <2>1, <2>3, <2>4, WholeAfter DEF WholeReports
    <2> QED
      BY <2>1, <2>2, <2>3, <2>4, <2>5, <2>6
  <1>4. CASE Import
    <2>1. UNCHANGED <<history, forks>> /\ \E to, from : Applied(from, to)
      BY <1>4, ImportApplies
    <2> SUFFICES ASSUME forks = 0
                 PROVE  HistoryInv' /\ (snapshot.to \in 0 .. Last)' /\ (snapshot = Report(0, snapshot.to))'
      BY <2>1 DEF ShownInv
    <2>2. HistoryInv /\ snapshot.to \in 0 .. Last /\ snapshot = Report(0, snapshot.to)
      BY DEF ShownInv
    <2>3. PICK to, from : Applied(from, to)
      BY <2>1
    <2> DEFINE c == snapshot.to
    <2>4. /\ to \in 0 .. Last /\ from \in 0 .. Last /\ c \in 0 .. Last /\ from <= c /\ c < to
          /\ snapshot' = Combined(snapshot, Report(from, to))
      BY <2>2, <2>3, LastIs DEF Applied
    <2>5. snapshot' = Report(0, to)
      BY <2>2, <2>4, MergedReport
    <2>6. snapshot'.to = to
      BY <2>5, ReportIs
    <2>7. HistoryInv' /\ Last' = Last /\ Report(0, to)' = Report(0, to)
      BY <2>1, <2>2 DEF HistoryInv, Last, Report, Changed
    <2> QED
      BY <2>4, <2>5, <2>6, <2>7
  <1> QED
    BY <1>1, <1>2, <1>3, <1>4 DEF Next

\* While the device is undisturbed, the client shows the device's own state at
\* the coverage it claims, whichever reports it was built from (mergeReport in
\* applyReports).
THEOREM SnapshotIsTrue == Spec => []SnapshotIsHistory
  <1>1. ShownInv => SnapshotIsHistory
    BY DEF ShownInv, SnapshotIsHistory
  <1>2. Spec => []ClientInv
    BY ClientInvInit, ClientInvNext, PTL DEF Spec
  <1>3. Spec => []ShownInv
    BY <1>2, ShownInvInit, ShownInvNext, PTL DEF Spec
  <1> QED
    BY <1>1, <1>3, PTL

(* The course of the device. *)

\* How far each entity of the device has come.
At(rec, flow, get, shot, cut, known, del, clean, dig, dlv, copy) ==
  [rec |-> rec, flow |-> flow, get |-> get, shot |-> shot, cut |-> cut, known |-> known,
   del |-> del, clean |-> clean, dig |-> dig, dlv |-> dlv, copy |-> copy]
Unbegun == At("absent", "none", "absent", "absent", "absent", {}, "absent",
              "absent", "plain", "absent", "c0")

Act(p, a, t, g, i, status, started, expired, error, result) ==
  [plan |-> p, name |-> a, type |-> t, device |-> "cam", group |-> g, input |-> i,
   status |-> status, started |-> started, expired |-> expired, error |-> error, result |-> result]
NewAct(p, a, t, g, i, status, expired, error) ==
  Act(p, a, t, g, i, status, FALSE, expired, error, {})
BegunAct(p, a, t, g, i, status, result) ==
  Act(p, a, t, g, i, status, TRUE, {}, {}, {result})

RecStart(k) ==
  CASE k = "running" -> <<"running">>
    [] k = "again" -> <<"failed", "running">>
    [] k = "succeeded" -> <<"succeeded">>
    [] OTHER -> <<"failed", "succeeded">>
RecStop(k) ==
  CASE k \in {"running", "again"} -> <<>>
    [] k = "succeeded" -> <<"succeeded">>
    [] OTHER -> <<"failed", "failed">>
FlowAt(f) == [trigger |-> "shot", max |-> 1, attempts |-> Try(<<f>>), status |-> f, error |-> {}]
Compulsion == [session |-> 1, max |-> {2}, used |-> 1]
Part(statuses) == [max |-> 2, attempts |-> Try(statuses)]
GroupAt(k, f) ==
  [start |-> Part(RecStart(k)), stop |-> Part(RecStop(k)),
   followup |-> IF f = "none" THEN <<>> ELSE [s |-> FlowAt(f)],
   emergency |-> IF k = "failed" THEN [e |-> Compulsion] ELSE <<>>]
RecordedAt(k, f) ==
  [recording |-> {GroupAt(k, f)},
   copy |-> IF k \in {"running", "again"} THEN {} ELSE {Copying(1, <<"succeeded">>, 2)},
   repair |-> IF k \in {"running", "again"} THEN {} ELSE {"not_needed"}]
RecAt(k, f) ==
  IF k \in {"pending", "expired"}
  THEN NewAct("p", "rec", "camera_record", {"g"}, Asked, k,
              IF k = "expired" THEN {"window_missed"} ELSE {}, {})
  ELSE BegunAct("p", "rec", "camera_record", {"g"}, Asked,
                IF k = "again" THEN "running" ELSE k, RecordedAt(k, f))

HeldInput == [Asked EXCEPT !.source = {ByGroup}]
BadInput == [Asked EXCEPT !.valid = FALSE]
GetInput(k) == IF k = "inadmissible" THEN BadInput ELSE HeldInput
Nothing == [failures |-> {}]
Losing == [failures |-> {Lost}]
GetStatus(k) ==
  CASE k = "inadmissible" -> "failed" [] k = "stopped" -> "canceled" [] OTHER -> k
GetBegun == {"running", "succeeded", "failed", "stopped"}
GetAt(k) ==
  IF k \in GetBegun
  THEN BegunAct("p", "get", "obtain_action_outputs", {}, GetInput(k), GetStatus(k),
                IF k = "failed" THEN Losing ELSE Nothing)
  ELSE NewAct("p", "get", "obtain_action_outputs", {}, GetInput(k), GetStatus(k), {},
              IF k = "inadmissible" THEN {[stage |-> "admission"]} ELSE {})

TakenAt(k) ==
  [count |-> {IF k = "running" THEN 0 ELSE 1},
   start |-> {[max |-> 1, attempts |-> Try(IF k = "running" THEN <<>> ELSE <<"succeeded">>)]},
   stop |-> {}]
ShotAt(k) ==
  IF k = "pending" THEN NewAct("q", "shot", "camera_take_photo", {}, Asked, k, {}, {})
  ELSE BegunAct("q", "shot", "camera_take_photo", {}, Asked, k, TakenAt(k))

CutStatus(k) == IF k \in {"withdrawn", "left"} THEN "succeeded" ELSE k
Withdrawal(k) ==
  CASE k = "running" -> "pending" [] k = "withdrawn" -> "withdrawn" [] OTHER -> "not_retractable"
CutItems(k, known) ==
  [items |-> [get |-> [status |-> CutStatus(k),
                       withdrawals |-> [d \in known |-> [status |-> Withdrawal(k)]]]]]
CutInput == [Asked EXCEPT !.target = {OfGet}]
CutAt(k, known) ==
  IF k = "pending" THEN NewAct("q", "cut", "cancel_task", {}, CutInput, k, {}, {})
  ELSE BegunAct("q", "cut", "cancel_task", {}, CutInput, CutStatus(k), CutItems(k, known))

DelInput == [Asked EXCEPT !.outputs = {<<"o">>}]
DelItems(k) == [items |-> [o |-> [status |-> k]]]
DelAt(k) ==
  IF k = "pending" THEN NewAct("q", "del", "delete_action_outputs", {}, DelInput, k, {}, {})
  ELSE BegunAct("q", "del", "delete_action_outputs", {}, DelInput, k, DelItems(k))

TheSize == {2}
TheSha == {"right"}
Out(derived, availability, cleanup, size, sha) ==
  [parent |-> "rec", source |-> "rec", kind |-> "original", derived |-> derived,
   availability |-> availability, cleanup |-> cleanup, size |-> size, sha |-> sha]
OutAt(clean, dig) ==
  Out({}, IF clean = "not_requested" THEN "available"
          ELSE IF clean = "completed" THEN "cleaned" ELSE "restricted",
      clean, IF dig = "plain" THEN {} ELSE TheSize, IF dig = "plain" THEN {} ELSE TheSha)

CopyAt(c) ==
  CASE c = "c0" -> Copying(1, <<>>, 0)
    [] c = "c1" -> Copying(1, <<"running">>, 1)
    [] c = "c2" -> Copying(2, <<"failed", "running">>, 0)
    [] c = "s1" -> Copying(1, <<"succeeded">>, 2)
    [] c = "s2" -> Copying(2, <<"failed", "succeeded">>, 2)
    [] OTHER -> Copying(2, <<"failed", "failed">>, 0)
Whole == {"s1", "s2"}
Dlv(status, size, sha, error, copy) ==
  [parent |-> "get", output |-> "o", source |-> "rec", file |-> "f", status |-> status,
   size |-> size, sha |-> sha, error |-> error, copy |-> copy]
DlvAt(s, c) ==
  Dlv(s, IF c \in Whole THEN TheSize ELSE {}, IF c \in Whole THEN TheSha ELSE {},
      IF s = "failed" THEN {"x"} ELSE {}, CopyAt(c))

PlanAt(n, status) == [request |-> n, seq |-> n, head |-> n, status |-> status]
Number(p) == IF p = "p" THEN 1 ELSE 2

PlansAt(k) ==
  (IF k.rec = "absent" THEN {} ELSE {"p"}) \union (IF k.shot = "absent" THEN {} ELSE {"q"})
ActionsAt(k) ==
  (IF k.rec = "absent" THEN {} ELSE {"rec", "get"})
  \union (IF k.shot = "absent" THEN {} ELSE {"shot", "cut", "del"})
OutputsAt(k) == IF k.clean = "absent" THEN {} ELSE {"o"}
DeliveriesAt(k) == IF k.dlv = "absent" THEN {} ELSE {"d"}
ActionAt(k, a) ==
  CASE a = "rec" -> RecAt(k.rec, k.flow)
    [] a = "get" -> GetAt(k.get)
    [] a = "shot" -> ShotAt(k.shot)
    [] a = "cut" -> CutAt(k.cut, k.known)
    [] OTHER -> DelAt(k.del)

Own(p) == IF p = "p" THEN {"rec", "get"} ELSE {"shot", "cut", "del"}
PlanStatus(k, p) ==
  IF \A a \in Own(p) : Terminal(ActionAt(k, a).status) THEN "completed"
  ELSE IF \E a \in Own(p) : ActionAt(k, a).started THEN "running" ELSE "pending"

\* All of a state but the status of its plans.
LaidPlans(w, k) ==
  /\ DOMAIN w.plans = PlansAt(k)
  /\ \A p \in PlansAt(k) : w.plans[p] = PlanAt(Number(p), w.plans[p].status)
LaidActions(w, k) ==
  /\ DOMAIN w.actions = ActionsAt(k)
  /\ \A a \in ActionsAt(k) : w.actions[a] = ActionAt(k, a)
LaidOutputs(w, k) ==
  /\ DOMAIN w.outputs = OutputsAt(k)
  /\ \A o \in OutputsAt(k) : w.outputs[o] = OutAt(k.clean, k.dig)
LaidDeliveries(w, k) ==
  /\ DOMAIN w.deliveries = DeliveriesAt(k)
  /\ \A d \in DeliveriesAt(k) : w.deliveries[d] = DlvAt(k.dlv, k.copy)
LaidDiags(w) == \A x \in DOMAIN w.diags : w.diags[x] = "x"
Laid(w, k) ==
  /\ LaidPlans(w, k) /\ LaidActions(w, k) /\ LaidOutputs(w, k) /\ LaidDeliveries(w, k) /\ LaidDiags(w)
Described(w, k) ==
  /\ Laid(w, k)
  /\ \A p \in PlansAt(k) : w.plans[p] = PlanAt(Number(p), PlanStatus(k, p))

Course(k) ==
  /\ k.rec \in {"absent", "pending", "expired", "running", "again", "succeeded", "failed"}
  /\ k.flow \in {"none", "running", "succeeded"}
  /\ k.get \in {"absent", "pending", "canceled", "inadmissible"} \union GetBegun
  /\ k.shot \in {"absent", "pending", "running", "succeeded"}
  /\ k.cut \in {"absent", "pending", "running", "withdrawn", "left"}
  /\ k.known \subseteq {"d"}
  /\ k.del \in {"absent", "pending", "running", "succeeded", "failed"}
  /\ k.clean \in {"absent", "not_requested", "running", "completed", "incomplete"}
  /\ k.dig \in {"plain", "hashed"}
  /\ k.dlv \in {"absent", "published", "withdrawn", "failed", "canceled"} \union Unfinished
  /\ k.copy \in {"c0", "c1", "c2", "s1", "s2", "f2"}
RecEnded == {"succeeded", "failed"}
Cleaning(del) ==
  CASE del = "running" -> "running" [] del = "succeeded" -> "completed" [] del = "failed" -> "incomplete"
    [] OTHER -> "not_requested"
Consistent(k) ==
  /\ Course(k)
  /\ k.get = "absent" <=> k.rec = "absent"
  /\ k.cut = "absent" <=> k.shot = "absent"
  /\ k.del = "absent" <=> k.shot = "absent"
  /\ k.rec = "absent" => k.shot = "absent"
  /\ k.flow = "none" <=> k.shot \in {"absent", "pending"}
  /\ k.flow # "none" => k.rec \in RecEnded \union {"expired"}
  /\ k.clean = IF k.rec \in RecEnded THEN Cleaning(k.del) ELSE "absent"
  /\ k.clean = "absent" => k.dig = "plain"
  /\ k.del \in {"running", "succeeded", "failed"} => k.rec \in RecEnded
  /\ k.dlv \in CASE k.get = "running" -> Unfinished
                 [] k.get = "succeeded" -> {"published", "withdrawn"}
                 [] k.get = "failed" -> {"failed"}
                 [] k.get = "stopped" -> {"canceled"}
                 [] OTHER -> {"absent"}
  /\ k.copy \in CASE k.dlv \in {"absent", "pending"} -> {"c0"}
                  [] k.dlv = "preparing" -> {"c1", "c2"}
                  [] k.dlv = "failed" -> {"f2"}
                  [] k.dlv = "canceled" -> {"c0", "c1", "c2", "s1", "s2"}
                  [] OTHER -> Whole
  /\ k.dlv # "absent" => k.rec \in RecEnded
  /\ k.cut = "withdrawn" => "d" \in k.known
  /\ "d" \in k.known => k.dlv # "absent"

\* Which stage may follow which, after any number of changes.
RecOrder(x, y) ==
  \/ x = y
  \/ x = "absent"
  \/ x = "pending" /\ y # "absent"
  \/ x = "running" /\ y \in {"again", "succeeded", "failed"}
  \/ x = "again" /\ y = "failed"
FlowOrder(x, y) ==
  \/ x = y
  \/ x = "none"
  \/ x = "running" /\ y = "succeeded"
GetOrder(x, y) ==
  \/ x = y
  \/ x = "absent"
  \/ x = "pending" /\ y \in GetBegun \union {"canceled"}
  \/ x = "running" /\ y \in GetBegun
ShotOrder(x, y) ==
  \/ x = y
  \/ x = "absent"
  \/ x = "pending" /\ y # "absent"
  \/ x = "running" /\ y = "succeeded"
CutOrder(x, y) ==
  \/ x = y
  \/ x = "absent"
  \/ x = "pending" /\ y # "absent"
  \/ x = "running" /\ y \in {"withdrawn", "left"}
DelOrder(x, y) ==
  \/ x = y
  \/ x = "absent"
  \/ x = "pending" /\ y # "absent"
  \/ x = "running" /\ y \in {"succeeded", "failed"}
DlvOrder(x, y) ==
  \/ x = y
  \/ x = "absent"
  \/ x = "pending" /\ y # "absent"
  \/ x = "preparing" /\ y \notin {"absent", "pending"}
  \/ x = "prepared" /\ y \in {"publishing", "published", "withdrawn", "canceled"}
  \/ x = "publishing" /\ y \in {"published", "withdrawn", "canceled"}
  \/ x = "published" /\ y = "withdrawn"
CopyOrder(x, y) ==
  \/ x = y
  \/ x = "c0"
  \/ x = "c1" /\ y # "c0"
  \/ x = "c2" /\ y \in {"s2", "f2"}
Before(k, l) ==
  /\ RecOrder(k.rec, l.rec) /\ FlowOrder(k.flow, l.flow) /\ GetOrder(k.get, l.get)
  /\ ShotOrder(k.shot, l.shot) /\ CutOrder(k.cut, l.cut) /\ DelOrder(k.del, l.del)
  /\ DlvOrder(k.dlv, l.dlv) /\ CopyOrder(k.copy, l.copy)
  /\ k.cut \in {"running", "withdrawn", "left"} => k.known = l.known
  /\ k.dig = "hashed" => l.dig = "hashed"
  /\ k.clean # "absent" => l.clean # "absent"

------------------------------------------------------------------------------
(* What the entities of a state are. *)

LEMMA NewParts ==
  ASSUME NEW p, NEW a, NEW t, NEW g, NEW i, NEW s, NEW e, NEW r
  PROVE  LET y == NewAct(p, a, t, g, i, s, e, r) IN
         /\ y.plan = p /\ y.name = a /\ y.type = t /\ y.device = "cam" /\ y.group = g
         /\ y.input = i /\ y.status = s /\ ~y.started /\ y.expired = e /\ y.error = r
         /\ y.result = {} /\ "plan" \in DOMAIN y
  BY DEF NewAct, Act

LEMMA BegunParts ==
  ASSUME NEW p, NEW a, NEW t, NEW g, NEW i, NEW s, NEW x
  PROVE  LET y == BegunAct(p, a, t, g, i, s, x) IN
         /\ y.plan = p /\ y.name = a /\ y.type = t /\ y.device = "cam" /\ y.group = g
         /\ y.input = i /\ y.status = s /\ y.started /\ y.expired = {} /\ y.error = {}
         /\ y.result = {x} /\ "plan" \in DOMAIN y
  BY DEF BegunAct, Act

\* An action with one field changed.
WithStatus(y, z) == [y EXCEPT !.status = z]
WithStarted(y, z) == [y EXCEPT !.started = z]
WithExpired(y, z) == [y EXCEPT !.expired = z]
WithError(y, z) == [y EXCEPT !.error = z]
WithResult(y, z) == [y EXCEPT !.result = z]
WithInput(y, z) == [y EXCEPT !.input = z]
WithGroup(y, z) == [y EXCEPT !.group = z]
Begin(y) == WithStarted(y, TRUE)
ResultIs(y, z) == WithResult(y, {z})
Missed(y, u, z) == [y EXCEPT !.status = u, !.expired = z]

LEMMA ActWith ==
  ASSUME NEW p, NEW a, NEW t, NEW g, NEW i, NEW s, NEW b, NEW e, NEW r, NEW x, NEW z
  PROVE  LET y == Act(p, a, t, g, i, s, b, e, r, x) IN
         /\ WithStatus(y, z) = Act(p, a, t, g, i, z, b, e, r, x)
         /\ WithStarted(y, z) = Act(p, a, t, g, i, s, z, e, r, x)
         /\ WithExpired(y, z) = Act(p, a, t, g, i, s, b, z, r, x)
         /\ WithError(y, z) = Act(p, a, t, g, i, s, b, e, z, x)
         /\ WithResult(y, z) = Act(p, a, t, g, i, s, b, e, r, z)
         /\ WithInput(y, z) = Act(p, a, t, g, z, s, b, e, r, x)
         /\ WithGroup(y, z) = Act(p, a, t, z, i, s, b, e, r, x)
  BY DEF Act, WithStatus, WithStarted, WithExpired, WithError, WithResult, WithInput, WithGroup

\* The same of an action that has not begun, and of one that has.
LEMMA NewWith ==
  ASSUME NEW p, NEW a, NEW t, NEW g, NEW i, NEW s, NEW e, NEW r, NEW z
  PROVE  LET y == NewAct(p, a, t, g, i, s, e, r) IN
         /\ WithStatus(y, z) = NewAct(p, a, t, g, i, z, e, r)
         /\ WithExpired(y, z) = NewAct(p, a, t, g, i, s, z, r)
         /\ WithError(y, z) = NewAct(p, a, t, g, i, s, e, z)
         /\ WithInput(y, z) = NewAct(p, a, t, g, z, s, e, r)
         /\ WithGroup(y, z) = NewAct(p, a, t, z, i, s, e, r)
  <1>1. \A v : LET y == Act(p, a, t, g, i, s, v, e, r, {}) IN
         /\ WithStatus(y, z) = Act(p, a, t, g, i, z, v, e, r, {})
         /\ WithExpired(y, z) = Act(p, a, t, g, i, s, v, z, r, {})
         /\ WithError(y, z) = Act(p, a, t, g, i, s, v, e, z, {})
         /\ WithInput(y, z) = Act(p, a, t, g, z, s, v, e, r, {})
         /\ WithGroup(y, z) = Act(p, a, t, z, i, s, v, e, r, {})
    BY ActWith
  <1> QED
    BY <1>1, Zenon DEF NewAct

LEMMA NewResult ==
  ASSUME NEW p, NEW a, NEW t, NEW g, NEW i, NEW s, NEW e, NEW r
  PROVE  WithResult(NewAct(p, a, t, g, i, s, e, r), {}) = NewAct(p, a, t, g, i, s, e, r)
  <1>1. \A v : WithResult(Act(p, a, t, g, i, s, v, e, r, {}), {}) = Act(p, a, t, g, i, s, v, e, r, {})
    BY ActWith
  <1> QED
    BY <1>1, Zenon DEF NewAct

LEMMA BegunStatus ==
  ASSUME NEW p, NEW a, NEW t, NEW g, NEW i, NEW s, NEW x, NEW z
  PROVE  WithStatus(BegunAct(p, a, t, g, i, s, x), z) = BegunAct(p, a, t, g, i, z, x)
  <1>1. \A v : WithStatus(Act(p, a, t, g, i, s, v, {}, {}, {x}), z) = Act(p, a, t, g, i, z, v, {}, {}, {x})
    BY ActWith
  <1> QED
    BY <1>1, Zenon DEF BegunAct

LEMMA BegunResult ==
  ASSUME NEW p, NEW a, NEW t, NEW g, NEW i, NEW s, NEW x, NEW z
  PROVE  ResultIs(BegunAct(p, a, t, g, i, s, x), z) = BegunAct(p, a, t, g, i, s, z)
  <1>1. \A v : WithResult(Act(p, a, t, g, i, s, v, {}, {}, {x}), {z}) = Act(p, a, t, g, i, s, v, {}, {}, {z})
    BY ActWith
  <1> QED
    BY <1>1, Zenon DEF BegunAct, ResultIs

LEMMA Beginning ==
  ASSUME NEW p, NEW a, NEW t, NEW g, NEW i, NEW s, NEW z
  PROVE  ResultIs(Begin(NewAct(p, a, t, g, i, s, {}, {})), z) = BegunAct(p, a, t, g, i, s, z)
  <1>1. \A u, v : WithResult(WithStarted(Act(p, a, t, g, i, s, u, {}, {}, {}), v), {z})
                    = Act(p, a, t, g, i, s, v, {}, {}, {z})
    BY ActWith
  <1> QED
    BY <1>1, Zenon DEF NewAct, BegunAct, Begin, ResultIs

LEMMA StartedIs ==
  ASSUME NEW p, NEW a, NEW t, NEW g, NEW i, NEW s, NEW z
  PROVE  Started(NewAct(p, a, t, g, i, s, {}, {}), z) = BegunAct(p, a, t, g, i, "running", z)
  <1> DEFINE y == NewAct(p, a, t, g, i, s, {}, {})
  <1> HIDE DEF y
  <1>1. Started(y, z) = ResultIs(Begin(WithStatus(y, "running")), z)
    BY DEF Started, WithResult, WithStarted, WithStatus, Begin, ResultIs
  <1>2. WithStatus(y, "running") = NewAct(p, a, t, g, i, "running", {}, {})
    BY NewWith DEF y
  <1>3. ResultIs(Begin(NewAct(p, a, t, g, i, "running", {}, {})), z)
          = BegunAct(p, a, t, g, i, "running", z)
    BY Beginning
  <1>4. Started(y, z) = BegunAct(p, a, t, g, i, "running", z)
    BY <1>1, <1>2, <1>3
  <1> QED
    BY <1>4 DEF y

LEMMA EndedIs ==
  ASSUME NEW p, NEW a, NEW t, NEW g, NEW i, NEW s, NEW x, NEW u, NEW z
  PROVE  Ended(BegunAct(p, a, t, g, i, s, x), u, z) = BegunAct(p, a, t, g, i, u, z)
  <1> DEFINE y == BegunAct(p, a, t, g, i, s, x)
  <1> HIDE DEF y
  <1>1. Ended(y, u, z) = ResultIs(WithStatus(y, u), z)
    BY DEF Ended, WithResult, WithStatus, ResultIs
  <1>2. WithStatus(y, u) = BegunAct(p, a, t, g, i, u, x)
    BY BegunStatus DEF y
  <1>3. ResultIs(BegunAct(p, a, t, g, i, u, x), z) = BegunAct(p, a, t, g, i, u, z)
    BY BegunResult
  <1>4. Ended(y, u, z) = BegunAct(p, a, t, g, i, u, z)
    BY <1>1, <1>2, <1>3, Zenon
  <1> QED
    BY <1>4, Zenon DEF y

LEMMA MissedIs ==
  ASSUME NEW p, NEW a, NEW t, NEW g, NEW i, NEW s, NEW e, NEW r, NEW u, NEW z
  PROVE  Missed(NewAct(p, a, t, g, i, s, e, r), u, z) = NewAct(p, a, t, g, i, u, z, r)
  <1> DEFINE y == NewAct(p, a, t, g, i, s, e, r)
  <1> HIDE DEF y
  <1>1. Missed(y, u, z) = WithExpired(WithStatus(y, u), z)
    BY DEF Missed, WithExpired, WithStatus
  <1>2. WithExpired(WithStatus(y, u), z) = NewAct(p, a, t, g, i, u, z, r)
    BY NewWith DEF y
  <1>3. Missed(y, u, z) = NewAct(p, a, t, g, i, u, z, r)
    BY <1>1, <1>2, Zenon
  <1> QED
    BY <1>3, Zenon DEF y

LEMMA ActionIs ==
  ASSUME NEW p, NEW a, NEW t, NEW i
  PROVE  Action(p, a, t, i) = NewAct(p, a, t, {}, i, "pending", {}, {})
  BY DEF Action, NewAct, Act

LEMMA RecForms ==
  ASSUME NEW f
  PROVE  /\ RecAt("pending", f) = NewAct("p", "rec", "camera_record", {"g"}, Asked, "pending", {}, {})
         /\ RecAt("expired", f) =
              NewAct("p", "rec", "camera_record", {"g"}, Asked, "expired", {"window_missed"}, {})
         /\ RecAt("running", f) =
              BegunAct("p", "rec", "camera_record", {"g"}, Asked, "running", RecordedAt("running", f))
         /\ RecAt("again", f) =
              BegunAct("p", "rec", "camera_record", {"g"}, Asked, "running", RecordedAt("again", f))
         /\ RecAt("succeeded", f) =
              BegunAct("p", "rec", "camera_record", {"g"}, Asked, "succeeded", RecordedAt("succeeded", f))
         /\ RecAt("failed", f) =
              BegunAct("p", "rec", "camera_record", {"g"}, Asked, "failed", RecordedAt("failed", f))
  BY DEF RecAt

LEMMA RecordedForms ==
  /\ Recorded(<<"running">>, <<>>) = RecordedAt("running", "none")
  /\ Recorded(<<"failed", "running">>, <<>>) = RecordedAt("again", "none")
  BY DEF Recorded, RecordedAt, GroupAt, Part, RecStart, RecStop

LEMMA GetForms ==
  /\ GetAt("pending") = NewAct("p", "get", "obtain_action_outputs", {}, HeldInput, "pending", {}, {})
  /\ GetAt("canceled") = NewAct("p", "get", "obtain_action_outputs", {}, HeldInput, "canceled", {}, {})
  /\ GetAt("running") =
       BegunAct("p", "get", "obtain_action_outputs", {}, HeldInput, "running", Nothing)
  /\ GetAt("succeeded") =
       BegunAct("p", "get", "obtain_action_outputs", {}, HeldInput, "succeeded", Nothing)
  /\ GetAt("stopped") =
       BegunAct("p", "get", "obtain_action_outputs", {}, HeldInput, "canceled", Nothing)
  /\ GetAt("failed") =
       BegunAct("p", "get", "obtain_action_outputs", {}, HeldInput, "failed", Losing)
  /\ GetAt("inadmissible") =
       NewAct("p", "get", "obtain_action_outputs", {}, BadInput, "failed", {}, {[stage |-> "admission"]})
  BY DEF GetAt, GetInput, GetStatus, GetBegun

LEMMA OtherForms ==
  /\ ShotAt("pending") = NewAct("q", "shot", "camera_take_photo", {}, Asked, "pending", {}, {})
  /\ ShotAt("running") =
       BegunAct("q", "shot", "camera_take_photo", {}, Asked, "running", TakenAt("running"))
  /\ ShotAt("succeeded") =
       BegunAct("q", "shot", "camera_take_photo", {}, Asked, "succeeded", TakenAt("succeeded"))
  /\ \A f : /\ CutAt("pending", f) =
                 NewAct("q", "cut", "cancel_task", {}, CutInput, "pending", {}, {})
            /\ CutAt("running", f) =
                 BegunAct("q", "cut", "cancel_task", {}, CutInput, "running", CutItems("running", f))
            /\ CutAt("withdrawn", f) =
                 BegunAct("q", "cut", "cancel_task", {}, CutInput, "succeeded", CutItems("withdrawn", f))
            /\ CutAt("left", f) =
                 BegunAct("q", "cut", "cancel_task", {}, CutInput, "succeeded", CutItems("left", f))
  /\ DelAt("pending") = NewAct("q", "del", "delete_action_outputs", {}, DelInput, "pending", {}, {})
  /\ DelAt("running") =
       BegunAct("q", "del", "delete_action_outputs", {}, DelInput, "running", DelItems("running"))
  /\ DelAt("succeeded") =
       BegunAct("q", "del", "delete_action_outputs", {}, DelInput, "succeeded", DelItems("succeeded"))
  /\ DelAt("failed") =
       BegunAct("q", "del", "delete_action_outputs", {}, DelInput, "failed", DelItems("failed"))
  BY DEF ShotAt, CutAt, CutStatus, DelAt

\* The changes of a recording.
LEMMA RecSteps ==
  /\ \A f : Started(RecAt("pending", f), Recorded(<<"running">>, <<>>)) = RecAt("running", "none")
  /\ \A f : Missed(RecAt("pending", f), "expired", {"window_missed"}) = RecAt("expired", f)
  /\ Ended(RecAt("running", "none"), "running", Recorded(<<"failed", "running">>, <<>>)) = RecAt("again", "none")
  <1>1. \A f : Started(RecAt("pending", f), Recorded(<<"running">>, <<>>)) = RecAt("running", "none")
    BY RecForms, RecordedForms, StartedIs, MissedIs, EndedIs
  <1>2. \A f : Missed(RecAt("pending", f), "expired", {"window_missed"}) = RecAt("expired", f)
    BY RecForms, StartedIs, MissedIs, EndedIs
  <1>3. Ended(RecAt("running", "none"), "running", Recorded(<<"failed", "running">>, <<>>)) = RecAt("again", "none")
    BY RecForms, RecordedForms, StartedIs, MissedIs, EndedIs
  <1> QED
    BY <1>1, <1>2, <1>3

\* What a recording reports, with one part changed.
Group(start, stop, followup, emergency) ==
  [start |-> start, stop |-> stop, followup |-> followup, emergency |-> emergency]
Recording(g, copy, repair) == [recording |-> {g}, copy |-> copy, repair |-> repair]
WithCopy(r, z) == [r EXCEPT !.copy = z]
WithRepair(r, z) == [r EXCEPT !.repair = z]
Regrouped(r, g) == [r EXCEPT !.recording = {g}]
WithFollowup(g, z) == [g EXCEPT !.followup = z]
WithEmergency(g, z) == [g EXCEPT !.emergency = z]
Stopped(r, z) == [r EXCEPT !.recording = {[g EXCEPT !.followup = z] : g \in @}]
Compelled(r, z) == [r EXCEPT !.recording = {[g EXCEPT !.emergency = z] : g \in @}]
Finished(start, stop) ==
  [Recorded(start, stop) EXCEPT !.copy = {Copying(1, <<"succeeded">>, 2)}, !.repair = {"not_needed"}]
CopiedOnce == {Copying(1, <<"succeeded">>, 2)}
NotNeeded == {"not_needed"}
NoFlow == <<>>
Forcing == [e |-> [session |-> 1, max |-> {2}, used |-> 1]]
Following(f) == [s |-> FlowAt(f)]

LEMMA RecordingWith ==
  ASSUME NEW g, NEW c, NEW r, NEW z
  PROVE  /\ WithCopy(Recording(g, c, r), z) = Recording(g, z, r)
         /\ WithRepair(Recording(g, c, r), z) = Recording(g, c, z)
         /\ Regrouped(Recording(g, c, r), z) = Recording(z, c, r)
  BY DEF WithCopy, WithRepair, Regrouped, Recording

LEMMA GroupWith ==
  ASSUME NEW s, NEW t, NEW f, NEW e, NEW z
  PROVE  /\ WithFollowup(Group(s, t, f, e), z) = Group(s, t, z, e)
         /\ WithEmergency(Group(s, t, f, e), z) = Group(s, t, f, z)
  BY DEF WithFollowup, WithEmergency, Group

LEMMA Regrouping ==
  ASSUME NEW g, NEW c, NEW r, NEW z
  PROVE  /\ Stopped(Recording(g, c, r), z) = Recording(WithFollowup(g, z), c, r)
         /\ Compelled(Recording(g, c, r), z) = Recording(WithEmergency(g, z), c, r)
  <1> DEFINE x == Recording(g, c, r)
  <1>1. x.recording = {g}
    BY DEF Recording
  <1> HIDE DEF x
  <1>2. {[h EXCEPT !.followup = z] : h \in x.recording} = {WithFollowup(g, z)}
    BY <1>1 DEF WithFollowup
  <1>3. {[h EXCEPT !.emergency = z] : h \in x.recording} = {WithEmergency(g, z)}
    BY <1>1 DEF WithEmergency
  <1>4. /\ Stopped(x, z) = [x EXCEPT !.recording = {[h EXCEPT !.followup = z] : h \in x.recording}]
        /\ Compelled(x, z) = [x EXCEPT !.recording = {[h EXCEPT !.emergency = z] : h \in x.recording}]
    BY DEF Stopped, Compelled
  <1>5. /\ Stopped(x, z) = Regrouped(x, WithFollowup(g, z))
        /\ Compelled(x, z) = Regrouped(x, WithEmergency(g, z))
    BY <1>2, <1>3, <1>4, Zenon DEF Regrouped
  <1>6. /\ Regrouped(x, WithFollowup(g, z)) = Recording(WithFollowup(g, z), c, r)
        /\ Regrouped(x, WithEmergency(g, z)) = Recording(WithEmergency(g, z), c, r)
    BY RecordingWith DEF x
  <1> QED
    BY <1>5, <1>6 DEF x

LEMMA GroupForms ==
  ASSUME NEW f
  PROVE  /\ GroupAt("running", f) =
              Group(Part(RecStart("running")), Part(RecStop("running")), IF f = "none" THEN NoFlow ELSE Following(f), NoFlow)
         /\ GroupAt("again", f) =
              Group(Part(RecStart("again")), Part(RecStop("again")), IF f = "none" THEN NoFlow ELSE Following(f), NoFlow)
         /\ GroupAt("succeeded", f) =
              Group(Part(RecStart("succeeded")), Part(RecStop("succeeded")),
                    IF f = "none" THEN NoFlow ELSE Following(f), NoFlow)
         /\ GroupAt("failed", f) =
              Group(Part(RecStart("failed")), Part(RecStop("failed")),
                    IF f = "none" THEN NoFlow ELSE Following(f), Forcing)
  BY DEF GroupAt, Group, NoFlow, Forcing, Compulsion, Following

LEMMA RecordedAtForms ==
  ASSUME NEW f
  PROVE  /\ RecordedAt("running", f) = Recording(GroupAt("running", f), {}, {})
         /\ RecordedAt("again", f) = Recording(GroupAt("again", f), {}, {})
         /\ RecordedAt("succeeded", f) = Recording(GroupAt("succeeded", f), CopiedOnce, NotNeeded)
         /\ RecordedAt("failed", f) = Recording(GroupAt("failed", f), CopiedOnce, NotNeeded)
  BY DEF RecordedAt, Recording, CopiedOnce, NotNeeded

LEMMA RecordedIs ==
  ASSUME NEW s, NEW t
  PROVE  /\ Recorded(s, t) = Recording(Group(Part(s), Part(t), NoFlow, NoFlow), {}, {})
         /\ Finished(s, t) = Recording(Group(Part(s), Part(t), NoFlow, NoFlow), CopiedOnce, NotNeeded)
  <1>1. Recorded(s, t) = Recording(Group(Part(s), Part(t), NoFlow, NoFlow), {}, {})
    BY DEF Recorded, Recording, Group, Part, NoFlow
  <1> DEFINE r == Recorded(s, t)
  <1> HIDE DEF r
  <1>2. Finished(s, t) = [r EXCEPT !.copy = CopiedOnce, !.repair = NotNeeded]
    BY DEF Finished, r, CopiedOnce, NotNeeded
  <1>3. [r EXCEPT !.copy = CopiedOnce, !.repair = NotNeeded] = WithRepair(WithCopy(r, CopiedOnce), NotNeeded)
    BY DEF WithRepair, WithCopy
  <1>4. WithRepair(WithCopy(r, CopiedOnce), NotNeeded)
          = Recording(Group(Part(s), Part(t), NoFlow, NoFlow), CopiedOnce, NotNeeded)
    BY <1>1, RecordingWith DEF r
  <1> QED
    BY <1>1, <1>2, <1>3, <1>4, Zenon

LEMMA RecEnds ==
  /\ Finished(<<"succeeded">>, <<"succeeded">>) = RecordedAt("succeeded", "none")
  /\ Compelled(Finished(<<"failed", "succeeded">>, <<"failed", "failed">>), Forcing) = RecordedAt("failed", "none")
  /\ Ended(RecAt("running", "none"), "succeeded", RecordedAt("succeeded", "none")) = RecAt("succeeded", "none")
  /\ Ended(RecAt("again", "none"), "failed", RecordedAt("failed", "none")) = RecAt("failed", "none")
  <1>1. Finished(<<"succeeded">>, <<"succeeded">>) = RecordedAt("succeeded", "none")
    <2>1. RecStart("succeeded") = <<"succeeded">> /\ RecStop("succeeded") = <<"succeeded">>
      BY DEF RecStart, RecStop
    <2> QED
      BY <2>1, RecordedIs, RecordedAtForms, GroupForms, Zenon
  <1>2. Compelled(Finished(<<"failed", "succeeded">>, <<"failed", "failed">>), Forcing) = RecordedAt("failed", "none")
    <2>1. RecStart("failed") = <<"failed", "succeeded">> /\ RecStop("failed") = <<"failed", "failed">>
      BY DEF RecStart, RecStop
    <2> DEFINE g == Group(Part(RecStart("failed")), Part(RecStop("failed")), NoFlow, NoFlow)
    <2>2. Finished(<<"failed", "succeeded">>, <<"failed", "failed">>) = Recording(g, CopiedOnce, NotNeeded)
      BY <2>1, RecordedIs, Zenon
    <2>3. Compelled(Recording(g, CopiedOnce, NotNeeded), Forcing)
            = Recording(WithEmergency(g, Forcing), CopiedOnce, NotNeeded)
      BY Regrouping
    <2>4. WithEmergency(g, Forcing) = GroupAt("failed", "none")
      BY GroupWith, GroupForms
    <2> QED
      BY <2>2, <2>3, <2>4, RecordedAtForms, Zenon
  <1>3. Ended(RecAt("running", "none"), "succeeded", RecordedAt("succeeded", "none")) = RecAt("succeeded", "none")
    BY RecForms, EndedIs
  <1>4. Ended(RecAt("again", "none"), "failed", RecordedAt("failed", "none")) = RecAt("failed", "none")
    BY RecForms, EndedIs
  <1> QED
    BY <1>1, <1>2, <1>3, <1>4

\* A later action that makes sure the recording has stopped.
Restopped(x, z) == [x EXCEPT !.result = {[r EXCEPT !.recording = {[g EXCEPT !.followup = z] : g \in @}] : r \in @}]

LEMMA RecFollowed ==
  ASSUME NEW f, NEW k \in {"expired", "succeeded", "failed"}, NEW h \in {"running", "succeeded"}
  PROVE  Restopped(RecAt(k, f), Following(h)) = RecAt(k, h)
  <1> DEFINE x == RecAt(k, f)  z == Following(h)
  <1>1. Restopped(x, z) = [x EXCEPT !.result = {Stopped(r, z) : r \in x.result}]
    BY DEF Restopped, Stopped
  <1>2. CASE k = "expired"
    <2>1. x = NewAct("p", "rec", "camera_record", {"g"}, Asked, "expired", {"window_missed"}, {}) /\ x = RecAt(k, h)
      BY <1>2, RecForms
    <2> HIDE DEF x, z
    <2>2. x.result = {}
      BY <2>1, NewParts
    <2>3. Restopped(x, z) = WithResult(x, {})
      BY <1>1, <2>2, Zenon DEF WithResult
    <2>4. WithResult(x, {}) = x
      BY <2>1, NewResult
    <2> QED
      BY <2>1, <2>3, <2>4 DEF x, z
  <1>3. CASE k # "expired"
    <2>1. x = BegunAct("p", "rec", "camera_record", {"g"}, Asked, k, RecordedAt(k, f))
      BY <1>3, RecForms
    <2>2. RecAt(k, h) = BegunAct("p", "rec", "camera_record", {"g"}, Asked, k, RecordedAt(k, h))
      BY <1>3, RecForms
    <2>3. Stopped(RecordedAt(k, f), z) = RecordedAt(k, h)
      <3>1. PICK u : RecordedAt(k, f) = Recording(GroupAt(k, f), CopiedOnce, NotNeeded)
                     /\ GroupAt(k, f) = Group(Part(RecStart(k)), Part(RecStop(k)),
                                              IF f = "none" THEN NoFlow ELSE Following(f), u)
                     /\ GroupAt(k, h) = Group(Part(RecStart(k)), Part(RecStop(k)), Following(h), u)
                     /\ RecordedAt(k, h) = Recording(GroupAt(k, h), CopiedOnce, NotNeeded)
        <4>1. CASE k = "succeeded"
          BY <4>1, RecordedAtForms, GroupForms
        <4>2. CASE k = "failed"
          BY <4>2, RecordedAtForms, GroupForms
        <4> QED
          BY <1>3, <4>1, <4>2
      <3>2. WithFollowup(GroupAt(k, f), z) = GroupAt(k, h)
        BY <3>1, GroupWith
      <3> QED
        BY <3>1, <3>2, Regrouping
    <2> HIDE DEF x, z
    <2>4. x.result = {RecordedAt(k, f)}
      BY <2>1, BegunParts
    <2>5. {Stopped(r, z) : r \in x.result} = {RecordedAt(k, h)}
      BY <2>3, <2>4
    <2>6. Restopped(x, z) = ResultIs(x, RecordedAt(k, h))
      BY <1>1, <2>5, Zenon DEF ResultIs, WithResult
    <2>7. ResultIs(x, RecordedAt(k, h)) = RecAt(k, h)
      BY <2>1, <2>2, BegunResult
    <2> QED
      BY <2>6, <2>7 DEF x, z
  <1> QED
    BY <1>2, <1>3

\* The changes of the other actions.
LEMMA GetSteps ==
  /\ Started(GetAt("pending"), Nothing) = GetAt("running")
  /\ Ended(GetAt("running"), "succeeded", Nothing) = GetAt("succeeded")
  /\ Ended(GetAt("running"), "failed", Losing) = GetAt("failed")
  /\ WithStatus(GetAt("pending"), "canceled") = GetAt("canceled")
  /\ WithStatus(GetAt("running"), "canceled") = GetAt("stopped")
  BY GetForms, StartedIs, EndedIs, NewWith, BegunStatus

Taken(n, statuses) ==
  [count |-> {n}, start |-> {[max |-> 1, attempts |-> Try(statuses)]}, stop |-> {}]

LEMMA ShotSteps ==
  /\ Started(ShotAt("pending"), Taken(0, <<>>)) = ShotAt("running")
  /\ Ended(ShotAt("running"), "succeeded", Taken(1, <<"succeeded">>)) = ShotAt("succeeded")
  <1>1. Taken(0, <<>>) = TakenAt("running") /\ Taken(1, <<"succeeded">>) = TakenAt("succeeded")
    BY DEF Taken, TakenAt
  <1>2. Started(ShotAt("pending"), TakenAt("running")) = ShotAt("running")
    BY OtherForms, StartedIs
  <1>3. Ended(ShotAt("running"), "succeeded", TakenAt("succeeded")) = ShotAt("succeeded")
    BY OtherForms, EndedIs
  <1> QED
    BY <1>1, <1>2, <1>3, Zenon

Answer(known, status, each) ==
  [items |-> [get |-> [status |-> status, withdrawals |-> [d \in known |-> [status |-> each]]]]]

LEMMA CutSteps ==
  ASSUME NEW f
  PROVE  /\ Started(CutAt("pending", f), Answer(f, "running", "pending")) = CutAt("running", f)
         /\ Ended(CutAt("running", f), "succeeded", Answer(f, "succeeded", "withdrawn")) = CutAt("withdrawn", f)
         /\ Ended(CutAt("running", f), "succeeded", Answer(f, "succeeded", "not_retractable")) = CutAt("left", f)
  <1>1. /\ Answer(f, "running", "pending") = CutItems("running", f)
        /\ Answer(f, "succeeded", "withdrawn") = CutItems("withdrawn", f)
        /\ Answer(f, "succeeded", "not_retractable") = CutItems("left", f)
    <2>1. /\ CutStatus("running") = "running" /\ CutStatus("withdrawn") = "succeeded" /\ CutStatus("left") = "succeeded"
      BY DEF CutStatus
    <2>2. /\ Withdrawal("running") = "pending" /\ Withdrawal("withdrawn") = "withdrawn"
          /\ Withdrawal("left") = "not_retractable"
      BY DEF Withdrawal
    <2> QED
      BY <2>1, <2>2, Zenon DEF Answer, CutItems
  <1> QED
    BY <1>1, OtherForms, StartedIs, EndedIs

LEMMA DelSteps ==
  /\ Started(DelAt("pending"), DelItems("running")) = DelAt("running")
  /\ Ended(DelAt("running"), "succeeded", DelItems("succeeded")) = DelAt("succeeded")
  /\ Ended(DelAt("running"), "failed", DelItems("failed")) = DelAt("failed")
  BY OtherForms, StartedIs, EndedIs

\* What the actions of a plan are when it arrives.
Refused(y) == WithError(WithStatus(WithInput(y, BadInput), "failed"), {[stage |-> "admission"]})

LEMMA Arrivals ==
  /\ [Action("p", "rec", "camera_record", Asked) EXCEPT !.group = {"g"}] = RecAt("pending", "none")
  /\ Action("p", "get", "obtain_action_outputs", HeldInput) = GetAt("pending")
  /\ [Action("p", "get", "obtain_action_outputs", HeldInput) EXCEPT
        !.input = BadInput, !.status = "failed", !.error = {[stage |-> "admission"]}] = GetAt("inadmissible")
  /\ Action("q", "shot", "camera_take_photo", Asked) = ShotAt("pending")
  /\ \A f : Action("q", "cut", "cancel_task", CutInput) = CutAt("pending", f)
  /\ Action("q", "del", "delete_action_outputs", DelInput) = DelAt("pending")
  <1>1. [Action("p", "rec", "camera_record", Asked) EXCEPT !.group = {"g"}] = RecAt("pending", "none")
    <2>1. \A y : [y EXCEPT !.group = {"g"}] = WithGroup(y, {"g"})
      BY DEF WithGroup
    <2>2. WithGroup(NewAct("p", "rec", "camera_record", {}, Asked, "pending", {}, {}), {"g"}) = RecAt("pending", "none")
      BY NewWith, RecForms
    <2> QED
      BY <2>1, <2>2, ActionIs, Zenon
  <1>2. Action("p", "get", "obtain_action_outputs", HeldInput) = GetAt("pending")
    BY ActionIs, GetForms
  <1>3. [Action("p", "get", "obtain_action_outputs", HeldInput) EXCEPT
        !.input = BadInput, !.status = "failed", !.error = {[stage |-> "admission"]}] = GetAt("inadmissible")
    <2> DEFINE y == Action("p", "get", "obtain_action_outputs", HeldInput)
    <2>1. Refused(y) = GetAt("inadmissible")
      BY ActionIs, NewWith, GetForms DEF Refused
    <2> HIDE DEF y
    <2>2. [y EXCEPT !.input = BadInput, !.status = "failed", !.error = {[stage |-> "admission"]}] = Refused(y)
      BY DEF Refused, WithError, WithStatus, WithInput
    <2> QED
      BY <2>1, <2>2, Zenon DEF y
  <1>4. Action("q", "shot", "camera_take_photo", Asked) = ShotAt("pending")
    BY ActionIs, OtherForms
  <1>5. \A f : Action("q", "cut", "cancel_task", CutInput) = CutAt("pending", f)
    BY ActionIs, OtherForms
  <1>6. Action("q", "del", "delete_action_outputs", DelInput) = DelAt("pending")
    BY ActionIs, OtherForms
  <1> QED
    BY <1>1, <1>2, <1>3, <1>4, <1>5, <1>6, Zenon

\* The changes of the output.
Recleaned(y, cleanup, availability) == [y EXCEPT !.cleanup = cleanup, !.availability = availability]
Digested(y) == [y EXCEPT !.size = {2}, !.sha = {"right"}]

WithCleanup(y, z) == [y EXCEPT !.cleanup = z]
WithAvailability(y, z) == [y EXCEPT !.availability = z]
WithSize(y, z) == [y EXCEPT !.size = z]
WithSha(y, z) == [y EXCEPT !.sha = z]

LEMMA OutWith ==
  ASSUME NEW x, NEW v, NEW c, NEW n, NEW s, NEW z
  PROVE  /\ WithCleanup(Out(x, v, c, n, s), z) = Out(x, v, z, n, s)
         /\ WithAvailability(Out(x, v, c, n, s), z) = Out(x, z, c, n, s)
         /\ WithSize(Out(x, v, c, n, s), z) = Out(x, v, c, z, s)
         /\ WithSha(Out(x, v, c, n, s), z) = Out(x, v, c, n, z)
  BY DEF Out, WithCleanup, WithAvailability, WithSize, WithSha

LEMMA OutSteps ==
  /\ Output = OutAt("not_requested", "plain")
  /\ \A c, g : Recleaned(OutAt(c, g), "running", "restricted") = OutAt("running", g)
  /\ \A c, g : Recleaned(OutAt(c, g), "completed", "cleaned") = OutAt("completed", g)
  /\ \A c, g : Recleaned(OutAt(c, g), "incomplete", "restricted") = OutAt("incomplete", g)
  /\ \A c, g : Digested(OutAt(c, g)) = OutAt(c, "hashed")
  <1>a. \A r, z, y : Recleaned(r, z, y) = WithAvailability(WithCleanup(r, z), y)
    BY DEF Recleaned, WithAvailability, WithCleanup
  <1>b. \A r : Digested(r) = WithSha(WithSize(r, TheSize), TheSha)
    BY DEF Digested, WithSha, WithSize, TheSize, TheSha
  <1>0. \A x, v, c, n, s, z, y : Recleaned(Out(x, v, c, n, s), z, y) = Out(x, y, z, n, s)
    BY <1>a, OutWith
  <1>1. \A x, v, c, n, s : Digested(Out(x, v, c, n, s)) = Out(x, v, c, TheSize, TheSha)
    BY <1>b, OutWith
  <1>2. Output = OutAt("not_requested", "plain")
    BY DEF Output, OutAt, Out
  <1>3. \A c, g : Recleaned(OutAt(c, g), "running", "restricted") = OutAt("running", g)
    BY <1>0 DEF OutAt
  <1>4. \A c, g : Recleaned(OutAt(c, g), "completed", "cleaned") = OutAt("completed", g)
    BY <1>0 DEF OutAt
  <1>5. \A c, g : Recleaned(OutAt(c, g), "incomplete", "restricted") = OutAt("incomplete", g)
    BY <1>0 DEF OutAt
  <1>6. \A c, g : Digested(OutAt(c, g)) = OutAt(c, "hashed")
    BY <1>1 DEF OutAt
  <1> QED
    BY <1>2, <1>3, <1>4, <1>5, <1>6

\* The changes of the delivery.
WithDlv(y, z) == [y EXCEPT !.status = z]
Broken(y) == [y EXCEPT !.error = {"x"}]

LEMMA DlvSteps ==
  /\ Delivery("pending", CopyAt("c0")) = DlvAt("pending", "c0")
  /\ \A c \in {"c1", "c2"} : Delivery("preparing", CopyAt(c)) = DlvAt("preparing", c)
  /\ \A s \in {"prepared", "publishing", "published"}, c \in Whole : Delivery(s, CopyAt(c)) = DlvAt(s, c)
  /\ Broken(Delivery("failed", CopyAt("f2"))) = DlvAt("failed", "f2")
  /\ \A s \in Unfinished : \A c : WithDlv(DlvAt(s, c), "canceled") = DlvAt("canceled", c)
  /\ \A s \in Unfinished \union {"published"} : \A c : WithDlv(DlvAt(s, c), "withdrawn") = DlvAt("withdrawn", c)
  <1>0. \A s, n, h, e, c, z : WithDlv(Dlv(s, n, h, e, c), z) = Dlv(z, n, h, e, c)
    BY DEF WithDlv, Dlv
  <1>1. \A s, c : Delivery(s, c) = Dlv(s, IF s \in Complete THEN TheSize ELSE {},
                                       IF s \in Complete THEN TheSha ELSE {}, {}, c)
    BY DEF Delivery, Dlv, TheSize, TheSha
  <1>2. Delivery("pending", CopyAt("c0")) = DlvAt("pending", "c0")
    BY <1>1 DEF DlvAt, Complete, Whole
  <1>3. \A c \in {"c1", "c2"} : Delivery("preparing", CopyAt(c)) = DlvAt("preparing", c)
    BY <1>1 DEF DlvAt, Complete, Whole
  <1>4. \A s \in {"prepared", "publishing", "published"}, c \in Whole : Delivery(s, CopyAt(c)) = DlvAt(s, c)
    BY <1>1 DEF DlvAt, Complete
  <1>5. Broken(Delivery("failed", CopyAt("f2"))) = DlvAt("failed", "f2")
    <2>1. \A s, n, h, c : Broken(Dlv(s, n, h, {}, c)) = Dlv(s, n, h, {"x"}, c)
      BY DEF Broken, Dlv
    <2> QED
      BY <1>1, <2>1 DEF DlvAt, Complete, Whole
  <1>6. \A s \in Unfinished : \A c : WithDlv(DlvAt(s, c), "canceled") = DlvAt("canceled", c)
    BY <1>0 DEF DlvAt, Unfinished
  <1>7. \A s \in Unfinished \union {"published"} : \A c : WithDlv(DlvAt(s, c), "withdrawn") = DlvAt("withdrawn", c)
    BY <1>0 DEF DlvAt, Unfinished
  <1> QED
    BY <1>2, <1>3, <1>4, <1>5, <1>6, <1>7

------------------------------------------------------------------------------
(* How a change moves the course on. *)

LEMMA AtParts ==
  ASSUME NEW a, NEW b, NEW c, NEW d, NEW e, NEW f, NEW g, NEW h, NEW i, NEW j, NEW n
  PROVE  LET k == At(a, b, c, d, e, f, g, h, i, j, n) IN
         /\ k.rec = a /\ k.flow = b /\ k.get = c /\ k.shot = d /\ k.cut = e /\ k.known = f
         /\ k.del = g /\ k.clean = h /\ k.dig = i /\ k.dlv = j /\ k.copy = n
  BY DEF At

\* The state after a change of one kind of entities, and that kind of them.
Changing(w, v, a, o, d, x) ==
  Shaped(v) /\ v.plans = w.plans /\ v.actions = a /\ v.outputs = o /\ v.deliveries = d /\ v.diags = x
Writes(f, g, e, x) ==
  DOMAIN g = DOMAIN f \union {e} /\ g[e] = x /\ \A y \in DOMAIN f : y # e => g[y] = f[y]

LEMMA WithWrites ==
  ASSUME NEW f, NEW e, NEW x
  PROVE  Writes(f, With(f, e, x), e, x) /\ Mapping(With(f, e, x))
  BY DEF Writes, With, Mapping

LEMMA StateShaped ==
  ASSUME NEW p, NEW a, NEW o, NEW d, NEW x, Mapping(p), Mapping(a), Mapping(o), Mapping(d), Mapping(x)
  PROVE  Shaped(State(p, a, o, d, x))
  BY StateParts DEF Shaped

LEMMA StateChanges ==
  ASSUME NEW w, NEW a, NEW o, NEW d, NEW x,
         Mapping(w.plans), Mapping(a), Mapping(o), Mapping(d), Mapping(x)
  PROVE  Changing(w, State(w.plans, a, o, d, x), a, o, d, x)
  BY StateParts, StateShaped DEF Changing

LEMMA PutChanges ==
  ASSUME NEW w, Shaped(w), NEW e, NEW x
  PROVE  /\ Changing(w, Put(w, "actions", e, x), With(w.actions, e, x), w.outputs, w.deliveries, w.diags)
         /\ Changing(w, Put(w, "outputs", e, x), w.actions, With(w.outputs, e, x), w.deliveries, w.diags)
         /\ Changing(w, Put(w, "deliveries", e, x), w.actions, w.outputs, With(w.deliveries, e, x), w.diags)
         /\ Changing(w, Put(w, "diags", e, x), w.actions, w.outputs, w.deliveries, With(w.diags, e, x))
  <1>1. Mapping(w.plans) /\ Mapping(w.actions) /\ Mapping(w.outputs) /\ Mapping(w.deliveries) /\ Mapping(w.diags)
    BY DEF Shaped
  <1> DEFINE fa == With(w.actions, e, x)  fo == With(w.outputs, e, x)
             fd == With(w.deliveries, e, x)  fx == With(w.diags, e, x)
             va == Put(w, "actions", e, x)  vo == Put(w, "outputs", e, x)
             vd == Put(w, "deliveries", e, x)  vx == Put(w, "diags", e, x)
  <1>2. /\ va = State(w.plans, fa, w.outputs, w.deliveries, w.diags)
        /\ vo = State(w.plans, w.actions, fo, w.deliveries, w.diags)
        /\ vd = State(w.plans, w.actions, w.outputs, fd, w.diags)
        /\ vx = State(w.plans, w.actions, w.outputs, w.deliveries, fx)
    BY PutIs
  <1>3. Mapping(fa) /\ Mapping(fo) /\ Mapping(fd) /\ Mapping(fx)
    BY WithWrites
  <1> HIDE DEF fa, fo, fd, fx, va, vo, vd, vx
  <1>4. /\ Changing(w, va, fa, w.outputs, w.deliveries, w.diags)
        /\ Changing(w, vo, w.actions, fo, w.deliveries, w.diags)
        /\ Changing(w, vd, w.actions, w.outputs, fd, w.diags)
        /\ Changing(w, vx, w.actions, w.outputs, w.deliveries, fx)
    BY <1>1, <1>2, <1>3, StateChanges
  <1> QED
    BY <1>4 DEF fa, fo, fd, fx, va, vo, vd, vx

\* Two courses that differ in one entity only.
Alike(k, l) == PlansAt(l) = PlansAt(k) /\ ActionsAt(l) = ActionsAt(k)
SameActions(k, l, a) == \A b \in ActionsAt(k) : b # a => ActionAt(l, b) = ActionAt(k, b)
SameOutputs(k, l) == OutputsAt(l) = OutputsAt(k) /\ OutAt(l.clean, l.dig) = OutAt(k.clean, k.dig)
SameDeliveries(k, l) == DeliveriesAt(l) = DeliveriesAt(k) /\ DlvAt(l.dlv, l.copy) = DlvAt(k.dlv, k.copy)

LEMMA LaidAction ==
  ASSUME NEW w, NEW k, NEW l, NEW a, NEW y, Shaped(w), Laid(w, k), a \in ActionsAt(k), y = ActionAt(l, a),
         Alike(k, l), SameActions(k, l, a), SameOutputs(k, l), SameDeliveries(k, l)
  PROVE  Shaped(Put(w, "actions", a, y)) /\ Laid(Put(w, "actions", a, y), l)
  <1> DEFINE v == Put(w, "actions", a, y)
  <1>c. Changing(w, v, With(w.actions, a, y), w.outputs, w.deliveries, w.diags)
    BY PutChanges
  <1>1. Shaped(v) /\ v.plans = w.plans /\ v.actions = With(w.actions, a, y)
              /\ v.outputs = w.outputs /\ v.deliveries = w.deliveries /\ v.diags = w.diags
    BY <1>c DEF Changing
  <1> HIDE DEF v
  <1>w. Writes(w.actions, v.actions, a, y)
    BY <1>1, WithWrites
  <1>2. /\ DOMAIN v.actions = DOMAIN w.actions \union {a} /\ v.actions[a] = y
        /\ \A b \in DOMAIN w.actions : b # a => v.actions[b] = w.actions[b]
    BY <1>w DEF Writes
  <1>3. /\ DOMAIN w.actions = ActionsAt(k) /\ ActionsAt(l) = ActionsAt(k)
        /\ \A b \in ActionsAt(k) : w.actions[b] = ActionAt(k, b)
    BY DEF Laid, LaidActions, Alike
  <1>4. DOMAIN v.actions = ActionsAt(k)
    BY <1>2, <1>3
  <1>5. \A b \in ActionsAt(k) : v.actions[b] = ActionAt(l, b)
    BY <1>2, <1>3 DEF SameActions
  <1>6. LaidActions(v, l)
    BY <1>3, <1>4, <1>5 DEF LaidActions
  <1>7. LaidPlans(v, l)
    BY <1>1 DEF Laid, LaidPlans, Alike
  <1>8. LaidOutputs(v, l)
    BY <1>1 DEF Laid, LaidOutputs, SameOutputs
  <1>9. LaidDeliveries(v, l)
    BY <1>1 DEF Laid, LaidDeliveries, SameDeliveries
  <1>10. LaidDiags(v)
    BY <1>1 DEF Laid, LaidDiags
  <1>11. Laid(v, l)
    BY <1>6, <1>7, <1>8, <1>9, <1>10 DEF Laid
  <1> QED
    BY <1>1, <1>11 DEF v

LEMMA LaidOutput ==
  ASSUME NEW w, NEW k, NEW l, NEW y, Shaped(w), Laid(w, k), y = OutAt(l.clean, l.dig), l.clean # "absent",
         Alike(k, l), SameActions(k, l, ""), SameDeliveries(k, l)
  PROVE  Shaped(Put(w, "outputs", "o", y)) /\ Laid(Put(w, "outputs", "o", y), l)
  <1> DEFINE v == Put(w, "outputs", "o", y)
  <1>c. Changing(w, v, w.actions, With(w.outputs, "o", y), w.deliveries, w.diags)
    BY PutChanges
  <1>1. Shaped(v) /\ v.plans = w.plans /\ v.actions = w.actions
              /\ v.outputs = With(w.outputs, "o", y) /\ v.deliveries = w.deliveries /\ v.diags = w.diags
    BY <1>c DEF Changing
  <1> HIDE DEF v
  <1>w. Writes(w.outputs, v.outputs, "o", y)
    BY <1>1, WithWrites
  <1>2. DOMAIN v.outputs = DOMAIN w.outputs \union {"o"} /\ v.outputs["o"] = y
    BY <1>w DEF Writes
  <1>3. DOMAIN w.outputs \subseteq {"o"} /\ OutputsAt(l) = {"o"}
    BY DEF Laid, LaidOutputs, OutputsAt
  <1>4. DOMAIN v.outputs = OutputsAt(l)
    BY <1>2, <1>3
  <1>5. LaidOutputs(v, l)
    BY <1>2, <1>3, <1>4 DEF LaidOutputs
  <1>6. "" \notin ActionsAt(k)
    BY DEF ActionsAt
  <1>7. LaidPlans(v, l)
    BY <1>1 DEF Laid, LaidPlans, Alike
  <1>8. LaidActions(v, l)
    BY <1>1, <1>6 DEF Laid, LaidActions, Alike, SameActions
  <1>9. LaidDeliveries(v, l)
    BY <1>1 DEF Laid, LaidDeliveries, SameDeliveries
  <1>10. LaidDiags(v)
    BY <1>1 DEF Laid, LaidDiags
  <1>11. Laid(v, l)
    BY <1>5, <1>7, <1>8, <1>9, <1>10 DEF Laid
  <1> QED
    BY <1>1, <1>11 DEF v

LEMMA LaidDelivery ==
  ASSUME NEW w, NEW k, NEW l, NEW y, Shaped(w), Laid(w, k), y = DlvAt(l.dlv, l.copy), l.dlv # "absent",
         Alike(k, l), SameActions(k, l, ""), SameOutputs(k, l)
  PROVE  Shaped(Put(w, "deliveries", "d", y)) /\ Laid(Put(w, "deliveries", "d", y), l)
  <1> DEFINE v == Put(w, "deliveries", "d", y)
  <1>c. Changing(w, v, w.actions, w.outputs, With(w.deliveries, "d", y), w.diags)
    BY PutChanges
  <1>1. Shaped(v) /\ v.plans = w.plans /\ v.actions = w.actions
              /\ v.outputs = w.outputs /\ v.deliveries = With(w.deliveries, "d", y) /\ v.diags = w.diags
    BY <1>c DEF Changing
  <1> HIDE DEF v
  <1>w. Writes(w.deliveries, v.deliveries, "d", y)
    BY <1>1, WithWrites
  <1>2. DOMAIN v.deliveries = DOMAIN w.deliveries \union {"d"} /\ v.deliveries["d"] = y
    BY <1>w DEF Writes
  <1>3. DOMAIN w.deliveries \subseteq {"d"} /\ DeliveriesAt(l) = {"d"}
    BY DEF Laid, LaidDeliveries, DeliveriesAt
  <1>4. DOMAIN v.deliveries = DeliveriesAt(l)
    BY <1>2, <1>3
  <1>5. LaidDeliveries(v, l)
    BY <1>2, <1>3, <1>4 DEF LaidDeliveries
  <1>6. "" \notin ActionsAt(k)
    BY DEF ActionsAt
  <1>7. LaidPlans(v, l)
    BY <1>1 DEF Laid, LaidPlans, Alike
  <1>8. LaidActions(v, l)
    BY <1>1, <1>6 DEF Laid, LaidActions, Alike, SameActions
  <1>9. LaidOutputs(v, l)
    BY <1>1 DEF Laid, LaidOutputs, SameOutputs
  <1>10. LaidDiags(v)
    BY <1>1 DEF Laid, LaidDiags
  <1>11. Laid(v, l)
    BY <1>5, <1>7, <1>8, <1>9, <1>10 DEF Laid
  <1> QED
    BY <1>1, <1>11 DEF v

\* The fields of the actions.
LEMMA RecParts ==
  ASSUME NEW k, NEW f
  PROVE  LET y == RecAt(k, f) IN
         /\ y.plan = "p" /\ y.name = "rec" /\ y.type = "camera_record" /\ y.device = "cam" /\ y.group = {"g"}
         /\ y.input = Asked /\ "plan" \in DOMAIN y
         /\ y.status = (IF k = "again" THEN "running" ELSE k) /\ (y.started <=> k \notin {"pending", "expired"})
         /\ y.expired = (IF k = "expired" THEN {"window_missed"} ELSE {}) /\ y.error = {}
         /\ k \in {"pending", "expired"} => y.result = {}
         /\ k \notin {"pending", "expired"} => y.result = {RecordedAt(k, f)}
  <1>1. CASE k \in {"pending", "expired"}
    BY <1>1, NewParts DEF RecAt
  <1>2. CASE k \notin {"pending", "expired"}
    <2> DEFINE y == RecAt(k, f)  s == IF k = "again" THEN "running" ELSE k
    <2>1. y = BegunAct("p", "rec", "camera_record", {"g"}, Asked, s, RecordedAt(k, f))
      BY <1>2 DEF RecAt
    <2> HIDE DEF y, s
    <2>2. /\ y.plan = "p" /\ y.name = "rec" /\ y.type = "camera_record" /\ y.device = "cam" /\ y.group = {"g"}
          /\ y.input = Asked /\ "plan" \in DOMAIN y /\ y.status = s /\ y.started
          /\ y.expired = {} /\ y.error = {} /\ y.result = {RecordedAt(k, f)}
      BY <2>1, BegunParts
    <2> QED
      BY <1>2, <2>2 DEF y, s
  <1> QED
    BY <1>1, <1>2

LEMMA GetParts ==
  ASSUME NEW k
  PROVE  LET y == GetAt(k) IN
         /\ y.plan = "p" /\ y.name = "get" /\ y.type = "obtain_action_outputs" /\ y.device = "cam" /\ y.group = {}
         /\ y.input = GetInput(k) /\ "plan" \in DOMAIN y
         /\ y.status = GetStatus(k) /\ (y.started <=> k \in GetBegun)
         /\ y.expired = {} /\ (k # "inadmissible" => y.error = {})
         /\ k = "inadmissible" => y.error = {[stage |-> "admission"]}
         /\ k \in GetBegun => y.result = {IF k = "failed" THEN Losing ELSE Nothing}
         /\ k \notin GetBegun => y.result = {}
  <1>0. "inadmissible" \notin GetBegun
    BY DEF GetBegun
  <1>1. CASE k \in GetBegun
    BY <1>0, <1>1, BegunParts DEF GetAt
  <1>2. CASE k \notin GetBegun
    BY <1>2, NewParts DEF GetAt
  <1> QED
    BY <1>1, <1>2

LEMMA ShotParts ==
  ASSUME NEW k
  PROVE  LET y == ShotAt(k) IN
         /\ y.plan = "q" /\ y.name = "shot" /\ y.type = "camera_take_photo" /\ y.device = "cam" /\ y.group = {}
         /\ y.input = Asked /\ "plan" \in DOMAIN y
         /\ y.status = k /\ (y.started <=> k # "pending") /\ y.expired = {} /\ y.error = {}
         /\ (k = "pending" => y.result = {}) /\ (k # "pending" => y.result = {TakenAt(k)})
  BY NewParts, BegunParts DEF ShotAt

LEMMA CutParts ==
  ASSUME NEW k, NEW f
  PROVE  LET y == CutAt(k, f) IN
         /\ y.plan = "q" /\ y.name = "cut" /\ y.type = "cancel_task" /\ y.device = "cam" /\ y.group = {}
         /\ y.input = CutInput /\ "plan" \in DOMAIN y
         /\ y.status = (IF k = "pending" THEN k ELSE CutStatus(k)) /\ (y.started <=> k # "pending")
         /\ y.expired = {} /\ y.error = {}
         /\ (k = "pending" => y.result = {}) /\ (k # "pending" => y.result = {CutItems(k, f)})
  BY NewParts, BegunParts DEF CutAt

LEMMA DelParts ==
  ASSUME NEW k
  PROVE  LET y == DelAt(k) IN
         /\ y.plan = "q" /\ y.name = "del" /\ y.type = "delete_action_outputs" /\ y.device = "cam" /\ y.group = {}
         /\ y.input = DelInput /\ "plan" \in DOMAIN y
         /\ y.status = k /\ (y.started <=> k # "pending") /\ y.expired = {} /\ y.error = {}
         /\ (k = "pending" => y.result = {}) /\ (k # "pending" => y.result = {DelItems(k)})
  BY NewParts, BegunParts DEF DelAt

LEMMA ActionPlans ==
  ASSUME NEW k, NEW a \in ActionsAt(k), NEW p \in {"p", "q"}
  PROVE  (ActionAt(k, a).plan = p) <=> a \in Own(p)
  <1>1. a \in {"rec", "get", "shot", "cut", "del"}
    BY DEF ActionsAt
  <1>2. /\ ActionAt(k, "rec") = RecAt(k.rec, k.flow) /\ ActionAt(k, "get") = GetAt(k.get)
        /\ ActionAt(k, "shot") = ShotAt(k.shot) /\ ActionAt(k, "cut") = CutAt(k.cut, k.known)
        /\ ActionAt(k, "del") = DelAt(k.del)
    BY DEF ActionAt
  <1>3. /\ ActionAt(k, "rec").plan = "p" /\ ActionAt(k, "get").plan = "p"
        /\ ActionAt(k, "shot").plan = "q" /\ ActionAt(k, "cut").plan = "q" /\ ActionAt(k, "del").plan = "q"
    BY <1>2, RecParts, GetParts, ShotParts, CutParts, DelParts
  <1> QED
    BY <1>1, <1>3 DEF Own

LEMMA PlanWith == \A n, s, z : WithStatus(PlanAt(n, s), z) = PlanAt(n, z)
  BY DEF PlanAt, WithStatus

LEMMA SettleLaid ==
  ASSUME NEW w, NEW k, Shaped(w), Laid(w, k)
  PROVE  Described(Settle(w), k)
  <1> DEFINE own(p) == {a \in DOMAIN w.actions : w.actions[a].plan = p}
             s(p) == IF \A a \in own(p) : Terminal(w.actions[a].status) THEN "completed"
                     ELSE IF \E a \in own(p) : w.actions[a].started THEN "running" ELSE "pending"
             g == [p \in DOMAIN w.plans |-> [w.plans[p] EXCEPT !.status = s(p)]]
             v == [w EXCEPT !.plans = g]
  <1>1. Settle(w) = v
    BY DEF Settle
  <1>2. DOMAIN g = DOMAIN w.plans /\ \A p \in DOMAIN w.plans : g[p] = [w.plans[p] EXCEPT !.status = s(p)]
    OBVIOUS
  <1>a. DOMAIN w.actions = ActionsAt(k) /\ \A a \in ActionsAt(k) : w.actions[a] = ActionAt(k, a)
    BY DEF Laid, LaidActions
  <1>b. DOMAIN w.plans = PlansAt(k) /\ \A p \in PlansAt(k) : w.plans[p] = PlanAt(Number(p), w.plans[p].status)
    BY DEF Laid, LaidPlans
  <1>3. \A p \in PlansAt(k) : p \in {"p", "q"} /\ Own(p) \subseteq ActionsAt(k)
    BY DEF PlansAt, Own, ActionsAt
  <1>4. \A p \in PlansAt(k) : own(p) = Own(p)
    BY <1>a, <1>3, ActionPlans
  <1>5. \A p \in PlansAt(k) : s(p) = PlanStatus(k, p)
    <2> SUFFICES ASSUME NEW p \in PlansAt(k) PROVE s(p) = PlanStatus(k, p)
      OBVIOUS
    <2>1. own(p) = Own(p) /\ \A a \in Own(p) : w.actions[a] = ActionAt(k, a)
      BY <1>a, <1>3, <1>4
    <2> HIDE DEF own
    <2>2. /\ (\A a \in own(p) : Terminal(w.actions[a].status)) <=> (\A a \in Own(p) : Terminal(ActionAt(k, a).status))
          /\ (\E a \in own(p) : w.actions[a].started) <=> (\E a \in Own(p) : ActionAt(k, a).started)
      BY <2>1
    <2> QED
      BY <2>2 DEF PlanStatus
  <1> HIDE DEF s
  <1>6. \A p \in PlansAt(k) : g[p] = PlanAt(Number(p), PlanStatus(k, p))
    <2> SUFFICES ASSUME NEW p \in PlansAt(k) PROVE g[p] = PlanAt(Number(p), PlanStatus(k, p))
      OBVIOUS
    <2>1. g[p] = WithStatus(w.plans[p], PlanStatus(k, p))
      BY <1>2, <1>5, <1>b DEF WithStatus
    <2> HIDE DEF g
    <2>2. w.plans[p] = PlanAt(Number(p), w.plans[p].status)
      BY <1>b
    <2> QED
      BY <2>1, <2>2, PlanWith
  <1>7. DOMAIN g = PlansAt(k)
    BY <1>2, <1>b
  <1> HIDE DEF g
  <1>8. v = State(g, w.actions, w.outputs, w.deliveries, w.diags)
    BY Replacing DEF Shaped
  <1> HIDE DEF v
  <1>9. /\ v.plans = g /\ v.actions = w.actions /\ v.outputs = w.outputs
        /\ v.deliveries = w.deliveries /\ v.diags = w.diags
    BY <1>8, StateParts
  <1>10. \A n, z : PlanAt(n, z).status = z
    BY DEF PlanAt
  <1>11. LaidPlans(v, k)
    BY <1>6, <1>7, <1>9, <1>10 DEF LaidPlans
  <1>12. LaidActions(v, k) /\ LaidOutputs(v, k) /\ LaidDeliveries(v, k) /\ LaidDiags(v)
    BY <1>9 DEF Laid, LaidActions, LaidOutputs, LaidDeliveries, LaidDiags
  <1>13. Described(v, k)
    BY <1>6, <1>9, <1>11, <1>12 DEF Described, Laid
  <1> QED
    BY <1>1, <1>13

\* What a change leaves alone.
LEMMA OneChange ==
  ASSUME NEW k, NEW l
  PROVE  /\ ((l.rec = "absent") <=> (k.rec = "absent")) /\ ((l.shot = "absent") <=> (k.shot = "absent")) => Alike(k, l)
         /\ (l.clean = k.clean /\ l.dig = k.dig) => SameOutputs(k, l)
         /\ (l.dlv = k.dlv /\ l.copy = k.copy) => SameDeliveries(k, l)
         /\ (l.get = k.get /\ l.shot = k.shot /\ l.cut = k.cut /\ l.known = k.known /\ l.del = k.del)
              => SameActions(k, l, "rec")
         /\ (l.rec = k.rec /\ l.flow = k.flow /\ l.shot = k.shot /\ l.cut = k.cut /\ l.known = k.known /\ l.del = k.del)
              => SameActions(k, l, "get")
         /\ (l.rec = k.rec /\ l.flow = k.flow /\ l.get = k.get /\ l.cut = k.cut /\ l.known = k.known /\ l.del = k.del)
              => SameActions(k, l, "shot")
         /\ (l.rec = k.rec /\ l.flow = k.flow /\ l.get = k.get /\ l.shot = k.shot /\ l.del = k.del)
              => SameActions(k, l, "cut")
         /\ (/\ l.rec = k.rec /\ l.flow = k.flow /\ l.get = k.get /\ l.shot = k.shot /\ l.cut = k.cut
             /\ l.known = k.known)
              => SameActions(k, l, "del")
         /\ (/\ l.rec = k.rec /\ l.flow = k.flow /\ l.get = k.get /\ l.shot = k.shot /\ l.cut = k.cut
             /\ l.known = k.known /\ l.del = k.del)
              => SameActions(k, l, "")
  <1> DEFINE R == RecAt(k.rec, k.flow) = RecAt(l.rec, l.flow)
             G == GetAt(k.get) = GetAt(l.get)
             S == ShotAt(k.shot) = ShotAt(l.shot)
             C == CutAt(k.cut, k.known) = CutAt(l.cut, l.known)
             D == DelAt(k.del) = DelAt(l.del)
  <1>1. /\ (l.rec = k.rec /\ l.flow = k.flow => R) /\ (l.get = k.get => G) /\ (l.shot = k.shot => S)
        /\ (l.cut = k.cut /\ l.known = k.known => C) /\ (l.del = k.del => D)
    OBVIOUS
  <1>2. \A b \in ActionsAt(k) :
          \/ b = "rec" /\ ActionAt(k, b) = RecAt(k.rec, k.flow) /\ ActionAt(l, b) = RecAt(l.rec, l.flow)
          \/ b = "get" /\ ActionAt(k, b) = GetAt(k.get) /\ ActionAt(l, b) = GetAt(l.get)
          \/ b = "shot" /\ ActionAt(k, b) = ShotAt(k.shot) /\ ActionAt(l, b) = ShotAt(l.shot)
          \/ b = "cut" /\ ActionAt(k, b) = CutAt(k.cut, k.known) /\ ActionAt(l, b) = CutAt(l.cut, l.known)
          \/ b = "del" /\ ActionAt(k, b) = DelAt(k.del) /\ ActionAt(l, b) = DelAt(l.del)
    BY DEF ActionsAt, ActionAt
  <1>3. ((l.rec = "absent") <=> (k.rec = "absent")) /\ ((l.shot = "absent") <=> (k.shot = "absent")) => Alike(k, l)
    BY DEF Alike, PlansAt, ActionsAt
  <1>4. (l.clean = k.clean /\ l.dig = k.dig) => SameOutputs(k, l)
    BY DEF SameOutputs, OutputsAt
  <1>5. (l.dlv = k.dlv /\ l.copy = k.copy) => SameDeliveries(k, l)
    BY DEF SameDeliveries, DeliveriesAt
  <1> HIDE DEF R, G, S, C, D
  <1>6. /\ (G /\ S /\ C /\ D => SameActions(k, l, "rec")) /\ (R /\ S /\ C /\ D => SameActions(k, l, "get"))
        /\ (R /\ G /\ C /\ D => SameActions(k, l, "shot")) /\ (R /\ G /\ S /\ D => SameActions(k, l, "cut"))
        /\ (R /\ G /\ S /\ C => SameActions(k, l, "del")) /\ (R /\ G /\ S /\ C /\ D => SameActions(k, l, ""))
    BY <1>2 DEF SameActions, R, G, S, C, D
  <1> QED
    BY <1>1, <1>3, <1>4, <1>5, <1>6

Turn(k, v) == Shaped(v) /\ \E l : Laid(v, l) /\ Consistent(l) /\ Before(k, l)

\* What a described state says of its entities.
LEMMA Reading ==
  ASSUME NEW w, NEW k, Described(w, k)
  PROVE  /\ Laid(w, k)
         /\ \A a : Has(w, "actions", a) <=> a \in ActionsAt(k)
         /\ "rec" \in ActionsAt(k) => w.actions["rec"] = RecAt(k.rec, k.flow)
         /\ "get" \in ActionsAt(k) => w.actions["get"] = GetAt(k.get)
         /\ "shot" \in ActionsAt(k) => w.actions["shot"] = ShotAt(k.shot)
         /\ "cut" \in ActionsAt(k) => w.actions["cut"] = CutAt(k.cut, k.known)
         /\ "del" \in ActionsAt(k) => w.actions["del"] = DelAt(k.del)
         /\ Has(w, "outputs", "o") <=> k.clean # "absent"
         /\ k.clean # "absent" => w.outputs["o"] = OutAt(k.clean, k.dig)
         /\ Has(w, "deliveries", "d") <=> k.dlv # "absent"
         /\ k.dlv # "absent" => w.deliveries["d"] = DlvAt(k.dlv, k.copy)
  <1>1. DOMAIN w.actions = ActionsAt(k) /\ \A a \in ActionsAt(k) : w.actions[a] = ActionAt(k, a)
    BY DEF Described, Laid, LaidActions
  <1>2. DOMAIN w.outputs = OutputsAt(k) /\ \A o \in OutputsAt(k) : w.outputs[o] = OutAt(k.clean, k.dig)
    BY DEF Described, Laid, LaidOutputs
  <1>3. DOMAIN w.deliveries = DeliveriesAt(k) /\ \A d \in DeliveriesAt(k) : w.deliveries[d] = DlvAt(k.dlv, k.copy)
    BY DEF Described, Laid, LaidDeliveries
  <1>4. /\ ActionAt(k, "rec") = RecAt(k.rec, k.flow) /\ ActionAt(k, "get") = GetAt(k.get)
        /\ ActionAt(k, "shot") = ShotAt(k.shot) /\ ActionAt(k, "cut") = CutAt(k.cut, k.known)
        /\ ActionAt(k, "del") = DelAt(k.del)
    BY DEF ActionAt
  <1>5. ("o" \in OutputsAt(k) <=> k.clean # "absent") /\ ("d" \in DeliveriesAt(k) <=> k.dlv # "absent")
    BY DEF OutputsAt, DeliveriesAt
  <1>6. \A a : Has(w, "actions", a) <=> a \in ActionsAt(k)
    BY <1>1 DEF Has
  <1>7. (Has(w, "outputs", "o") <=> k.clean # "absent") /\ (Has(w, "deliveries", "d") <=> k.dlv # "absent")
    BY <1>2, <1>3, <1>5 DEF Has
  <1> QED
    BY <1>1, <1>2, <1>3, <1>4, <1>5, <1>6, <1>7 DEF Described

\* The course with one entity moved on.
AtRec(k, a, f) ==
  At(a, f, k.get, k.shot, k.cut, k.known, k.del, k.clean, k.dig, k.dlv, k.copy)
AtGet(k, a) ==
  At(k.rec, k.flow, a, k.shot, k.cut, k.known, k.del, k.clean, k.dig, k.dlv, k.copy)
AtShot(k, a) ==
  At(k.rec, k.flow, k.get, a, k.cut, k.known, k.del, k.clean, k.dig, k.dlv, k.copy)
AtCut(k, a, f) ==
  At(k.rec, k.flow, k.get, k.shot, a, f, k.del, k.clean, k.dig, k.dlv, k.copy)
AtDel(k, a) ==
  At(k.rec, k.flow, k.get, k.shot, k.cut, k.known, a, k.clean, k.dig, k.dlv, k.copy)
AtOut(k, a, g) ==
  At(k.rec, k.flow, k.get, k.shot, k.cut, k.known, k.del, a, g, k.dlv, k.copy)
AtDlv(k, a, c) ==
  At(k.rec, k.flow, k.get, k.shot, k.cut, k.known, k.del, k.clean, k.dig, a, c)

LEMMA RecMoved ==
  ASSUME NEW k, NEW a, NEW f
  PROVE  LET l == AtRec(k, a, f) IN
         /\ l.rec = a /\ l.flow = f /\ l.get = k.get /\ l.shot = k.shot /\ l.cut = k.cut /\ l.known = k.known
         /\ l.del = k.del /\ l.clean = k.clean /\ l.dig = k.dig /\ l.dlv = k.dlv /\ l.copy = k.copy
  BY AtParts DEF AtRec

LEMMA GetMoved ==
  ASSUME NEW k, NEW a
  PROVE  LET l == AtGet(k, a) IN
         /\ l.rec = k.rec /\ l.flow = k.flow /\ l.get = a /\ l.shot = k.shot /\ l.cut = k.cut /\ l.known = k.known
         /\ l.del = k.del /\ l.clean = k.clean /\ l.dig = k.dig /\ l.dlv = k.dlv /\ l.copy = k.copy
  BY AtParts DEF AtGet

LEMMA ShotMoved ==
  ASSUME NEW k, NEW a
  PROVE  LET l == AtShot(k, a) IN
         /\ l.rec = k.rec /\ l.flow = k.flow /\ l.get = k.get /\ l.shot = a /\ l.cut = k.cut /\ l.known = k.known
         /\ l.del = k.del /\ l.clean = k.clean /\ l.dig = k.dig /\ l.dlv = k.dlv /\ l.copy = k.copy
  BY AtParts DEF AtShot

LEMMA CutMoved ==
  ASSUME NEW k, NEW a, NEW f
  PROVE  LET l == AtCut(k, a, f) IN
         /\ l.rec = k.rec /\ l.flow = k.flow /\ l.get = k.get /\ l.shot = k.shot /\ l.cut = a /\ l.known = f
         /\ l.del = k.del /\ l.clean = k.clean /\ l.dig = k.dig /\ l.dlv = k.dlv /\ l.copy = k.copy
  BY AtParts DEF AtCut

LEMMA DelMoved ==
  ASSUME NEW k, NEW a
  PROVE  LET l == AtDel(k, a) IN
         /\ l.rec = k.rec /\ l.flow = k.flow /\ l.get = k.get /\ l.shot = k.shot /\ l.cut = k.cut /\ l.known = k.known
         /\ l.del = a /\ l.clean = k.clean /\ l.dig = k.dig /\ l.dlv = k.dlv /\ l.copy = k.copy
  BY AtParts DEF AtDel

LEMMA OutMoved ==
  ASSUME NEW k, NEW a, NEW f
  PROVE  LET l == AtOut(k, a, f) IN
         /\ l.rec = k.rec /\ l.flow = k.flow /\ l.get = k.get /\ l.shot = k.shot /\ l.cut = k.cut /\ l.known = k.known
         /\ l.del = k.del /\ l.clean = a /\ l.dig = f /\ l.dlv = k.dlv /\ l.copy = k.copy
  BY AtParts DEF AtOut

LEMMA DlvMoved ==
  ASSUME NEW k, NEW a, NEW f
  PROVE  LET l == AtDlv(k, a, f) IN
         /\ l.rec = k.rec /\ l.flow = k.flow /\ l.get = k.get /\ l.shot = k.shot /\ l.cut = k.cut /\ l.known = k.known
         /\ l.del = k.del /\ l.clean = k.clean /\ l.dig = k.dig /\ l.dlv = a /\ l.copy = f
  BY AtParts DEF AtDlv

LEMMA RecPut ==
  ASSUME NEW w, NEW k, Shaped(w), Laid(w, k), NEW a, NEW f, "rec" \in ActionsAt(k), a # "absent"
  PROVE  LET v == Put(w, "actions", "rec", RecAt(a, f)) IN Shaped(v) /\ Laid(v, AtRec(k, a, f))
  <1> DEFINE l == AtRec(k, a, f)
  <1>1. /\ l.rec = a /\ l.flow = f /\ l.get = k.get /\ l.shot = k.shot /\ l.cut = k.cut /\ l.known = k.known
        /\ l.del = k.del /\ l.clean = k.clean /\ l.dig = k.dig /\ l.dlv = k.dlv /\ l.copy = k.copy
    BY RecMoved
  <1> HIDE DEF l
  <1>2. k.rec # "absent"
    BY DEF ActionsAt
  <1>3. Alike(k, l) /\ SameActions(k, l, "rec") /\ SameOutputs(k, l) /\ SameDeliveries(k, l)
    BY <1>1, <1>2, OneChange
  <1>4. ActionAt(l, "rec") = RecAt(a, f)
    BY <1>1 DEF ActionAt
  <1>5. Shaped(Put(w, "actions", "rec", RecAt(a, f))) /\ Laid(Put(w, "actions", "rec", RecAt(a, f)), l)
    BY <1>3, <1>4, LaidAction
  <1> QED
    BY <1>5 DEF l

LEMMA GetPut ==
  ASSUME NEW w, NEW k, Shaped(w), Laid(w, k), NEW a, "get" \in ActionsAt(k)
  PROVE  LET v == Put(w, "actions", "get", GetAt(a)) IN Shaped(v) /\ Laid(v, AtGet(k, a))
  <1> DEFINE l == AtGet(k, a)
  <1>1. /\ l.rec = k.rec /\ l.flow = k.flow /\ l.get = a /\ l.shot = k.shot /\ l.cut = k.cut /\ l.known = k.known
        /\ l.del = k.del /\ l.clean = k.clean /\ l.dig = k.dig /\ l.dlv = k.dlv /\ l.copy = k.copy
    BY GetMoved
  <1> HIDE DEF l
  <1>3. Alike(k, l) /\ SameActions(k, l, "get") /\ SameOutputs(k, l) /\ SameDeliveries(k, l)
    BY <1>1, OneChange
  <1>4. ActionAt(l, "get") = GetAt(a)
    BY <1>1 DEF ActionAt
  <1>5. Shaped(Put(w, "actions", "get", GetAt(a))) /\ Laid(Put(w, "actions", "get", GetAt(a)), l)
    BY <1>3, <1>4, LaidAction
  <1> QED
    BY <1>5 DEF l

LEMMA ShotPut ==
  ASSUME NEW w, NEW k, Shaped(w), Laid(w, k), NEW a, "shot" \in ActionsAt(k), a # "absent"
  PROVE  LET v == Put(w, "actions", "shot", ShotAt(a)) IN Shaped(v) /\ Laid(v, AtShot(k, a))
  <1> DEFINE l == AtShot(k, a)
  <1>1. /\ l.rec = k.rec /\ l.flow = k.flow /\ l.get = k.get /\ l.shot = a /\ l.cut = k.cut /\ l.known = k.known
        /\ l.del = k.del /\ l.clean = k.clean /\ l.dig = k.dig /\ l.dlv = k.dlv /\ l.copy = k.copy
    BY ShotMoved
  <1> HIDE DEF l
  <1>2. k.shot # "absent"
    BY DEF ActionsAt
  <1>3. Alike(k, l) /\ SameActions(k, l, "shot") /\ SameOutputs(k, l) /\ SameDeliveries(k, l)
    BY <1>1, <1>2, OneChange
  <1>4. ActionAt(l, "shot") = ShotAt(a)
    BY <1>1 DEF ActionAt
  <1>5. Shaped(Put(w, "actions", "shot", ShotAt(a))) /\ Laid(Put(w, "actions", "shot", ShotAt(a)), l)
    BY <1>3, <1>4, LaidAction
  <1> QED
    BY <1>5 DEF l

LEMMA CutPut ==
  ASSUME NEW w, NEW k, Shaped(w), Laid(w, k), NEW a, NEW f, "cut" \in ActionsAt(k)
  PROVE  LET v == Put(w, "actions", "cut", CutAt(a, f)) IN Shaped(v) /\ Laid(v, AtCut(k, a, f))
  <1> DEFINE l == AtCut(k, a, f)
  <1>1. /\ l.rec = k.rec /\ l.flow = k.flow /\ l.get = k.get /\ l.shot = k.shot /\ l.cut = a /\ l.known = f
        /\ l.del = k.del /\ l.clean = k.clean /\ l.dig = k.dig /\ l.dlv = k.dlv /\ l.copy = k.copy
    BY CutMoved
  <1> HIDE DEF l
  <1>3. Alike(k, l) /\ SameActions(k, l, "cut") /\ SameOutputs(k, l) /\ SameDeliveries(k, l)
    BY <1>1, OneChange
  <1>4. ActionAt(l, "cut") = CutAt(a, f)
    BY <1>1 DEF ActionAt
  <1>5. Shaped(Put(w, "actions", "cut", CutAt(a, f))) /\ Laid(Put(w, "actions", "cut", CutAt(a, f)), l)
    BY <1>3, <1>4, LaidAction
  <1> QED
    BY <1>5 DEF l

LEMMA DelPut ==
  ASSUME NEW w, NEW k, Shaped(w), Laid(w, k), NEW a, "del" \in ActionsAt(k)
  PROVE  LET v == Put(w, "actions", "del", DelAt(a)) IN Shaped(v) /\ Laid(v, AtDel(k, a))
  <1> DEFINE l == AtDel(k, a)
  <1>1. /\ l.rec = k.rec /\ l.flow = k.flow /\ l.get = k.get /\ l.shot = k.shot /\ l.cut = k.cut /\ l.known = k.known
        /\ l.del = a /\ l.clean = k.clean /\ l.dig = k.dig /\ l.dlv = k.dlv /\ l.copy = k.copy
    BY DelMoved
  <1> HIDE DEF l
  <1>3. Alike(k, l) /\ SameActions(k, l, "del") /\ SameOutputs(k, l) /\ SameDeliveries(k, l)
    BY <1>1, OneChange
  <1>4. ActionAt(l, "del") = DelAt(a)
    BY <1>1 DEF ActionAt
  <1>5. Shaped(Put(w, "actions", "del", DelAt(a))) /\ Laid(Put(w, "actions", "del", DelAt(a)), l)
    BY <1>3, <1>4, LaidAction
  <1> QED
    BY <1>5 DEF l

LEMMA OutPut ==
  ASSUME NEW w, NEW k, Shaped(w), Laid(w, k), NEW a, NEW f, a # "absent"
  PROVE  LET v == Put(w, "outputs", "o", OutAt(a, f)) IN Shaped(v) /\ Laid(v, AtOut(k, a, f))
  <1> DEFINE l == AtOut(k, a, f)
  <1>1. /\ l.rec = k.rec /\ l.flow = k.flow /\ l.get = k.get /\ l.shot = k.shot /\ l.cut = k.cut /\ l.known = k.known
        /\ l.del = k.del /\ l.clean = a /\ l.dig = f /\ l.dlv = k.dlv /\ l.copy = k.copy
    BY OutMoved
  <1> HIDE DEF l
  <1>3. Alike(k, l) /\ SameActions(k, l, "") /\ SameDeliveries(k, l)
    BY <1>1, OneChange
  <1>4. l.clean # "absent" /\ OutAt(a, f) = OutAt(l.clean, l.dig)
    BY <1>1
  <1>5. Shaped(Put(w, "outputs", "o", OutAt(a, f))) /\ Laid(Put(w, "outputs", "o", OutAt(a, f)), l)
    BY <1>3, <1>4, LaidOutput
  <1> QED
    BY <1>5 DEF l

LEMMA DlvPut ==
  ASSUME NEW w, NEW k, Shaped(w), Laid(w, k), NEW a, NEW f, a # "absent"
  PROVE  LET v == Put(w, "deliveries", "d", DlvAt(a, f)) IN Shaped(v) /\ Laid(v, AtDlv(k, a, f))
  <1> DEFINE l == AtDlv(k, a, f)
  <1>1. /\ l.rec = k.rec /\ l.flow = k.flow /\ l.get = k.get /\ l.shot = k.shot /\ l.cut = k.cut /\ l.known = k.known
        /\ l.del = k.del /\ l.clean = k.clean /\ l.dig = k.dig /\ l.dlv = a /\ l.copy = f
    BY DlvMoved
  <1> HIDE DEF l
  <1>3. Alike(k, l) /\ SameActions(k, l, "") /\ SameOutputs(k, l)
    BY <1>1, OneChange
  <1>4. l.dlv # "absent" /\ DlvAt(a, f) = DlvAt(l.dlv, l.copy)
    BY <1>1
  <1>5. Shaped(Put(w, "deliveries", "d", DlvAt(a, f))) /\ Laid(Put(w, "deliveries", "d", DlvAt(a, f)), l)
    BY <1>3, <1>4, LaidDelivery
  <1> QED
    BY <1>5 DEF l

LEMMA StartsDiffer == RecordedAt("running", "none") # RecordedAt("again", "none")
  <1>1. \A k, f : RecordedAt(k, f).recording = {GroupAt(k, f)}
    BY DEF RecordedAt
  <1>2. \A k, f : GroupAt(k, f).start = Part(RecStart(k))
    BY DEF GroupAt
  <1>3. \A s : Part(s).attempts = Try(s)
    BY DEF Part
  <1>4. \A s : DOMAIN Try(s) = DOMAIN s
    BY DEF Try
  <1>5. RecStart("running") = <<"running">> /\ RecStart("again") = <<"failed", "running">>
    BY DEF RecStart
  <1>6. 2 \in DOMAIN <<"failed", "running">> /\ 2 \notin DOMAIN <<"running">>
    OBVIOUS
  <1> SUFFICES ASSUME RecordedAt("running", "none") = RecordedAt("again", "none") PROVE FALSE
    OBVIOUS
  <1>7. GroupAt("running", "none") = GroupAt("again", "none")
    BY <1>1
  <1>8. DOMAIN RecStart("running") = DOMAIN RecStart("again")
    BY <1>2, <1>3, <1>4, <1>7
  <1> QED
    BY <1>5, <1>6, <1>8

\* Which action a status is of.
LEMMA RecIs ==
  ASSUME NEW w, NEW k, Described(w, k), Consistent(k)
  PROVE  /\ Is(w, "rec", "pending") <=> k.rec = "pending"
         /\ Is(w, "rec", "running") <=> k.rec \in {"running", "again"}
         /\ "rec" \in ActionsAt(k) <=> k.rec # "absent"
         /\ (k.rec # "absent" => w.actions["rec"] = RecAt(k.rec, k.flow))
         /\ (k.rec # "absent" => Terminal(w.actions["rec"].status)
                                   <=> k.rec \in {"expired", "succeeded", "failed"})
  <1>1. "rec" \in ActionsAt(k) <=> k.rec # "absent"
    BY DEF ActionsAt
  <1>2. k.rec # "absent" => w.actions["rec"] = RecAt(k.rec, k.flow)
    BY <1>1, Reading
  <1>3. k.rec # "absent" => w.actions["rec"].status = IF k.rec = "again" THEN "running" ELSE k.rec
    BY <1>2, RecParts
  <1>4. \A s : Is(w, "rec", s) <=> (k.rec # "absent" /\ w.actions["rec"].status = s)
    BY <1>1, Reading DEF Is
  <1>5. k.rec \in {"absent", "pending", "expired", "running", "again", "succeeded", "failed"}
    BY DEF Consistent, Course
  <1> QED
    BY <1>1, <1>2, <1>3, <1>4, <1>5 DEF Terminal

\* The new courses are consistent and come after the old ones.
LEMMA RecMoves ==
  ASSUME NEW k, Consistent(k), k.flow = "none", NEW a,
         \/ k.rec = "pending" /\ a \in {"running", "expired"}
         \/ k.rec = "running" /\ a = "again"
  PROVE  Consistent(AtRec(k, a, "none")) /\ Before(k, AtRec(k, a, "none"))
  <1> DEFINE l == AtRec(k, a, "none")
  <1>1. /\ l.rec = a /\ l.flow = "none" /\ l.get = k.get /\ l.shot = k.shot /\ l.cut = k.cut
        /\ l.known = k.known /\ l.del = k.del /\ l.clean = k.clean /\ l.dig = k.dig /\ l.dlv = k.dlv
        /\ l.copy = k.copy
    BY RecMoved
  <1> HIDE DEF l
  <1>2. Consistent(l)
    BY <1>1 DEF Consistent, Course, RecEnded
  <1>3. Before(k, l)
    BY <1>1 DEF Before, RecOrder, FlowOrder, GetOrder, ShotOrder, CutOrder, DelOrder, DlvOrder, CopyOrder
  <1> QED
    BY <1>2, <1>3 DEF l

LEMMA RecEndMoves ==
  ASSUME NEW k, Consistent(k), k.flow = "none", NEW a,
         \/ k.rec = "running" /\ a = "succeeded"
         \/ k.rec = "again" /\ a = "failed"
  PROVE  LET l == AtRec(AtOut(k, "not_requested", "plain"), a, "none") IN Consistent(l) /\ Before(k, l)
  <1> DEFINE l == AtRec(AtOut(k, "not_requested", "plain"), a, "none")
  <1>1. /\ l.rec = a /\ l.flow = "none" /\ l.get = k.get /\ l.shot = k.shot /\ l.cut = k.cut
        /\ l.known = k.known /\ l.del = k.del /\ l.clean = "not_requested" /\ l.dig = "plain" /\ l.dlv = k.dlv
        /\ l.copy = k.copy
    BY RecMoved, OutMoved
  <1> HIDE DEF l
  <1>2. k.del \in {"absent", "pending"} /\ k.clean = "absent" /\ k.dlv = "absent"
    BY DEF Consistent, Course, RecEnded
  <1>3. Consistent(l)
    BY <1>1, <1>2 DEF Consistent, Course, RecEnded, Cleaning
  <1>4. k.dig = "plain"
    BY <1>2 DEF Consistent
  <1>5. Before(k, l)
    BY <1>1, <1>2, <1>4 DEF Before, RecOrder, FlowOrder, GetOrder, ShotOrder, CutOrder, DelOrder, DlvOrder, CopyOrder
  <1> QED
    BY <1>3, <1>5 DEF l

LEMMA RecordTurn ==
  ASSUME NEW w, NEW k, Shaped(w), Described(w, k), Consistent(k), NEW v \in Record(w)
  PROVE  Turn(k, v)
  <1> DEFINE x == w.actions["rec"]
             r == Recorded(<<"failed", "running">>, <<>>)
             r1 == Recorded(<<"running">>, <<>>)
             Final(start, stop) ==
               [Recorded(start, stop) EXCEPT !.copy = {Copying(1, <<"succeeded">>, 2)},
                                             !.repair = {"not_needed"}]
             Forced == [Final(<<"failed", "succeeded">>, <<"failed", "failed">>) EXCEPT
                          !.recording = {[g EXCEPT !.emergency = [e |-> [session |-> 1, max |-> {2}, used |-> 1]]]
                                           : g \in @}]
             good == Final(<<"succeeded">>, <<"succeeded">>)
             u == Put(w, "outputs", "o", Output)
             End(status, result) == Put(u, "actions", "rec", Ended(x, status, result))
             missed == [x EXCEPT !.status = "expired", !.expired = {"window_missed"}]
  <1>1. \/ Is(w, "rec", "pending") /\ v \in {Put(w, "actions", "rec", y) : y \in {Started(x, r1), missed}}
        \/ Is(w, "rec", "running") /\ x.result = {r} /\ v \in {End("failed", Forced)}
        \/ Is(w, "rec", "running") /\ x.result # {r}
             /\ v \in {Put(w, "actions", "rec", Ended(x, "running", r)), End("succeeded", good)}
    BY DEF Record
  <1>2. /\ missed = Missed(x, "expired", {"window_missed"})
        /\ good = Finished(<<"succeeded">>, <<"succeeded">>)
        /\ Forced = Compelled(Finished(<<"failed", "succeeded">>, <<"failed", "failed">>), Forcing)
    BY DEF Missed, Finished, Compelled, Forcing
  <1> HIDE DEF r, r1, Forced, good, missed
  <1>3. \/ Is(w, "rec", "pending") /\ v = Put(w, "actions", "rec", Started(x, r1))
        \/ Is(w, "rec", "pending") /\ v = Put(w, "actions", "rec", missed)
        \/ Is(w, "rec", "running") /\ x.result # {r} /\ v = Put(w, "actions", "rec", Ended(x, "running", r))
        \/ Is(w, "rec", "running") /\ x.result = {r} /\ v = Put(u, "actions", "rec", Ended(x, "failed", Forced))
        \/ Is(w, "rec", "running") /\ x.result # {r} /\ v = Put(u, "actions", "rec", Ended(x, "succeeded", good))
    BY <1>1
  <1>4. good = RecordedAt("succeeded", "none") /\ Forced = RecordedAt("failed", "none")
    BY <1>2, RecEnds, Zenon
  <1>5. r = RecordedAt("again", "none") /\ r1 = RecordedAt("running", "none")
    BY RecordedForms DEF r, r1
  <1>6. k.rec # "absent"
    BY <1>3, RecIs
  <1>7. x = RecAt(k.rec, k.flow) /\ "rec" \in ActionsAt(k) /\ Laid(w, k)
    BY <1>6, RecIs, Reading
  <1>8. k.rec \in {"running", "again"} => /\ k.flow = "none" /\ x.result = {RecordedAt(k.rec, "none")}
    BY <1>7, RecParts DEF Consistent, Course, RecEnded
  <1>9. (x.result = {r} /\ Is(w, "rec", "running")) => k.rec = "again"
    BY <1>5, <1>8, RecIs, StartsDiffer
  <1>10. (x.result # {r} /\ Is(w, "rec", "running")) => k.rec = "running"
    BY <1>5, <1>8, RecIs
  <1> HIDE DEF x, u
  <1>11. CASE Is(w, "rec", "pending") /\ v = Put(w, "actions", "rec", Started(x, r1))
    <2> DEFINE l == AtRec(k, "running", "none")
    <2>1. k.rec = "pending" /\ k.flow = "none"
      BY <1>11, RecIs DEF Consistent, Course, RecEnded
    <2>2. Started(x, r1) = RecAt("running", "none")
      BY <1>5, <1>7, <2>1, RecSteps, RecordedForms
    <2>3. Shaped(v) /\ Laid(v, l)
      BY <1>7, <1>11, <2>2, RecPut
    <2>4. Consistent(l) /\ Before(k, l)
      BY <2>1, RecMoves
    <2> QED
      BY <2>3, <2>4 DEF Turn
  <1>12. CASE Is(w, "rec", "pending") /\ v = Put(w, "actions", "rec", missed)
    <2> DEFINE l == AtRec(k, "expired", "none")
    <2>1. k.rec = "pending" /\ k.flow = "none"
      BY <1>12, RecIs DEF Consistent, Course, RecEnded
    <2>2. missed = RecAt("expired", "none")
      BY <1>2, <1>7, <2>1, RecSteps
    <2>3. Shaped(v) /\ Laid(v, l)
      BY <1>7, <1>12, <2>2, RecPut
    <2>4. Consistent(l) /\ Before(k, l)
      BY <2>1, RecMoves
    <2> QED
      BY <2>3, <2>4 DEF Turn
  <1>13. CASE Is(w, "rec", "running") /\ x.result # {r} /\ v = Put(w, "actions", "rec", Ended(x, "running", r))
    <2> DEFINE l == AtRec(k, "again", "none")
    <2>1. k.rec = "running" /\ k.flow = "none"
      BY <1>8, <1>10, <1>13
    <2>2. Ended(x, "running", r) = RecAt("again", "none")
      BY <1>5, <1>7, <2>1, RecSteps, RecordedForms
    <2>3. Shaped(v) /\ Laid(v, l)
      BY <1>7, <1>13, <2>2, RecPut
    <2>4. Consistent(l) /\ Before(k, l)
      BY <2>1, RecMoves
    <2> QED
      BY <2>3, <2>4 DEF Turn
  <1>14. ASSUME k.rec \in {"running", "again"}
         PROVE  LET m == AtOut(k, "not_requested", "plain") IN
                Shaped(u) /\ Laid(u, m) /\ "rec" \in ActionsAt(m)
    <2>1. u = Put(w, "outputs", "o", OutAt("not_requested", "plain"))
      BY OutSteps DEF u
    <2>2. AtOut(k, "not_requested", "plain").rec = k.rec
      BY OutMoved
    <2> QED
      BY <1>7, <1>14, <2>1, <2>2, OutPut DEF ActionsAt
  <1>15. CASE Is(w, "rec", "running") /\ x.result = {r} /\ v = Put(u, "actions", "rec", Ended(x, "failed", Forced))
    <2> DEFINE l == AtRec(AtOut(k, "not_requested", "plain"), "failed", "none")
    <2>1. k.rec = "again" /\ k.flow = "none"
      BY <1>8, <1>9, <1>15
    <2>2. Ended(x, "failed", Forced) = RecAt("failed", "none")
      BY <1>4, <1>7, <2>1, RecEnds
    <2>3. Shaped(v) /\ Laid(v, l)
      BY <1>14, <1>15, <2>1, <2>2, RecPut
    <2>4. Consistent(l) /\ Before(k, l)
      BY <2>1, RecEndMoves
    <2> QED
      BY <2>3, <2>4 DEF Turn
  <1>16. CASE Is(w, "rec", "running") /\ x.result # {r} /\ v = Put(u, "actions", "rec", Ended(x, "succeeded", good))
    <2> DEFINE l == AtRec(AtOut(k, "not_requested", "plain"), "succeeded", "none")
    <2>1. k.rec = "running" /\ k.flow = "none"
      BY <1>8, <1>10, <1>16
    <2>2. Ended(x, "succeeded", good) = RecAt("succeeded", "none")
      BY <1>4, <1>7, <2>1, RecEnds
    <2>3. Shaped(v) /\ Laid(v, l)
      BY <1>14, <1>16, <2>1, <2>2, RecPut
    <2>4. Consistent(l) /\ Before(k, l)
      BY <2>1, RecEndMoves
    <2> QED
      BY <2>3, <2>4 DEF Turn
  <1> QED
    BY <1>3, <1>11, <1>12, <1>13, <1>15, <1>16

LEMMA GetIs ==
  ASSUME NEW w, NEW k, Described(w, k), Consistent(k)
  PROVE  /\ Is(w, "get", "pending") <=> k.get = "pending"
         /\ Is(w, "get", "running") <=> k.get = "running"
         /\ "get" \in ActionsAt(k) <=> k.rec # "absent"
         /\ (k.rec # "absent" => w.actions["get"] = GetAt(k.get))
         /\ (k.rec # "absent" => Terminal(w.actions["get"].status) <=> k.get \notin {"pending", "running"})
  <1>1. ("get" \in ActionsAt(k) <=> k.rec # "absent") /\ (k.rec = "absent" <=> k.get = "absent")
    BY DEF ActionsAt, Consistent
  <1>2. k.rec # "absent" => w.actions["get"] = GetAt(k.get)
    BY <1>1, Reading
  <1>3. k.rec # "absent" => w.actions["get"].status = GetStatus(k.get)
    BY <1>2, GetParts
  <1>4. \A s : Is(w, "get", s) <=> (k.rec # "absent" /\ w.actions["get"].status = s)
    BY <1>1, Reading DEF Is
  <1>5. \A s \in {"pending", "running"} : GetStatus(k.get) = s <=> k.get = s
    BY DEF GetStatus
  <1> QED
    BY <1>1, <1>2, <1>3, <1>4, <1>5 DEF Terminal

LEMMA ShotIs ==
  ASSUME NEW w, NEW k, Described(w, k), Consistent(k)
  PROVE  /\ \A s \in {"pending", "running"} : Is(w, "shot", s) <=> k.shot = s
         /\ "shot" \in ActionsAt(k) <=> k.shot # "absent"
         /\ (k.shot # "absent" => w.actions["shot"] = ShotAt(k.shot))
  <1>1. "shot" \in ActionsAt(k) <=> k.shot # "absent"
    BY DEF ActionsAt
  <1>2. k.shot # "absent" => w.actions["shot"] = ShotAt(k.shot)
    BY <1>1, Reading
  <1>3. k.shot # "absent" => w.actions["shot"].status = k.shot
    BY <1>2, ShotParts
  <1>4. \A s : Is(w, "shot", s) <=> (k.shot # "absent" /\ w.actions["shot"].status = s)
    BY <1>1, Reading DEF Is
  <1> QED
    BY <1>1, <1>2, <1>3, <1>4

LEMMA CutIs ==
  ASSUME NEW w, NEW k, Described(w, k), Consistent(k)
  PROVE  /\ \A s \in {"pending", "running"} : Is(w, "cut", s) <=> k.cut = s
         /\ "cut" \in ActionsAt(k) <=> k.shot # "absent"
         /\ (k.shot # "absent" => w.actions["cut"] = CutAt(k.cut, k.known))
  <1>1. ("cut" \in ActionsAt(k) <=> k.shot # "absent") /\ (k.shot = "absent" <=> k.cut = "absent")
    BY DEF ActionsAt, Consistent
  <1>2. k.shot # "absent" => w.actions["cut"] = CutAt(k.cut, k.known)
    BY <1>1, Reading
  <1>3. k.shot # "absent" => w.actions["cut"].status = IF k.cut = "pending" THEN k.cut ELSE CutStatus(k.cut)
    BY <1>2, CutParts
  <1>4. \A s : Is(w, "cut", s) <=> (k.shot # "absent" /\ w.actions["cut"].status = s)
    BY <1>1, Reading DEF Is
  <1>5. \A s \in {"pending", "running"} : CutStatus(k.cut) = s <=> k.cut = s
    BY DEF CutStatus
  <1> QED
    BY <1>1, <1>2, <1>3, <1>4, <1>5

LEMMA DelIs ==
  ASSUME NEW w, NEW k, Described(w, k), Consistent(k)
  PROVE  /\ \A s \in {"pending", "running"} : Is(w, "del", s) <=> k.del = s
         /\ "del" \in ActionsAt(k) <=> k.shot # "absent"
         /\ (k.shot # "absent" => w.actions["del"] = DelAt(k.del))
  <1>1. ("del" \in ActionsAt(k) <=> k.shot # "absent") /\ (k.shot = "absent" <=> k.del = "absent")
    BY DEF ActionsAt, Consistent
  <1>2. k.shot # "absent" => w.actions["del"] = DelAt(k.del)
    BY <1>1, Reading
  <1>3. k.shot # "absent" => w.actions["del"].status = k.del
    BY <1>2, DelParts
  <1>4. \A s : Is(w, "del", s) <=> (k.shot # "absent" /\ w.actions["del"].status = s)
    BY <1>1, Reading DEF Is
  <1> QED
    BY <1>1, <1>2, <1>3, <1>4

LEMMA OutParts ==
  ASSUME NEW k, NEW g
  PROVE  LET y == OutAt(k, g) IN
         /\ y.parent = "rec" /\ y.source = "rec" /\ y.kind = "original" /\ y.derived = {}
         /\ y.cleanup = k /\ "parent" \in DOMAIN y
         /\ y.availability = (IF k = "not_requested" THEN "available"
                              ELSE IF k = "completed" THEN "cleaned" ELSE "restricted")
         /\ g = "plain" => y.size = {} /\ y.sha = {}
         /\ g # "plain" => y.size = TheSize /\ y.sha = TheSha
  BY DEF OutAt, Out

LEMMA DlvParts ==
  ASSUME NEW s, NEW c
  PROVE  LET y == DlvAt(s, c) IN
         /\ y.parent = "get" /\ y.output = "o" /\ y.source = "rec" /\ y.file = "f" /\ y.status = s
         /\ y.copy = CopyAt(c) /\ "parent" \in DOMAIN y
         /\ c \in Whole => y.size = TheSize /\ y.sha = TheSha
         /\ c \notin Whole => y.size = {} /\ y.sha = {}
         /\ s = "failed" => y.error = {"x"}
         /\ s # "failed" => y.error = {}
  BY DEF DlvAt, Dlv

LEMMA DigestMoves ==
  ASSUME NEW k, Consistent(k), k.clean # "absent"
  PROVE  LET l == AtOut(k, k.clean, "hashed") IN Consistent(l) /\ Before(k, l)
  <1> DEFINE l == AtOut(k, k.clean, "hashed")
  <1>1. /\ l.rec = k.rec /\ l.flow = k.flow /\ l.get = k.get /\ l.shot = k.shot /\ l.cut = k.cut /\ l.known = k.known
        /\ l.del = k.del /\ l.clean = k.clean /\ l.dig = "hashed" /\ l.dlv = k.dlv /\ l.copy = k.copy
    BY OutMoved
  <1> HIDE DEF l
  <1>2. Consistent(l)
    BY <1>1 DEF Consistent, Course, RecEnded, Cleaning, Unfinished, GetBegun, Whole
  <1>3. Before(k, l)
    BY <1>1 DEF Before, Consistent, Course, RecEnded, Cleaning, Unfinished, GetBegun, Whole,
       RecOrder, FlowOrder, GetOrder, ShotOrder, CutOrder, DelOrder, DlvOrder, CopyOrder
  <1> QED
    BY <1>2, <1>3 DEF l

LEMMA DigestTurn ==
  ASSUME NEW w, NEW k, Shaped(w), Described(w, k), Consistent(k), NEW v \in Digest(w)
  PROVE  Turn(k, v)
  <1> DEFINE y == Digested(w.outputs["o"])
  <1>1. Has(w, "outputs", "o") /\ v = Put(w, "outputs", "o", y)
    BY DEF Digest, Digested
  <1>2. k.clean # "absent" /\ w.outputs["o"] = OutAt(k.clean, k.dig) /\ Laid(w, k)
    BY <1>1, Reading
  <1>3. y = OutAt(k.clean, "hashed")
    BY <1>2, OutSteps
  <1> HIDE DEF y
  <1>4. Shaped(v) /\ Laid(v, AtOut(k, k.clean, "hashed"))
    BY <1>1, <1>2, <1>3, OutPut
  <1> QED
    BY <1>2, <1>4, DigestMoves DEF Turn

LEMMA RetrieveMoves ==
  ASSUME NEW k, Consistent(k), k.get = "pending", k.clean # "absent"
  PROVE  LET l == AtGet(AtDlv(k, "pending", "c0"), "running") IN Consistent(l) /\ Before(k, l)
  <1> DEFINE l == AtGet(AtDlv(k, "pending", "c0"), "running")
  <1>1. /\ l.rec = k.rec /\ l.flow = k.flow /\ l.get = "running" /\ l.shot = k.shot /\ l.cut = k.cut /\ l.known = k.known
        /\ l.del = k.del /\ l.clean = k.clean /\ l.dig = k.dig /\ l.dlv = "pending" /\ l.copy = "c0"
    BY GetMoved, DlvMoved
  <1> HIDE DEF l
  <1>2. Consistent(l)
    BY <1>1 DEF Consistent, Course, RecEnded, Cleaning, Unfinished, GetBegun, Whole
  <1>3. Before(k, l)
    BY <1>1 DEF Before, Consistent, Course, RecEnded, Cleaning, Unfinished, GetBegun, Whole,
       RecOrder, FlowOrder, GetOrder, ShotOrder, CutOrder, DelOrder, DlvOrder, CopyOrder
  <1> QED
    BY <1>2, <1>3 DEF l

LEMMA StillActions ==
  ASSUME NEW k, NEW a, NEW c, NEW g
  PROVE  /\ ActionsAt(AtOut(k, a, c)) = ActionsAt(k) /\ ActionsAt(AtDlv(k, a, c)) = ActionsAt(k)
         /\ ActionsAt(AtGet(k, a)) = ActionsAt(k)
         /\ (k.shot # "absent" /\ a # "absent") => ActionsAt(AtShot(k, a)) = ActionsAt(k)
  BY OutMoved, DlvMoved, GetMoved, ShotMoved DEF ActionsAt

LEMMA RetrieveTurn ==
  ASSUME NEW w, NEW k, Shaped(w), Described(w, k), Consistent(k), NEW v \in Retrieve(w)
  PROVE  Turn(k, v)
  <1> DEFINE y == Delivery("pending", Copying(1, <<>>, 0))
             u == Put(w, "deliveries", "d", y)
             x == w.actions["get"]
  <1>1. Is(w, "get", "pending") /\ Has(w, "outputs", "o") /\ v = Put(u, "actions", "get", Started(x, Nothing))
    BY DEF Retrieve, Nothing
  <1>2. k.get = "pending" /\ k.clean # "absent" /\ k.rec # "absent"
    BY <1>1, GetIs, Reading DEF Consistent
  <1>3. y = DlvAt("pending", "c0")
    <2>1. CopyAt("c0") = Copying(1, <<>>, 0)
      BY DEF CopyAt
    <2> QED
      BY <2>1, DlvSteps
  <1>4. x = GetAt("pending") /\ "get" \in ActionsAt(k) /\ Laid(w, k)
    BY <1>2, GetIs, Reading
  <1>5. Started(x, Nothing) = GetAt("running")
    BY <1>4, GetSteps
  <1> HIDE DEF x, y
  <1> DEFINE m == AtDlv(k, "pending", "c0")
  <1>6. Shaped(u) /\ Laid(u, m) /\ "get" \in ActionsAt(m)
    BY <1>3, <1>4, DlvPut, StillActions
  <1> HIDE DEF u, m
  <1>7. Shaped(v) /\ Laid(v, AtGet(m, "running"))
    BY <1>1, <1>5, <1>6, GetPut
  <1> QED
    BY <1>2, <1>7, RetrieveMoves DEF Turn, m

\* How a delivery moves on.
NextDlv(k, s, c) ==
  \/ k.dlv = "pending" /\ s = "preparing" /\ c = "c1"
  \/ k.dlv = "preparing" /\ k.copy = "c1" /\ s = "preparing" /\ c = "c2"
  \/ k.dlv = "preparing" /\ k.copy = "c1" /\ s = "prepared" /\ c = "s1"
  \/ k.dlv = "preparing" /\ k.copy = "c2" /\ s = "prepared" /\ c = "s2"
  \/ k.dlv = "prepared" /\ s = "publishing" /\ c = k.copy
LastDlv(k, s, c, e) ==
  \/ k.dlv = "preparing" /\ k.copy = "c2" /\ s = "failed" /\ c = "f2" /\ e = "failed"
  \/ k.dlv \in {"prepared", "publishing"} /\ s = "published" /\ c = k.copy /\ e = "succeeded"

LEMMA DeliverMoves ==
  ASSUME NEW k, Consistent(k), k.get = "running", NEW s, NEW c, NextDlv(k, s, c)
  PROVE  LET l == AtDlv(k, s, c) IN Consistent(l) /\ Before(k, l)
  <1> DEFINE l == AtDlv(k, s, c)
  <1>1. /\ l.rec = k.rec /\ l.flow = k.flow /\ l.get = k.get /\ l.shot = k.shot /\ l.cut = k.cut /\ l.known = k.known
        /\ l.del = k.del /\ l.clean = k.clean /\ l.dig = k.dig /\ l.dlv = s /\ l.copy = c
    BY DlvMoved
  <1> HIDE DEF l
  <1>2. Consistent(l)
    BY <1>1 DEF NextDlv, Consistent, Course, RecEnded, Cleaning, Unfinished, GetBegun, Whole
  <1>3. Before(k, l)
    BY <1>1 DEF NextDlv, Before, Consistent, Course, RecEnded, Cleaning, Unfinished, GetBegun, Whole,
       RecOrder, FlowOrder, GetOrder, ShotOrder, CutOrder, DelOrder, DlvOrder, CopyOrder
  <1> QED
    BY <1>2, <1>3 DEF l

LEMMA DeliverEndMoves ==
  ASSUME NEW k, Consistent(k), k.get = "running", NEW s, NEW c, NEW e, LastDlv(k, s, c, e)
  PROVE  LET l == AtGet(AtDlv(k, s, c), e) IN Consistent(l) /\ Before(k, l)
  <1> DEFINE l == AtGet(AtDlv(k, s, c), e)
  <1>1. /\ l.rec = k.rec /\ l.flow = k.flow /\ l.get = e /\ l.shot = k.shot /\ l.cut = k.cut /\ l.known = k.known
        /\ l.del = k.del /\ l.clean = k.clean /\ l.dig = k.dig /\ l.dlv = s /\ l.copy = c
    BY DlvMoved, GetMoved
  <1> HIDE DEF l
  <1>2. Consistent(l)
    BY <1>1 DEF LastDlv, Consistent, Course, RecEnded, Cleaning, Unfinished, GetBegun, Whole
  <1>3. Before(k, l)
    BY <1>1 DEF LastDlv, Before, Consistent, Course, RecEnded, Cleaning, Unfinished, GetBegun, Whole,
       RecOrder, FlowOrder, GetOrder, ShotOrder, CutOrder, DelOrder, DlvOrder, CopyOrder
  <1> QED
    BY <1>2, <1>3 DEF l

LEMMA DlvGetPut ==
  ASSUME NEW w, NEW k, Shaped(w), Laid(w, k), NEW s, NEW c, NEW e, "get" \in ActionsAt(k), s # "absent"
  PROVE  LET v == Put(Put(w, "deliveries", "d", DlvAt(s, c)), "actions", "get", GetAt(e))
         IN Shaped(v) /\ Laid(v, AtGet(AtDlv(k, s, c), e))
  <1> DEFINE u == Put(w, "deliveries", "d", DlvAt(s, c))
             m == AtDlv(k, s, c)
  <1>1. Shaped(u) /\ Laid(u, m) /\ "get" \in ActionsAt(m)
    BY DlvPut, StillActions
  <1> HIDE DEF u, m
  <1>2. Shaped(Put(u, "actions", "get", GetAt(e))) /\ Laid(Put(u, "actions", "get", GetAt(e)), AtGet(m, e))
    BY <1>1, GetPut
  <1> QED
    BY <1>2 DEF u, m

LEMMA CopyRounds ==
  /\ CopyAt("c1").round = 1 /\ CopyAt("c2").round = 2
  /\ CopyAt("c0") = Copying(1, <<>>, 0) /\ CopyAt("c1") = Copying(1, <<"running">>, 1)
  /\ CopyAt("c2") = Copying(2, <<"failed", "running">>, 0) /\ CopyAt("s1") = Copying(1, <<"succeeded">>, 2)
  /\ CopyAt("s2") = Copying(2, <<"failed", "succeeded">>, 2) /\ CopyAt("f2") = Copying(2, <<"failed", "failed">>, 0)
  <1>1. \A n, s, m : Copying(n, s, m).round = n
    BY DEF Copying
  <1>2. /\ CopyAt("c0") = Copying(1, <<>>, 0) /\ CopyAt("c1") = Copying(1, <<"running">>, 1)
        /\ CopyAt("c2") = Copying(2, <<"failed", "running">>, 0) /\ CopyAt("s1") = Copying(1, <<"succeeded">>, 2)
    BY DEF CopyAt
  <1>3. /\ CopyAt("s2") = Copying(2, <<"failed", "succeeded">>, 2)
        /\ CopyAt("f2") = Copying(2, <<"failed", "failed">>, 0)
    BY DEF CopyAt
  <1> QED
    BY <1>1, <1>2, <1>3

\* What the delivery may do next, as deliveries and results of the course.
Delivering(w, k, v) ==
  \/ \E s, c : /\ NextDlv(k, s, c)
              /\ v = Put(w, "deliveries", "d", DlvAt(s, c))
  \/ \E s, c, e : /\ LastDlv(k, s, c, e)
                 /\ v = Put(Put(w, "deliveries", "d", DlvAt(s, c)), "actions", "get", GetAt(e))

LEMMA DeliverForms ==
  ASSUME NEW w, NEW k, Described(w, k), Consistent(k), NEW v \in Deliver(w)
  PROVE  k.get = "running" /\ Delivering(w, k, v)
  <1> DEFINE x == w.deliveries["d"]
             y == w.actions["get"]
             Now(status, copy) == Put(w, "deliveries", "d", Delivery(status, copy))
             lost == [Delivery("failed", Copying(2, <<"failed", "failed">>, 0)) EXCEPT !.error = {"x"}]
             Fails == Put(Put(w, "deliveries", "d", lost), "actions", "get", Ended(y, "failed", Losing))
             Done == Put(Now("published", x.copy), "actions", "get", Ended(y, "succeeded", Nothing))
  <1>1. Has(w, "deliveries", "d") /\ Is(w, "get", "running")
    BY DEF Deliver
  <1>2. \/ x.status = "pending" /\ v \in {Now("preparing", Copying(1, <<"running">>, 1))}
        \/ x.status = "preparing" /\ x.copy.round = 1
             /\ v \in {Now("preparing", Copying(2, <<"failed", "running">>, 0)),
                        Now("prepared", Copying(1, <<"succeeded">>, 2))}
        \/ x.status = "preparing" /\ x.copy.round = 2
             /\ v \in {Fails, Now("prepared", Copying(2, <<"failed", "succeeded">>, 2))}
        \/ x.status = "prepared" /\ v \in {Now("publishing", x.copy), Done}
        \/ x.status = "publishing" /\ v \in {Done}
    <2>1. Deliver(w) =
            CASE x.status = "pending" -> {Now("preparing", Copying(1, <<"running">>, 1))}
              [] x.status = "preparing" /\ x.copy.round = 1 ->
                   {Now("preparing", Copying(2, <<"failed", "running">>, 0)),
                    Now("prepared", Copying(1, <<"succeeded">>, 2))}
              [] x.status = "preparing" /\ x.copy.round = 2 ->
                   {Fails, Now("prepared", Copying(2, <<"failed", "succeeded">>, 2))}
              [] x.status = "prepared" -> {Now("publishing", x.copy), Done}
              [] x.status = "publishing" -> {Done}
              [] OTHER -> {}
      BY <1>1 DEF Deliver, Nothing, Losing
    <2> HIDE DEF x, Now, Fails, Done
    <2> QED
      BY <2>1
  <1>3. k.get = "running" /\ y = GetAt("running") /\ x = DlvAt(k.dlv, k.copy) /\ k.rec # "absent"
    BY <1>1, GetIs, Reading DEF Consistent
  <1>4. x.status = k.dlv /\ x.copy = CopyAt(k.copy)
    BY <1>3, DlvParts
  <1>5. /\ k.dlv = "preparing" => k.copy \in {"c1", "c2"}
        /\ k.dlv \in {"prepared", "publishing"} => k.copy \in Whole
    BY DEF Consistent, Unfinished
  <1>6. /\ (k.dlv = "preparing" /\ x.copy.round = 1) => k.copy = "c1"
        /\ (k.dlv = "preparing" /\ x.copy.round = 2) => k.copy = "c2"
    BY <1>4, <1>5, CopyRounds
  <1>7. Ended(y, "failed", Losing) = GetAt("failed") /\ Ended(y, "succeeded", Nothing) = GetAt("succeeded")
    BY <1>3, GetSteps
  <1>8. /\ Delivery("preparing", Copying(1, <<"running">>, 1)) = DlvAt("preparing", "c1")
        /\ Delivery("preparing", Copying(2, <<"failed", "running">>, 0)) = DlvAt("preparing", "c2")
        /\ Delivery("prepared", Copying(1, <<"succeeded">>, 2)) = DlvAt("prepared", "s1")
        /\ Delivery("prepared", Copying(2, <<"failed", "succeeded">>, 2)) = DlvAt("prepared", "s2")
    BY CopyRounds, DlvSteps DEF Whole
  <1>9. lost = DlvAt("failed", "f2")
    BY CopyRounds, DlvSteps DEF Broken
  <1>10. k.copy \in Whole => /\ Delivery("publishing", x.copy) = DlvAt("publishing", k.copy)
                            /\ Delivery("published", x.copy) = DlvAt("published", k.copy)
    BY <1>4, DlvSteps
  <1> HIDE DEF x, y, lost
  <1>11. CASE x.status = "pending" /\ v \in {Now("preparing", Copying(1, <<"running">>, 1))}
    <2>1. k.dlv = "pending" /\ v = Put(w, "deliveries", "d", DlvAt("preparing", "c1"))
      BY <1>4, <1>8, <1>11
    <2>2. NextDlv(k, "preparing", "c1")
      BY <2>1 DEF NextDlv
    <2> QED
      BY <1>3, <2>1, <2>2 DEF Delivering
  <1>12. CASE x.status = "preparing" /\ x.copy.round = 1
             /\ v \in {Now("preparing", Copying(2, <<"failed", "running">>, 0)),
                        Now("prepared", Copying(1, <<"succeeded">>, 2))}
    <2>1. k.dlv = "preparing" /\ k.copy = "c1"
      BY <1>4, <1>6, <1>12
    <2>2. v = Put(w, "deliveries", "d", DlvAt("preparing", "c2")) \/ v = Put(w, "deliveries", "d", DlvAt("prepared", "s1"))
      BY <1>8, <1>12
    <2>3. NextDlv(k, "preparing", "c2") /\ NextDlv(k, "prepared", "s1")
      BY <2>1 DEF NextDlv, LastDlv
    <2> QED
      BY <1>3, <2>2, <2>3 DEF Delivering
  <1>13. CASE x.status = "preparing" /\ x.copy.round = 2
             /\ v \in {Fails, Now("prepared", Copying(2, <<"failed", "succeeded">>, 2))}
    <2>1. k.dlv = "preparing" /\ k.copy = "c2"
      BY <1>4, <1>6, <1>13
    <2>2. \/ v = Put(Put(w, "deliveries", "d", DlvAt("failed", "f2")), "actions", "get", GetAt("failed"))
          \/ v = Put(w, "deliveries", "d", DlvAt("prepared", "s2"))
      BY <1>7, <1>8, <1>9, <1>13
    <2>3. LastDlv(k, "failed", "f2", "failed") /\ NextDlv(k, "prepared", "s2")
      BY <2>1 DEF NextDlv, LastDlv
    <2> QED
      BY <1>3, <2>2, <2>3 DEF Delivering
  <1>14. CASE x.status = "prepared" /\ v \in {Now("publishing", x.copy), Done}
    <2>1. k.dlv = "prepared" /\ k.copy \in Whole
      BY <1>4, <1>5, <1>14
    <2>2. \/ v = Put(w, "deliveries", "d", DlvAt("publishing", k.copy))
          \/ v = Put(Put(w, "deliveries", "d", DlvAt("published", k.copy)), "actions", "get", GetAt("succeeded"))
      BY <1>7, <1>10, <1>14, <2>1
    <2>3. NextDlv(k, "publishing", k.copy) /\ LastDlv(k, "published", k.copy, "succeeded")
      BY <2>1 DEF NextDlv, LastDlv
    <2> QED
      BY <1>3, <2>2, <2>3 DEF Delivering
  <1>15. CASE x.status = "publishing" /\ v \in {Done}
    <2>1. k.dlv = "publishing" /\ k.copy \in Whole
      BY <1>4, <1>5, <1>15
    <2>2. v = Put(Put(w, "deliveries", "d", DlvAt("published", k.copy)), "actions", "get", GetAt("succeeded"))
      BY <1>7, <1>10, <1>15, <2>1
    <2>3. LastDlv(k, "published", k.copy, "succeeded")
      BY <2>1 DEF NextDlv, LastDlv
    <2> QED
      BY <1>3, <2>2, <2>3 DEF Delivering
  <1> QED
    BY <1>2, <1>11, <1>12, <1>13, <1>14, <1>15

LEMMA DeliverTurn ==
  ASSUME NEW w, NEW k, Shaped(w), Described(w, k), Consistent(k), NEW v \in Deliver(w)
  PROVE  Turn(k, v)
  <1>1. k.get = "running" /\ Delivering(w, k, v) /\ Laid(w, k) /\ k.rec # "absent"
    BY DeliverForms, Reading DEF Consistent
  <1>2. "get" \in ActionsAt(k)
    BY <1>1 DEF ActionsAt
  <1>3. CASE \E s, c : /\ NextDlv(k, s, c)
              /\ v = Put(w, "deliveries", "d", DlvAt(s, c))
    <2>1. PICK s, c : /\ NextDlv(k, s, c)
              /\ v = Put(w, "deliveries", "d", DlvAt(s, c))
      BY <1>3
    <2>2. s # "absent"
      BY <2>1 DEF NextDlv, LastDlv
    <2>3. Shaped(v) /\ Laid(v, AtDlv(k, s, c))
      BY <1>1, <2>1, <2>2, DlvPut
    <2>4. Consistent(AtDlv(k, s, c)) /\ Before(k, AtDlv(k, s, c))
      BY <1>1, <2>1, DeliverMoves
    <2> QED
      BY <2>3, <2>4 DEF Turn
  <1>4. CASE \E s, c, e : /\ LastDlv(k, s, c, e)
                 /\ v = Put(Put(w, "deliveries", "d", DlvAt(s, c)), "actions", "get", GetAt(e))
    <2>1. PICK s, c, e :
                 /\ LastDlv(k, s, c, e)
                 /\ v = Put(Put(w, "deliveries", "d", DlvAt(s, c)), "actions", "get", GetAt(e))
      BY <1>4
    <2>2. s # "absent"
      BY <2>1 DEF NextDlv, LastDlv
    <2>3. Shaped(v) /\ Laid(v, AtGet(AtDlv(k, s, c), e))
      BY <1>1, <1>2, <2>1, <2>2, DlvGetPut
    <2>4. Consistent(AtGet(AtDlv(k, s, c), e)) /\ Before(k, AtGet(AtDlv(k, s, c), e))
      BY <1>1, <2>1, DeliverEndMoves
    <2> QED
      BY <2>3, <2>4 DEF Turn
  <1> QED
    BY <1>1, <1>3, <1>4 DEF Delivering

\* How the actions of the second plan move on.
LEMMA ShotStartMoves ==
  ASSUME NEW k, Consistent(k), k.shot = "pending", k.rec \in {"expired", "succeeded", "failed"}
  PROVE  LET l == AtRec(AtShot(k, "running"), k.rec, "running") IN Consistent(l) /\ Before(k, l)
  <1> DEFINE l == AtRec(AtShot(k, "running"), k.rec, "running")
  <1>1. /\ l.rec = k.rec /\ l.flow = "running" /\ l.get = k.get /\ l.shot = "running" /\ l.cut = k.cut /\ l.known = k.known
        /\ l.del = k.del /\ l.clean = k.clean /\ l.dig = k.dig /\ l.dlv = k.dlv /\ l.copy = k.copy
    BY RecMoved, ShotMoved
  <1> HIDE DEF l
  <1>2. Consistent(l)
    BY <1>1 DEF Consistent, Course, RecEnded, Cleaning, Unfinished, GetBegun, Whole
  <1>3. Before(k, l)
    BY <1>1 DEF Before, Consistent, Course, RecEnded, Cleaning, Unfinished, GetBegun, Whole,
       RecOrder, FlowOrder, GetOrder, ShotOrder, CutOrder, DelOrder, DlvOrder, CopyOrder
  <1> QED
    BY <1>2, <1>3 DEF l

LEMMA ShotEndMoves ==
  ASSUME NEW k, Consistent(k), k.shot = "running"
  PROVE  LET l == AtShot(k, "succeeded") IN Consistent(l) /\ Before(k, l)
  <1> DEFINE l == AtShot(k, "succeeded")
  <1>1. /\ l.rec = k.rec /\ l.flow = k.flow /\ l.get = k.get /\ l.shot = "succeeded" /\ l.cut = k.cut /\ l.known = k.known
        /\ l.del = k.del /\ l.clean = k.clean /\ l.dig = k.dig /\ l.dlv = k.dlv /\ l.copy = k.copy
    BY ShotMoved
  <1> HIDE DEF l
  <1>2. Consistent(l)
    BY <1>1 DEF Consistent, Course, RecEnded, Cleaning, Unfinished, GetBegun, Whole
  <1>3. Before(k, l)
    BY <1>1 DEF Before, Consistent, Course, RecEnded, Cleaning, Unfinished, GetBegun, Whole,
       RecOrder, FlowOrder, GetOrder, ShotOrder, CutOrder, DelOrder, DlvOrder, CopyOrder
  <1> QED
    BY <1>2, <1>3 DEF l

LEMMA StopEndMoves ==
  ASSUME NEW k, Consistent(k), k.shot = "running"
  PROVE  LET l == AtRec(k, k.rec, "succeeded") IN Consistent(l) /\ Before(k, l)
  <1> DEFINE l == AtRec(k, k.rec, "succeeded")
  <1>1. /\ l.rec = k.rec /\ l.flow = "succeeded" /\ l.get = k.get /\ l.shot = k.shot /\ l.cut = k.cut /\ l.known = k.known
        /\ l.del = k.del /\ l.clean = k.clean /\ l.dig = k.dig /\ l.dlv = k.dlv /\ l.copy = k.copy
    BY RecMoved
  <1> HIDE DEF l
  <1>2. Consistent(l)
    BY <1>1 DEF Consistent, Course, RecEnded, Cleaning, Unfinished, GetBegun, Whole
  <1>3. Before(k, l)
    BY <1>1 DEF Before, Consistent, Course, RecEnded, Cleaning, Unfinished, GetBegun, Whole,
       RecOrder, FlowOrder, GetOrder, ShotOrder, CutOrder, DelOrder, DlvOrder, CopyOrder
  <1> QED
    BY <1>2, <1>3 DEF l

LEMMA PhotographTurn ==
  ASSUME NEW w, NEW k, Shaped(w), Described(w, k), Consistent(k), NEW v \in Photograph(w)
  PROVE  Turn(k, v)
  <1> DEFINE x == w.actions["shot"]
             y == w.actions["rec"]
             flow(status) == [trigger |-> "shot", max |-> 1, attempts |-> Try(<<status>>),
                              status |-> status, error |-> {}]
             Stopping(status) ==
               [y EXCEPT !.result =
                  {[r EXCEPT !.recording = {[g EXCEPT !.followup = [s |-> flow(status)]] : g \in @}]
                     : r \in @}]
             Waits == \A g \in Recordings(y) : "s" \in DOMAIN g.followup =>
                        g.followup["s"].status = "succeeded"
             u == Put(w, "actions", "shot", Started(x, Taken(0, <<>>)))
             first == Put(u, "actions", "rec", Stopping("running"))
             taken == Put(w, "actions", "shot", Ended(x, "succeeded", Taken(1, <<"succeeded">>)))
             stopped == Put(w, "actions", "rec", Stopping("succeeded"))
  <1>1. \/ Is(w, "shot", "pending") /\ Terminal(y.status) /\ v \in {first}
        \/ Is(w, "shot", "running") /\ v \in (IF Waits THEN {taken} ELSE {stopped})
    BY DEF Photograph, Taken
  <1>2. \A h : Stopping(h) = Restopped(y, Following(h))
    BY DEF Restopped, Following, FlowAt
  <1> HIDE DEF Waits, first, taken, stopped, Stopping
  <1>3. \/ Is(w, "shot", "pending") /\ Terminal(y.status) /\ v = first
        \/ Is(w, "shot", "running") /\ (v = taken \/ v = stopped)
    BY <1>1
  <1>4. k.shot \in {"pending", "running"} /\ k.rec # "absent" /\ x = ShotAt(k.shot) /\ Laid(w, k)
    BY <1>3, ShotIs, Reading DEF Consistent
  <1>5. y = RecAt(k.rec, k.flow) /\ "rec" \in ActionsAt(k) /\ "shot" \in ActionsAt(k)
    BY <1>4, RecIs, ShotIs
  <1>6. k.rec \in {"expired", "succeeded", "failed"}
    <2>1. CASE k.shot = "pending"
      <3>1. \A s \in {"pending", "running"} : Is(w, "shot", s) <=> k.shot = s
        BY ShotIs
      <3>2. Terminal(y.status)
        BY <1>3, <2>1, <3>1
      <3> QED
        BY <1>4, <3>2, RecIs
    <2>2. CASE k.shot = "running"
      BY <2>2 DEF Consistent, RecEnded
    <2> QED
      BY <1>4, <2>1, <2>2
  <1>7. \A h \in {"running", "succeeded"} : Stopping(h) = RecAt(k.rec, h)
    BY <1>2, <1>5, <1>6, RecFollowed
  <1>8. k.shot = "running" => taken = Put(w, "actions", "shot", ShotAt("succeeded"))
    BY <1>4, ShotSteps DEF taken
  <1>9. stopped = Put(w, "actions", "rec", RecAt(k.rec, "succeeded"))
    BY <1>7 DEF stopped
  <1>10. k.shot = "pending" => u = Put(w, "actions", "shot", ShotAt("running"))
    BY <1>4, ShotSteps
  <1>11. first = Put(u, "actions", "rec", RecAt(k.rec, "running"))
    BY <1>7 DEF first
  <1> HIDE DEF x, y, u
  <1>12. CASE Is(w, "shot", "pending") /\ v = first
    <2> DEFINE m == AtShot(k, "running")
    <2>1. k.shot = "pending"
      BY <1>12, ShotIs
    <2>2. Shaped(u) /\ Laid(u, m)
      BY <1>4, <1>5, <1>10, <2>1, ShotPut
    <2>3. ActionsAt(m) = ActionsAt(k)
      BY <2>1, StillActions
    <2> HIDE DEF m
    <2>4. Shaped(v) /\ Laid(v, AtRec(m, k.rec, "running"))
      BY <1>4, <1>5, <1>11, <1>12, <2>2, <2>3, RecPut
    <2> QED
      BY <1>6, <2>1, <2>4, ShotStartMoves DEF Turn, m
  <1>13. CASE Is(w, "shot", "running") /\ v = taken
    <2>1. k.shot = "running"
      BY <1>13, ShotIs
    <2>2. Shaped(v) /\ Laid(v, AtShot(k, "succeeded"))
      BY <1>4, <1>5, <1>8, <1>13, <2>1, ShotPut
    <2> QED
      BY <2>1, <2>2, ShotEndMoves DEF Turn
  <1>14. CASE Is(w, "shot", "running") /\ v = stopped
    <2>1. k.shot = "running"
      BY <1>14, ShotIs
    <2>2. Shaped(v) /\ Laid(v, AtRec(k, k.rec, "succeeded"))
      BY <1>4, <1>5, <1>9, <1>14, RecPut
    <2> QED
      BY <2>1, <2>2, StopEndMoves DEF Turn
  <1> QED
    BY <1>3, <1>12, <1>13, <1>14

LEMMA DelMoves ==
  ASSUME NEW k, Consistent(k), NEW s, k.clean # "absent",
         \/ k.del = "pending" /\ s = "running"
         \/ k.del = "running" /\ s \in {"succeeded", "failed"}
  PROVE  LET l == AtDel(AtOut(k, Cleaning(s), k.dig), s) IN Consistent(l) /\ Before(k, l)
  <1> DEFINE l == AtDel(AtOut(k, Cleaning(s), k.dig), s)
  <1>1. /\ l.rec = k.rec /\ l.flow = k.flow /\ l.get = k.get /\ l.shot = k.shot /\ l.cut = k.cut /\ l.known = k.known
        /\ l.del = s /\ l.clean = Cleaning(s) /\ l.dig = k.dig /\ l.dlv = k.dlv /\ l.copy = k.copy
    BY DelMoved, OutMoved
  <1> HIDE DEF l
  <1>2. Consistent(l)
    BY <1>1 DEF Consistent, Course, RecEnded, Cleaning, Unfinished, GetBegun, Whole
  <1>3. Before(k, l)
    BY <1>1 DEF Before, Consistent, Course, RecEnded, Cleaning, Unfinished, GetBegun, Whole,
       RecOrder, FlowOrder, GetOrder, ShotOrder, CutOrder, DelOrder, DlvOrder, CopyOrder
  <1> QED
    BY <1>2, <1>3 DEF l

LEMMA DelOutPut ==
  ASSUME NEW w, NEW k, Shaped(w), Laid(w, k), NEW c, NEW e, "del" \in ActionsAt(k), c # "absent"
  PROVE  LET v == Put(Put(w, "outputs", "o", OutAt(c, k.dig)), "actions", "del", DelAt(e))
         IN Shaped(v) /\ Laid(v, AtDel(AtOut(k, c, k.dig), e))
  <1> DEFINE u == Put(w, "outputs", "o", OutAt(c, k.dig))
             m == AtOut(k, c, k.dig)
  <1>1. Shaped(u) /\ Laid(u, m) /\ "del" \in ActionsAt(m)
    BY OutPut, StillActions
  <1> HIDE DEF u, m
  <1>2. Shaped(Put(u, "actions", "del", DelAt(e))) /\ Laid(Put(u, "actions", "del", DelAt(e)), AtDel(m, e))
    BY <1>1, DelPut
  <1> QED
    BY <1>2 DEF u, m

LEMMA DeleteTurn ==
  ASSUME NEW w, NEW k, Shaped(w), Described(w, k), Consistent(k), NEW v \in Delete(w)
  PROVE  Turn(k, v)
  <1> DEFINE x == w.actions["del"]
             y == w.outputs["o"]
             Cleaned(cleanup, availability) == [y EXCEPT !.cleanup = cleanup, !.availability = availability]
             first == Put(Put(w, "outputs", "o", Cleaned("running", "restricted")),
                          "actions", "del", Started(x, DelItems("running")))
             good == Put(Put(w, "outputs", "o", Cleaned("completed", "cleaned")),
                         "actions", "del", Ended(x, "succeeded", DelItems("succeeded")))
             bad == Put(Put(w, "outputs", "o", Cleaned("incomplete", "restricted")),
                        "actions", "del", Ended(x, "failed", DelItems("failed")))
  <1>1. /\ Has(w, "outputs", "o")
        /\ \/ Is(w, "del", "pending") /\ v \in {first}
           \/ Is(w, "del", "running") /\ v \in {good, bad}
    BY DEF Delete, DelItems
  <1>a. \A c, a : Cleaned(c, a) = Recleaned(y, c, a)
    BY DEF Recleaned
  <1> HIDE DEF first, good, bad, Cleaned
  <1>b. Has(w, "outputs", "o")
    BY <1>1
  <1>2. k.clean # "absent" /\ y = OutAt(k.clean, k.dig) /\ Laid(w, k)
    BY <1>b, Reading
  <1>3. k.del \in {"pending", "running"} /\ k.shot # "absent" /\ x = DelAt(k.del)
    BY <1>1, DelIs DEF Consistent
  <1>4. "del" \in ActionsAt(k)
    BY <1>3, DelIs
  <1>5. /\ Cleaned("running", "restricted") = OutAt("running", k.dig)
        /\ Cleaned("completed", "cleaned") = OutAt("completed", k.dig)
        /\ Cleaned("incomplete", "restricted") = OutAt("incomplete", k.dig)
    BY <1>2, <1>a, OutSteps
  <1>6. Cleaning("running") = "running" /\ Cleaning("succeeded") = "completed" /\ Cleaning("failed") = "incomplete"
    BY DEF Cleaning
  <1>7. /\ k.del = "pending" => first = Put(Put(w, "outputs", "o", OutAt("running", k.dig)),
                                            "actions", "del", DelAt("running"))
        /\ k.del = "running" => good = Put(Put(w, "outputs", "o", OutAt("completed", k.dig)),
                                           "actions", "del", DelAt("succeeded"))
        /\ k.del = "running" => bad = Put(Put(w, "outputs", "o", OutAt("incomplete", k.dig)),
                                          "actions", "del", DelAt("failed"))
    BY <1>3, <1>5, DelSteps DEF first, good, bad
  <1> HIDE DEF x, y
  <1>8. \E s : /\ \/  k.del = "pending" /\ s = "running"
                  \/ k.del = "running" /\ s \in {"succeeded", "failed"}
               /\ v = Put(Put(w, "outputs", "o", OutAt(Cleaning(s), k.dig)), "actions", "del", DelAt(s))
    <2>0. (Is(w, "del", "pending") => k.del = "pending") /\ (Is(w, "del", "running") => k.del = "running")
      BY DelIs
    <2>1. CASE Is(w, "del", "pending") /\ v = first
      <3>1. k.del = "pending" /\ v = Put(Put(w, "outputs", "o", OutAt(Cleaning("running"), k.dig)), "actions", "del", DelAt("running"))
        BY <1>6, <1>7, <2>0, <2>1
      <3> QED
        BY <3>1
    <2>2. CASE Is(w, "del", "running") /\ v = good
      <3>1. k.del = "running" /\ v = Put(Put(w, "outputs", "o", OutAt(Cleaning("succeeded"), k.dig)), "actions", "del", DelAt("succeeded"))
        BY <1>6, <1>7, <2>0, <2>2
      <3> QED
        BY <3>1
    <2>3. CASE Is(w, "del", "running") /\ v = bad
      <3>1. k.del = "running" /\ v = Put(Put(w, "outputs", "o", OutAt(Cleaning("failed"), k.dig)), "actions", "del", DelAt("failed"))
        BY <1>6, <1>7, <2>0, <2>3
      <3> QED
        BY <3>1
    <2> QED
      BY <1>1, <2>1, <2>2, <2>3
  <1>9. PICK s : /\ \/  k.del = "pending" /\ s = "running"
                    \/ k.del = "running" /\ s \in {"succeeded", "failed"}
                 /\ v = Put(Put(w, "outputs", "o", OutAt(Cleaning(s), k.dig)), "actions", "del", DelAt(s))
    BY <1>8
  <1>10. Cleaning(s) # "absent"
    BY <1>6, <1>9
  <1>11. Shaped(v) /\ Laid(v, AtDel(AtOut(k, Cleaning(s), k.dig), s))
    BY <1>2, <1>4, <1>9, <1>10, DelOutPut
  <1> QED
    BY <1>2, <1>9, <1>11, DelMoves DEF Turn

LEMMA ItemsOf ==
  ASSUME NEW a
  PROVE  /\ \A r : a.result = {r} =>
              DOMAIN Items(a) = DOMAIN r.items /\ \A x \in DOMAIN r.items : Items(a)[x] = r.items[x]
         /\ a.result = {} => DOMAIN Items(a) = {}
  <1>1. DOMAIN Items(a) = UNION {DOMAIN r.items : r \in a.result}
    BY DEF Items
  <1>2. \A x \in UNION {DOMAIN r.items : r \in a.result} :
          Items(a)[x] = (CHOOSE r \in a.result : TRUE).items[x]
    BY DEF Items
  <1>3. \A r : (CHOOSE s \in {r} : TRUE) = r
    OBVIOUS
  <1>4. \A r : UNION {DOMAIN s.items : s \in {r}} = DOMAIN r.items
    OBVIOUS
  <1>5. ASSUME NEW r, a.result = {r}
        PROVE  DOMAIN Items(a) = DOMAIN r.items /\ \A x \in DOMAIN r.items : Items(a)[x] = r.items[x]
    <2>1. DOMAIN Items(a) = DOMAIN r.items
      BY <1>1, <1>4, <1>5
    <2>2. (CHOOSE s \in a.result : TRUE) = r
      BY <1>3, <1>5
    <2> QED
      BY <1>1, <1>2, <2>1, <2>2
  <1>6. a.result = {} => DOMAIN Items(a) = {}
    BY <1>1
  <1> QED
    BY <1>5, <1>6

LEMMA CutItemsAre ==
  ASSUME NEW k, NEW f, k # "pending"
  PROVE  /\ DOMAIN Items(CutAt(k, f)) = {"get"}
         /\ Items(CutAt(k, f))["get"].status = CutStatus(k)
         /\ Items(CutAt(k, f))["get"].withdrawals = [d \in f |-> [status |-> Withdrawal(k)]]
  <1> DEFINE y == CutAt(k, f)
  <1>1. y.result = {CutItems(k, f)}
    BY CutParts
  <1> HIDE DEF y
  <1>2. DOMAIN Items(y) = DOMAIN CutItems(k, f).items /\ \A x \in DOMAIN CutItems(k, f).items : Items(y)[x] = CutItems(k, f).items[x]
    BY <1>1, ItemsOf
  <1>3. /\ DOMAIN CutItems(k, f).items = {"get"}
        /\ CutItems(k, f).items["get"].status = CutStatus(k)
        /\ CutItems(k, f).items["get"].withdrawals = [d \in f |-> [status |-> Withdrawal(k)]]
    BY DEF CutItems
  <1> QED
    BY <1>2, <1>3 DEF y

LEMMA CutStartMoves ==
  ASSUME NEW k, Consistent(k), k.cut = "pending", NEW f, f \subseteq {"d"}, ("d" \in f) => (k.dlv # "absent")
  PROVE  LET l == AtCut(k, "running", f) IN Consistent(l) /\ Before(k, l)
  <1> DEFINE l == AtCut(k, "running", f)
  <1>1. /\ l.rec = k.rec /\ l.flow = k.flow /\ l.get = k.get /\ l.shot = k.shot /\ l.cut = "running" /\ l.known = f
        /\ l.del = k.del /\ l.clean = k.clean /\ l.dig = k.dig /\ l.dlv = k.dlv /\ l.copy = k.copy
    BY CutMoved
  <1> HIDE DEF l
  <1>2. Consistent(l)
    BY <1>1 DEF Consistent, Course, RecEnded, Cleaning, Unfinished, GetBegun, Whole
  <1>3. Before(k, l)
    BY <1>1 DEF Before, Consistent, Course, RecEnded, Cleaning, Unfinished, GetBegun, Whole,
       RecOrder, FlowOrder, GetOrder, ShotOrder, CutOrder, DelOrder, DlvOrder, CopyOrder
  <1> QED
    BY <1>2, <1>3 DEF l

LEMMA WithdrawMoves ==
  ASSUME NEW k, Consistent(k), k.cut = "running", k.dlv = "published", "d" \in k.known
  PROVE  LET l == AtCut(AtDlv(k, "withdrawn", k.copy), "withdrawn", k.known) IN Consistent(l) /\ Before(k, l)
  <1> DEFINE l == AtCut(AtDlv(k, "withdrawn", k.copy), "withdrawn", k.known)
  <1>1. /\ l.rec = k.rec /\ l.flow = k.flow /\ l.get = k.get /\ l.shot = k.shot /\ l.cut = "withdrawn" /\ l.known = k.known
        /\ l.del = k.del /\ l.clean = k.clean /\ l.dig = k.dig /\ l.dlv = "withdrawn" /\ l.copy = k.copy
    BY CutMoved, DlvMoved
  <1> HIDE DEF l
  <1>2. Consistent(l)
    BY <1>1 DEF Consistent, Course, RecEnded, Cleaning, Unfinished, GetBegun, Whole
  <1>3. Before(k, l)
    BY <1>1 DEF Before, Consistent, Course, RecEnded, Cleaning, Unfinished, GetBegun, Whole,
       RecOrder, FlowOrder, GetOrder, ShotOrder, CutOrder, DelOrder, DlvOrder, CopyOrder
  <1> QED
    BY <1>2, <1>3 DEF l

LEMMA LeaveMoves ==
  ASSUME NEW k, Consistent(k), k.cut = "running"
  PROVE  LET l == AtCut(k, "left", k.known) IN Consistent(l) /\ Before(k, l)
  <1> DEFINE l == AtCut(k, "left", k.known)
  <1>1. /\ l.rec = k.rec /\ l.flow = k.flow /\ l.get = k.get /\ l.shot = k.shot /\ l.cut = "left" /\ l.known = k.known
        /\ l.del = k.del /\ l.clean = k.clean /\ l.dig = k.dig /\ l.dlv = k.dlv /\ l.copy = k.copy
    BY CutMoved
  <1> HIDE DEF l
  <1>2. Consistent(l)
    BY <1>1 DEF Consistent, Course, RecEnded, Cleaning, Unfinished, GetBegun, Whole
  <1>3. Before(k, l)
    BY <1>1 DEF Before, Consistent, Course, RecEnded, Cleaning, Unfinished, GetBegun, Whole,
       RecOrder, FlowOrder, GetOrder, ShotOrder, CutOrder, DelOrder, DlvOrder, CopyOrder
  <1> QED
    BY <1>2, <1>3 DEF l

LEMMA RevokeMoves ==
  ASSUME NEW k, Consistent(k), k.cut = "running", k.get = "pending"
  PROVE  LET l == AtCut(AtGet(k, "canceled"), "left", k.known) IN Consistent(l) /\ Before(k, l)
  <1> DEFINE l == AtCut(AtGet(k, "canceled"), "left", k.known)
  <1>1. /\ l.rec = k.rec /\ l.flow = k.flow /\ l.get = "canceled" /\ l.shot = k.shot /\ l.cut = "left" /\ l.known = k.known
        /\ l.del = k.del /\ l.clean = k.clean /\ l.dig = k.dig /\ l.dlv = k.dlv /\ l.copy = k.copy
    BY CutMoved, GetMoved
  <1> HIDE DEF l
  <1>2. Consistent(l)
    BY <1>1 DEF Consistent, Course, RecEnded, Cleaning, Unfinished, GetBegun, Whole
  <1>3. Before(k, l)
    BY <1>1 DEF Before, Consistent, Course, RecEnded, Cleaning, Unfinished, GetBegun, Whole,
       RecOrder, FlowOrder, GetOrder, ShotOrder, CutOrder, DelOrder, DlvOrder, CopyOrder
  <1> QED
    BY <1>2, <1>3 DEF l

LEMMA StopMoves ==
  ASSUME NEW k, Consistent(k), k.cut = "running", k.get = "running"
  PROVE  LET l == AtCut(AtGet(AtDlv(k, "canceled", k.copy), "stopped"), "left", k.known) IN Consistent(l) /\ Before(k, l)
  <1> DEFINE l == AtCut(AtGet(AtDlv(k, "canceled", k.copy), "stopped"), "left", k.known)
  <1>1. /\ l.rec = k.rec /\ l.flow = k.flow /\ l.get = "stopped" /\ l.shot = k.shot /\ l.cut = "left" /\ l.known = k.known
        /\ l.del = k.del /\ l.clean = k.clean /\ l.dig = k.dig /\ l.dlv = "canceled" /\ l.copy = k.copy
    BY CutMoved, GetMoved, DlvMoved
  <1> HIDE DEF l
  <1>2. Consistent(l)
    BY <1>1 DEF Consistent, Course, RecEnded, Cleaning, Unfinished, GetBegun, Whole
  <1>3. Before(k, l)
    BY <1>1 DEF Before, Consistent, Course, RecEnded, Cleaning, Unfinished, GetBegun, Whole,
       RecOrder, FlowOrder, GetOrder, ShotOrder, CutOrder, DelOrder, DlvOrder, CopyOrder
  <1> QED
    BY <1>2, <1>3 DEF l

LEMMA CancelTurn ==
  ASSUME NEW w, NEW k, Shaped(w), Described(w, k), Consistent(k), NEW v \in Cancel(w)
  PROVE  Turn(k, v)
  <1> DEFINE x == w.actions["cut"]
             y == w.deliveries["d"]
             g == w.actions["get"]
             known == {"d"} \intersect DOMAIN w.deliveries
             published == known # {} /\ y.status = "published"
             ended == Terminal(g.status)
             stopped == IF known # {} /\ y.status \in Unfinished
                        THEN Put(w, "deliveries", "d", [y EXCEPT !.status = "canceled"]) ELSE w
             first == Put(w, "actions", "cut", Started(x, Answer(known, "running", "pending")))
             taken == Put(Put(w, "deliveries", "d", [y EXCEPT !.status = "withdrawn"]),
                          "actions", "cut", Ended(x, "succeeded", Answer(known, "succeeded", "withdrawn")))
             held == IF ended THEN w ELSE Put(stopped, "actions", "get", [g EXCEPT !.status = "canceled"])
             left == Put(held, "actions", "cut", Ended(x, "succeeded", Answer(known, "succeeded", "not_retractable")))
  <1>1. \/ Is(w, "cut", "pending") /\ v \in {first}
        \/ /\ Is(w, "cut", "running") /\ DOMAIN Items(x)["get"].withdrawals = known
           /\ \/ published /\ v \in {taken}
              \/ ~published /\ v \in {left}
    BY DEF Cancel, Answer
  <1>2. /\ [y EXCEPT !.status = "canceled"] = WithDlv(y, "canceled")
        /\ [y EXCEPT !.status = "withdrawn"] = WithDlv(y, "withdrawn")
        /\ [g EXCEPT !.status = "canceled"] = WithStatus(g, "canceled")
    BY DEF WithDlv, WithStatus
  <1>3. known \subseteq {"d"} /\ ("d" \in known <=> k.dlv # "absent") /\ (known # {} <=> k.dlv # "absent")
    BY Reading DEF Has
  <1> HIDE DEF known, published, ended, stopped, first, taken, held, left
  <1>4. k.cut \in {"pending", "running"} /\ (Is(w, "cut", "pending") => k.cut = "pending")
                                       /\ (Is(w, "cut", "running") => k.cut = "running")
    BY <1>1, CutIs
  <1>5. k.shot # "absent" /\ k.rec # "absent" /\ Laid(w, k)
    BY <1>4, Reading DEF Consistent
  <1>6. x = CutAt(k.cut, k.known) /\ "cut" \in ActionsAt(k) /\ g = GetAt(k.get) /\ "get" \in ActionsAt(k)
    BY <1>5, CutIs, GetIs
  <1>7. ended <=> k.get \notin {"pending", "running"}
    BY <1>5, GetIs DEF ended
  <1>8. k.dlv # "absent" => y = DlvAt(k.dlv, k.copy) /\ y.status = k.dlv
    BY Reading, DlvParts
  <1>9. CASE Is(w, "cut", "pending") /\ v \in {first}
    <2>1. k.cut = "pending" /\ CutAt("pending", k.known) = CutAt("pending", known)
      BY <1>4, <1>9 DEF CutAt
    <2>2. v = Put(w, "actions", "cut", CutAt("running", known))
      BY <1>6, <1>9, <2>1, CutSteps DEF first
    <2>3. Shaped(v) /\ Laid(v, AtCut(k, "running", known))
      BY <1>5, <1>6, <2>2, CutPut
    <2> QED
      BY <1>3, <2>1, <2>3, CutStartMoves DEF Turn
  <1>10. CASE Is(w, "cut", "running") /\ DOMAIN Items(x)["get"].withdrawals = known
    <2>1. k.cut = "running" /\ x = CutAt("running", k.known)
      BY <1>4, <1>6, <1>10
    <2>2. DOMAIN [d \in k.known |-> [status |-> Withdrawal("running")]] = k.known
      OBVIOUS
    <2>a. Items(CutAt("running", k.known))["get"].withdrawals = [d \in k.known |-> [status |-> Withdrawal("running")]]
      BY CutItemsAre
    <2>b. DOMAIN Items(CutAt("running", k.known))["get"].withdrawals = k.known
      BY <2>a, <2>2, Zenon
    <2>3. known = k.known
      BY <1>10, <2>1, <2>b, Zenon
    <2>4. /\ Ended(x, "succeeded", Answer(known, "succeeded", "withdrawn")) = CutAt("withdrawn", k.known)
          /\ Ended(x, "succeeded", Answer(known, "succeeded", "not_retractable")) = CutAt("left", k.known)
      BY <2>1, <2>3, CutSteps
    <2> HIDE DEF x
    <2>5. CASE published /\ v \in {taken}
      <3>1. "d" \in k.known /\ k.dlv = "published"
        BY <1>3, <1>8, <2>3, <2>5 DEF published
      <3> DEFINE z == DlvAt("withdrawn", k.copy)
      <3>2. WithDlv(y, "withdrawn") = z
        BY <1>8, <3>1, DlvSteps
      <3>3. v = Put(Put(w, "deliveries", "d", z), "actions", "cut", CutAt("withdrawn", k.known))
        BY <1>2, <2>4, <2>5, <3>2 DEF taken
      <3> DEFINE u == Put(w, "deliveries", "d", z)
                 m == AtDlv(k, "withdrawn", k.copy)
      <3>4. Shaped(u) /\ Laid(u, m) /\ "cut" \in ActionsAt(m)
        BY <1>5, <1>6, DlvPut, StillActions
      <3> HIDE DEF u, m, z
      <3>5. Shaped(v) /\ Laid(v, AtCut(m, "withdrawn", k.known))
        BY <3>3, <3>4, CutPut DEF u
      <3> QED
        BY <2>1, <3>1, <3>5, WithdrawMoves DEF Turn, m
    <2>6. CASE ~published /\ v \in {left}
      <3>1. v = Put(held, "actions", "cut", CutAt("left", k.known))
        BY <2>4, <2>6 DEF left
      <3>2. CASE k.get \notin {"pending", "running"}
        <4>1. held = w
          BY <1>7, <3>2 DEF held
        <4>2. Shaped(v) /\ Laid(v, AtCut(k, "left", k.known))
          BY <1>5, <1>6, <3>1, <4>1, CutPut
        <4> QED
          BY <2>1, <4>2, LeaveMoves DEF Turn
      <3>3. CASE k.get = "pending"
        <4>1. k.dlv = "absent"
          BY <3>3 DEF Consistent
        <4>2. held = Put(w, "actions", "get", GetAt("canceled"))
          BY <1>2, <1>3, <1>6, <1>7, <3>3, <4>1, GetSteps DEF held, stopped
        <4> DEFINE m == AtGet(k, "canceled")
        <4>3. Shaped(held) /\ Laid(held, m) /\ "cut" \in ActionsAt(m)
          BY <1>5, <1>6, <4>2, GetPut, StillActions
        <4> HIDE DEF m
        <4>4. Shaped(v) /\ Laid(v, AtCut(m, "left", k.known))
          BY <3>1, <4>3, CutPut
        <4> QED
          BY <2>1, <3>3, <4>4, RevokeMoves DEF Turn, m
      <3>4. CASE k.get = "running"
        <4>1. k.dlv \in Unfinished /\ k.dlv # "absent"
          BY <3>4 DEF Consistent, Unfinished
        <4>2. stopped = Put(w, "deliveries", "d", DlvAt("canceled", k.copy))
          BY <1>2, <1>3, <1>8, <4>1, DlvSteps DEF stopped
        <4>3. held = Put(stopped, "actions", "get", GetAt("stopped"))
          BY <1>2, <1>6, <1>7, <3>4, GetSteps DEF held
        <4>4. Shaped(held) /\ Laid(held, AtGet(AtDlv(k, "canceled", k.copy), "stopped"))
          BY <1>5, <1>6, <4>2, <4>3, DlvGetPut
        <4> DEFINE m == AtGet(AtDlv(k, "canceled", k.copy), "stopped")
        <4>5. "cut" \in ActionsAt(m)
          <5>1. "cut" \in ActionsAt(AtDlv(k, "canceled", k.copy))
            BY <1>6, StillActions
          <5> QED
            BY <5>1, StillActions
        <4> HIDE DEF m
        <4>6. Shaped(v) /\ Laid(v, AtCut(m, "left", k.known))
          BY <3>1, <4>4, <4>5, CutPut DEF m
        <4> QED
          BY <2>1, <3>4, <4>6, StopMoves DEF Turn, m
      <3> QED
        BY <3>2, <3>3, <3>4
    <2> QED
      BY <1>1, <1>4, <1>10, <2>1, <2>5, <2>6, CutIs
  <1> QED
    BY <1>1, <1>9, <1>10

\* The plans of the client, as they arrive.
LEMMA FirstMoves ==
  ASSUME NEW k, Consistent(k), k.rec = "absent", NEW g \in {"pending", "inadmissible"}
  PROVE  LET l == AtGet(AtRec(k, "pending", "none"), g) IN Consistent(l) /\ Before(k, l)
  <1> DEFINE l == AtGet(AtRec(k, "pending", "none"), g)
  <1>1. /\ l.rec = "pending" /\ l.flow = "none" /\ l.get = g /\ l.shot = k.shot /\ l.cut = k.cut /\ l.known = k.known
        /\ l.del = k.del /\ l.clean = k.clean /\ l.dig = k.dig /\ l.dlv = k.dlv /\ l.copy = k.copy
    BY RecMoved, GetMoved
  <1> HIDE DEF l
  <1>2. Consistent(l)
    BY <1>1 DEF Consistent, Course, RecEnded, Cleaning, Unfinished, GetBegun, Whole
  <1>3. Before(k, l)
    BY <1>1 DEF Before, Consistent, Course, RecEnded, Cleaning, Unfinished, GetBegun, Whole,
       RecOrder, FlowOrder, GetOrder, ShotOrder, CutOrder, DelOrder, DlvOrder, CopyOrder
  <1> QED
    BY <1>2, <1>3 DEF l

LEMMA SecondMoves ==
  ASSUME NEW k, Consistent(k), k.rec # "absent", k.shot = "absent"
  PROVE  LET l == AtDel(AtCut(AtShot(k, "pending"), "pending", k.known), "pending") IN Consistent(l) /\ Before(k, l)
  <1> DEFINE l == AtDel(AtCut(AtShot(k, "pending"), "pending", k.known), "pending")
  <1>1. /\ l.rec = k.rec /\ l.flow = k.flow /\ l.get = k.get /\ l.shot = "pending" /\ l.cut = "pending" /\ l.known = k.known
        /\ l.del = "pending" /\ l.clean = k.clean /\ l.dig = k.dig /\ l.dlv = k.dlv /\ l.copy = k.copy
    BY ShotMoved, CutMoved, DelMoved
  <1> HIDE DEF l
  <1>2. Consistent(l)
    BY <1>1 DEF Consistent, Course, RecEnded, Cleaning, Unfinished, GetBegun, Whole
  <1>3. Before(k, l)
    BY <1>1 DEF Before, Consistent, Course, RecEnded, Cleaning, Unfinished, GetBegun, Whole,
       RecOrder, FlowOrder, GetOrder, ShotOrder, CutOrder, DelOrder, DlvOrder, CopyOrder
  <1> QED
    BY <1>2, <1>3 DEF l

LEMMA PlanIs == Plan(1) = PlanAt(1, "pending") /\ Plan(2) = PlanAt(2, "pending") /\ \A n, s : PlanAt(n, s).status = s
  BY DEF Plan, PlanAt

\* Two kinds of entities changed at once.
LEMMA PlansAndActions ==
  ASSUME NEW w, Shaped(w), NEW ps, NEW acts, Mapping(ps), Mapping(acts)
  PROVE  Changing([w EXCEPT !.plans = ps], [w EXCEPT !.plans = ps, !.actions = acts],
                  acts, w.outputs, w.deliveries, w.diags)
         /\ [w EXCEPT !.plans = ps].plans = ps
  <1> DEFINE v1 == [w EXCEPT !.plans = ps]
             v2 == [v1 EXCEPT !.actions = acts]
  <1>1. v1 = State(ps, w.actions, w.outputs, w.deliveries, w.diags)
    BY Replacing DEF Shaped
  <1>2. [w EXCEPT !.plans = ps, !.actions = acts] = v2
    OBVIOUS
  <1> HIDE DEF v1
  <1>3. /\ v1.plans = ps /\ v1.actions = w.actions /\ v1.outputs = w.outputs
        /\ v1.deliveries = w.deliveries /\ v1.diags = w.diags
        /\ v1 = State(v1.plans, v1.actions, v1.outputs, v1.deliveries, v1.diags)
    BY <1>1, StateParts
  <1>4. v2 = State(v1.plans, acts, v1.outputs, v1.deliveries, v1.diags)
    BY <1>3, Replacing
  <1> HIDE DEF v2
  <1>5. v2 = State(v1.plans, acts, w.outputs, w.deliveries, w.diags)
    BY <1>3, <1>4
  <1>6. Mapping(v1.plans) /\ Mapping(w.outputs) /\ Mapping(w.deliveries) /\ Mapping(w.diags)
    BY <1>3 DEF Shaped
  <1>7. Changing(v1, v2, acts, w.outputs, w.deliveries, w.diags)
    BY <1>5, <1>6, StateChanges
  <1> QED
    BY <1>2, <1>3, <1>7 DEF v1

LEMMA FirstTurn ==
  ASSUME NEW w, NEW k, Shaped(w), Described(w, k), Consistent(k), NEW v \in AcceptFirst(w)
  PROVE  Turn(k, v)
  <1> DEFINE rec == [Action("p", "rec", "camera_record", Asked) EXCEPT !.group = {"g"}]
             good == Action("p", "get", "obtain_action_outputs", HeldInput)
             bad == [good EXCEPT !.input = BadInput, !.status = "failed", !.error = {[stage |-> "admission"]}]
             ps == [p |-> Plan(1)]
  <1>1. /\ "p" \notin DOMAIN w.plans
        /\ \E g \in {good, bad} : v = [w EXCEPT !.plans = ps, !.actions = [rec |-> rec, get |-> g]]
    BY DEF AcceptFirst, Has, HeldInput, BadInput
  <1>2. rec = RecAt("pending", "none") /\ good = GetAt("pending") /\ bad = GetAt("inadmissible")
    BY Arrivals
  <1> HIDE DEF rec, good, bad
  <1>3. PICK e \in {"pending", "inadmissible"} : v = [w EXCEPT !.plans = ps, !.actions = [rec |-> rec, get |-> GetAt(e)]]
    <2>1. PICK g \in {good, bad} : v = [w EXCEPT !.plans = ps, !.actions = [rec |-> rec, get |-> g]]
      BY <1>1
    <2>2. CASE g = good
      BY <1>2, <2>1, <2>2, Zenon
    <2>3. CASE g = bad
      BY <1>2, <2>1, <2>3, Zenon
    <2> QED
      BY <2>1, <2>2, <2>3
  <1>4. DOMAIN ps = {"p"} /\ Mapping(ps) /\ ps["p"] = Plan(1)
    BY DEF Mapping
  <1> DEFINE acts == [rec |-> rec, get |-> GetAt(e)]
  <1>5. DOMAIN acts = {"rec", "get"} /\ Mapping(acts) /\ acts["rec"] = rec /\ acts["get"] = GetAt(e)
    BY DEF Mapping
  <1>6. v = [w EXCEPT !.plans = ps, !.actions = acts]
    BY <1>3
  <1> HIDE DEF ps, acts
  <1>7. Changing([w EXCEPT !.plans = ps], v, acts, w.outputs, w.deliveries, w.diags) /\ [w EXCEPT !.plans = ps].plans = ps
    BY <1>4, <1>5, <1>6, PlansAndActions
  <1>8. Shaped(v) /\ v.plans = ps /\ v.actions = acts /\ v.outputs = w.outputs
                  /\ v.deliveries = w.deliveries /\ v.diags = w.diags
    BY <1>7 DEF Changing
  <1>9. Laid(w, k) /\ k.rec = "absent" /\ k.shot = "absent"
    <2>1. Laid(w, k) /\ DOMAIN w.plans = PlansAt(k)
      BY DEF Described, Laid, LaidPlans
    <2> QED
      BY <1>1, <2>1 DEF PlansAt, Consistent
  <1> DEFINE l == AtGet(AtRec(k, "pending", "none"), e)
  <1>10. /\ l.rec = "pending" /\ l.flow = "none" /\ l.get = e /\ l.shot = "absent" /\ l.clean = k.clean /\ l.dig = k.dig
         /\ l.dlv = k.dlv /\ l.copy = k.copy
    BY <1>9, RecMoved, GetMoved
  <1>11. Consistent(l) /\ Before(k, l)
    BY <1>9, FirstMoves
  <1> HIDE DEF l
  <1>12. PlansAt(l) = {"p"} /\ ActionsAt(l) = {"rec", "get"}
    BY <1>10 DEF PlansAt, ActionsAt
  <1>13. ActionAt(l, "rec") = RecAt("pending", "none") /\ ActionAt(l, "get") = GetAt(e)
    BY <1>10 DEF ActionAt
  <1>14. Number("p") = 1
    BY DEF Number
  <1>15. LaidPlans(v, l)
    BY <1>4, <1>8, <1>12, <1>14, PlanIs DEF LaidPlans
  <1>16. LaidActions(v, l)
    BY <1>2, <1>5, <1>8, <1>12, <1>13 DEF LaidActions
  <1>17. LaidOutputs(v, l)
    BY <1>8, <1>9, <1>10 DEF Laid, LaidOutputs, OutputsAt
  <1>18. LaidDeliveries(v, l)
    BY <1>8, <1>9, <1>10 DEF Laid, LaidDeliveries, DeliveriesAt
  <1>19. LaidDiags(v)
    BY <1>8, <1>9 DEF Laid, LaidDiags
  <1> QED
    BY <1>8, <1>11, <1>15, <1>16, <1>17, <1>18, <1>19 DEF Turn, Laid

LEMMA SecondTurn ==
  ASSUME NEW w, NEW k, Shaped(w), Described(w, k), Consistent(k), NEW v \in AcceptSecond(w)
  PROVE  Turn(k, v)
  <1> DEFINE shot == Action("q", "shot", "camera_take_photo", Asked)
             cut == Action("q", "cut", "cancel_task", CutInput)
             del == Action("q", "del", "delete_action_outputs", DelInput)
             more == [shot |-> shot, cut |-> cut, del |-> del]
             ps == With(w.plans, "q", Plan(2))
             acts == Added(w.actions, more)
  <1>1. Has(w, "plans", "p") /\ ~Has(w, "plans", "q") /\ v = [w EXCEPT !.plans = ps, !.actions = acts]
    BY DEF AcceptSecond, CutInput, DelInput
  <1>2. shot = ShotAt("pending") /\ cut = CutAt("pending", k.known) /\ del = DelAt("pending")
    BY Arrivals
  <1> HIDE DEF shot, cut, del
  <1>3. Mapping(ps) /\ Writes(w.plans, ps, "q", Plan(2))
    BY WithWrites
  <1>4. /\ DOMAIN more = {"shot", "cut", "del"}
        /\ more["shot"] = shot /\ more["cut"] = cut /\ more["del"] = del
    OBVIOUS
  <1> HIDE DEF ps, more
  <1>5. /\ DOMAIN acts = DOMAIN w.actions \union {"shot", "cut", "del"} /\ Mapping(acts)
        /\ \A a \in DOMAIN more : acts[a] = more[a]
        /\ \A a \in DOMAIN w.actions : a \notin DOMAIN more => acts[a] = w.actions[a]
    BY <1>4 DEF Added, Mapping
  <1> HIDE DEF acts
  <1>7. Changing([w EXCEPT !.plans = ps], v, acts, w.outputs, w.deliveries, w.diags) /\ [w EXCEPT !.plans = ps].plans = ps
    BY <1>1, <1>3, <1>5, PlansAndActions
  <1>8. Shaped(v) /\ v.plans = ps /\ v.actions = acts /\ v.outputs = w.outputs
                  /\ v.deliveries = w.deliveries /\ v.diags = w.diags
    BY <1>7 DEF Changing
  <1>9. Laid(w, k) /\ k.rec # "absent" /\ k.shot = "absent" /\ DOMAIN w.plans = {"p"} /\ PlansAt(k) = {"p"}
    <2>1. Laid(w, k) /\ DOMAIN w.plans = PlansAt(k)
      BY DEF Described, Laid, LaidPlans
    <2> QED
      BY <1>1, <2>1 DEF PlansAt, Has
  <1> DEFINE l == AtDel(AtCut(AtShot(k, "pending"), "pending", k.known), "pending")
  <1>10. /\ l.rec = k.rec /\ l.flow = k.flow /\ l.get = k.get /\ l.shot = "pending" /\ l.cut = "pending"
         /\ l.known = k.known /\ l.del = "pending" /\ l.clean = k.clean /\ l.dig = k.dig
         /\ l.dlv = k.dlv /\ l.copy = k.copy
    BY ShotMoved, CutMoved, DelMoved
  <1>11. Consistent(l) /\ Before(k, l)
    BY <1>9, SecondMoves
  <1> HIDE DEF l
  <1>12. /\ PlansAt(l) = {"p", "q"} /\ ActionsAt(l) = {"rec", "get", "shot", "cut", "del"}
         /\ ActionsAt(k) = {"rec", "get"}
    BY <1>9, <1>10 DEF PlansAt, ActionsAt
  <1>13. /\ ActionAt(l, "rec") = ActionAt(k, "rec") /\ ActionAt(l, "get") = ActionAt(k, "get")
         /\ ActionAt(l, "shot") = ShotAt("pending") /\ ActionAt(l, "cut") = CutAt("pending", k.known)
         /\ ActionAt(l, "del") = DelAt("pending")
    BY <1>10 DEF ActionAt
  <1>14. Number("p") = 1 /\ Number("q") = 2
    BY DEF Number
  <1>15. LaidPlans(v, l)
    <2>1. DOMAIN ps = {"p", "q"} /\ ps["q"] = Plan(2) /\ ps["p"] = w.plans["p"]
      BY <1>3, <1>9 DEF Writes
    <2>2. ps["p"] = PlanAt(1, ps["p"].status)
      BY <1>9, <1>14, <2>1 DEF Laid, LaidPlans
    <2>3. ps["q"] = PlanAt(2, ps["q"].status)
      BY <2>1, PlanIs
    <2> QED
      BY <1>8, <1>12, <1>14, <2>1, <2>2, <2>3 DEF LaidPlans
  <1>16. LaidActions(v, l)
    <2>1. DOMAIN w.actions = {"rec", "get"} /\ w.actions["rec"] = ActionAt(k, "rec") /\ w.actions["get"] = ActionAt(k, "get")
      BY <1>9, <1>12 DEF Laid, LaidActions
    <2>2. DOMAIN acts = {"rec", "get", "shot", "cut", "del"}
      BY <1>5, <2>1
    <2>3. acts["rec"] = w.actions["rec"] /\ acts["get"] = w.actions["get"]
      BY <1>4, <1>5, <2>1
    <2>4. acts["shot"] = shot /\ acts["cut"] = cut /\ acts["del"] = del
      BY <1>4, <1>5
    <2> QED
      BY <1>2, <1>8, <1>12, <1>13, <2>1, <2>2, <2>3, <2>4 DEF LaidActions
  <1>17. LaidOutputs(v, l)
    BY <1>8, <1>9, <1>10 DEF Laid, LaidOutputs, OutputsAt
  <1>18. LaidDeliveries(v, l)
    BY <1>8, <1>9, <1>10 DEF Laid, LaidDeliveries, DeliveriesAt
  <1>19. LaidDiags(v)
    BY <1>8, <1>9 DEF Laid, LaidDiags
  <1> QED
    BY <1>8, <1>11, <1>15, <1>16, <1>17, <1>18, <1>19 DEF Turn, Laid

LEMMA BeforeItself == \A k : Before(k, k)
  BY DEF Before, RecOrder, FlowOrder, GetOrder, ShotOrder, CutOrder, DelOrder, DlvOrder, CopyOrder

LEMMA DiagnoseTurn ==
  ASSUME NEW w, NEW k, Shaped(w), Described(w, k), Consistent(k), NEW v \in Diagnose(w)
  PROVE  Turn(k, v)
  <1> DEFINE f == With(w.diags, "x", "x")
  <1>1. v = Put(w, "diags", "x", "x")
    BY DEF Diagnose
  <1>2. Changing(w, v, w.actions, w.outputs, w.deliveries, f)
    BY <1>1, PutChanges
  <1>3. Writes(w.diags, f, "x", "x")
    BY WithWrites
  <1> HIDE DEF f
  <1>4. Shaped(v) /\ v.plans = w.plans /\ v.actions = w.actions /\ v.outputs = w.outputs
                  /\ v.deliveries = w.deliveries /\ v.diags = f
    BY <1>2 DEF Changing
  <1>5. Laid(w, k)
    BY DEF Described
  <1>6. LaidDiags(v)
    BY <1>3, <1>4, <1>5 DEF Laid, LaidDiags, Writes
  <1>7. LaidPlans(v, k) /\ LaidActions(v, k) /\ LaidOutputs(v, k) /\ LaidDeliveries(v, k)
    BY <1>4, <1>5 DEF Laid, LaidPlans, LaidActions, LaidOutputs, LaidDeliveries
  <1> QED
    BY <1>4, <1>6, <1>7, BeforeItself DEF Turn, Laid

\* Every change of the device takes it one stage on.
LEMMA ChangeTurn ==
  ASSUME NEW w, NEW k, Shaped(w), Described(w, k), Consistent(k), NEW v \in Changes(w)
  PROVE  \E l : Described(v, l) /\ Consistent(l) /\ Before(k, l)
  <1>1. PICK u : v = Settle(u) /\ \E X \in {AcceptFirst(w), AcceptSecond(w), Record(w), Digest(w),
              Retrieve(w), Deliver(w), Photograph(w), Cancel(w), Delete(w), Diagnose(w)} : u \in X
    BY DEF Changes
  <1>2. Turn(k, u)
    BY <1>1, FirstTurn, SecondTurn, RecordTurn, DigestTurn, RetrieveTurn, DeliverTurn,
       PhotographTurn, CancelTurn, DeleteTurn, DiagnoseTurn
  <1>3. PICK l : Shaped(u) /\ Laid(u, l) /\ Consistent(l) /\ Before(k, l)
    BY <1>2 DEF Turn
  <1> QED
    BY <1>1, <1>3, SettleLaid

\* The stages of one entity follow one another.
LEMMA BeforeAgain ==
  ASSUME NEW k, NEW l, NEW m, Before(k, l), Before(l, m)
  PROVE  Before(k, m)
  <1>1. RecOrder(k.rec, m.rec)
    BY DEF Before, RecOrder
  <1>2. FlowOrder(k.flow, m.flow)
    BY DEF Before, FlowOrder
  <1>3. GetOrder(k.get, m.get)
    BY DEF Before, GetOrder, GetBegun
  <1>4. ShotOrder(k.shot, m.shot)
    BY DEF Before, ShotOrder
  <1>5. CutOrder(k.cut, m.cut)
    BY DEF Before, CutOrder
  <1>6. DelOrder(k.del, m.del)
    BY DEF Before, DelOrder
  <1>7. DlvOrder(k.dlv, m.dlv)
    BY DEF Before, DlvOrder
  <1>8. CopyOrder(k.copy, m.copy)
    BY DEF Before, CopyOrder
  <1>9. k.cut \in {"running", "withdrawn", "left"} => k.known = m.known
    BY DEF Before, CutOrder
  <1> QED
    BY <1>1, <1>2, <1>3, <1>4, <1>5, <1>6, <1>7, <1>8, <1>9 DEF Before

LEMMA EmptyDescribed == Described(Empty, Unbegun) /\ Consistent(Unbegun)
  <1> DEFINE k == Unbegun
  <1>1. /\ k.rec = "absent" /\ k.flow = "none" /\ k.get = "absent" /\ k.shot = "absent" /\ k.cut = "absent"
        /\ k.known = {} /\ k.del = "absent" /\ k.clean = "absent" /\ k.dig = "plain" /\ k.dlv = "absent"
        /\ k.copy = "c0"
    BY DEF Unbegun, At
  <1> HIDE DEF k
  <1>2. Consistent(k)
    BY <1>1 DEF Consistent, Course, RecEnded, GetBegun, Unfinished
  <1>3. PlansAt(k) = {} /\ ActionsAt(k) = {} /\ OutputsAt(k) = {} /\ DeliveriesAt(k) = {}
    BY <1>1 DEF PlansAt, ActionsAt, OutputsAt, DeliveriesAt
  <1>4. /\ DOMAIN Empty.plans = {} /\ DOMAIN Empty.actions = {} /\ DOMAIN Empty.outputs = {}
        /\ DOMAIN Empty.deliveries = {} /\ DOMAIN Empty.diags = {}
    BY DEF Empty
  <1>5. Described(Empty, k)
    BY <1>3, <1>4 DEF Described, Laid, LaidPlans, LaidActions, LaidOutputs, LaidDeliveries, LaidDiags
  <1> QED
    BY <1>2, <1>5 DEF k

LEMMA WorldShaped == \A w : World(w) => Shaped(w)
  BY DEF World

\* Every state the device may start with is one of a course.
LEMMA ReachedCourses ==
  \A n \in Nat : \A w \in Reach[n] : \E l : Described(w, l) /\ Consistent(l)
  <1> DEFINE S == {n \in Nat : \A w \in Reach[n] : \E l : Described(w, l) /\ Consistent(l)}
  <1>1. 0 \in S
    BY ReachIs, EmptyDescribed
  <1>2. ASSUME NEW n \in Nat, n \in S
        PROVE  n + 1 \in S
    <2>1. ASSUME NEW v \in Reach[n + 1]
          PROVE  \E l : Described(v, l) /\ Consistent(l)
      <3>1. PICK w \in Reach[n] : v \in Changes(w)
        BY ReachIs DEF After
      <3>2. PICK k : Described(w, k) /\ Consistent(k)
        BY <1>2, <3>1
      <3>3. Shaped(w)
        BY <3>1, ReachedWorlds, WorldShaped
      <3> QED
        BY <3>1, <3>2, <3>3, ChangeTurn
    <2> QED
      BY <2>1
  <1> HIDE DEF S
  <1>3. Nat \subseteq S
    BY <1>1, <1>2, SetInduction
  <1> QED
    BY <1>3 DEF S

\* The whole history of an undisturbed device is one course, stage by stage.
Follows(h, t) ==
  /\ \A i \in 1 .. Len(h) : Described(h[i], t[i]) /\ Consistent(t[i])
  /\ \A i, j \in 1 .. Len(h) : i <= j => Before(t[i], t[j])
CourseInv == forks = 0 => \E t : Follows(history, t)

LEMMA CourseInvInit == Init => CourseInv
  <1> SUFFICES ASSUME Init PROVE CourseInv
    OBVIOUS
  <1>1. PICK w : history = <<Empty, w>> /\ w \in UNION {Reach[n] : n \in FirstSteps}
    BY DEF Init
  <1>2. PICK l : Described(w, l) /\ Consistent(l)
    BY <1>1, ReachedCourses, StepsAssumption
  <1> DEFINE t == <<Unbegun, l>>
  <1>3. /\ Len(history) = 2 /\ history[1] = Empty /\ history[2] = w
        /\ t[1] = Unbegun /\ t[2] = l
    BY <1>1
  <1> HIDE DEF t
  <1>4. \A i \in 1 .. 2 : i = 1 \/ i = 2
    OBVIOUS
  <1>5. /\ Unbegun.rec = "absent" /\ Unbegun.flow = "none" /\ Unbegun.get = "absent" /\ Unbegun.shot = "absent"
        /\ Unbegun.cut = "absent" /\ Unbegun.del = "absent" /\ Unbegun.dlv = "absent" /\ Unbegun.copy = "c0"
        /\ Unbegun.dig = "plain" /\ Unbegun.clean = "absent"
    BY DEF Unbegun, At
  <1>6. Before(Unbegun, l)
    BY <1>5 DEF Before, RecOrder, FlowOrder, GetOrder, ShotOrder, CutOrder, DelOrder, DlvOrder, CopyOrder
  <1>7. \A i \in 1 .. 2 : Described(history[i], t[i]) /\ Consistent(t[i])
    BY <1>2, <1>3, <1>4, EmptyDescribed
  <1>8. \A i, j \in 1 .. 2 : i <= j => Before(t[i], t[j])
    BY <1>3, <1>4, <1>6, BeforeItself
  <1>9. Follows(history, t)
    BY <1>3, <1>7, <1>8 DEF Follows
  <1> QED
    BY <1>9 DEF CourseInv

LEMMA DeviceFollows ==
  ASSUME HistoryInv, Device, NEW t, Follows(history, t)
  PROVE  \E u : Follows(history', u)
  <1>1. PICK w \in Changes(history[Len(history)]) : history' = Append(history, w)
    BY DEF Device
  <1>2. PICK S : history \in Seq(S)
    BY DEF HistoryInv
  <1> DEFINE n == Len(history)
  <1>3. n \in Nat \ {0} /\ Shaped(history[n])
    BY WorldShaped DEF HistoryInv
  <1>4. PICK l : Described(w, l) /\ Consistent(l) /\ Before(t[n], l)
    BY <1>1, <1>3, ChangeTurn DEF Follows
  <1>5. history \in Seq(S \union {w})
    BY <1>2
  <1>6. /\ Len(history') = n + 1 /\ history'[n + 1] = w
        /\ \A i \in 1 .. n : history'[i] = history[i]
    BY <1>1, <1>5
  <1> DEFINE u == [i \in 1 .. n + 1 |-> IF i = n + 1 THEN l ELSE t[i]]
  <1>7. u[n + 1] = l /\ \A i \in 1 .. n : u[i] = t[i]
    BY <1>3
  <1> HIDE DEF u
  <1>8. \A i \in 1 .. n + 1 : i \in 1 .. n \/ i = n + 1
    BY <1>3
  <1>9. \A i \in 1 .. n : Before(t[i], l)
    <2> SUFFICES ASSUME NEW i \in 1 .. n PROVE Before(t[i], l)
      OBVIOUS
    <2>1. Before(t[i], t[n])
      BY <1>3 DEF Follows
    <2> QED
      BY <1>4, <2>1, BeforeAgain
  <1>10. \A i \in 1 .. n + 1 : Described(history'[i], u[i]) /\ Consistent(u[i])
    BY <1>4, <1>6, <1>7, <1>8 DEF Follows
  <1>11. ASSUME NEW i \in 1 .. n + 1, NEW j \in 1 .. n + 1, i <= j
         PROVE  Before(u[i], u[j])
    <2>1. CASE j = n + 1
      BY <1>7, <1>8, <1>9, <2>1, BeforeItself
    <2>2. CASE j # n + 1
      <3>1. i \in 1 .. n /\ j \in 1 .. n
        BY <1>3, <1>11, <2>2
      <3> QED
        BY <1>7, <1>11, <3>1 DEF Follows
    <2> QED
      BY <2>1, <2>2
  <1>12. Follows(history', u)
    BY <1>6, <1>10, <1>11 DEF Follows
  <1> QED
    BY <1>12

LEMMA CourseInvNext == ShownInv /\ ClientInv /\ CourseInv /\ [Next]_vars => CourseInv'
  <1> SUFFICES ASSUME ShownInv, ClientInv, CourseInv, [Next]_vars
               PROVE  CourseInv'
    OBVIOUS
  <1>1. CASE UNCHANGED vars
    BY <1>1 DEF vars, CourseInv
  <1>2. CASE Fork
    BY <1>2 DEF Fork, ShownInv, CourseInv
  <1>3. CASE Device
    <2>1. UNCHANGED forks
      BY <1>3 DEF Device
    <2> SUFFICES ASSUME forks = 0
                 PROVE  \E u : Follows(history', u)
      BY <2>1 DEF CourseInv
    <2>2. HistoryInv /\ \E t : Follows(history, t)
      BY DEF ShownInv, CourseInv
    <2> QED
      BY <1>3, <2>2, DeviceFollows
  <1>4. CASE Import
    BY <1>4 DEF Import, CourseInv
  <1> QED
    BY <1>1, <1>2, <1>3, <1>4 DEF Next

------------------------------------------------------------------------------
(* Attempts and copies, as the device makes them. *)

LEMMA TryIs ==
  /\ Len(Try(<<>>)) = 0 /\ DOMAIN Try(<<>>) = {}
  /\ \A a : LET t == Try(<<a>>) IN Len(t) = 1 /\ DOMAIN t = {1} /\ t[1] = [no |-> 1, status |-> a]
  /\ \A a, b : LET t == Try(<<a, b>>) IN
       Len(t) = 2 /\ DOMAIN t = {1, 2} /\ t[1] = [no |-> 1, status |-> a] /\ t[2] = [no |-> 2, status |-> b]
  <1>1. Try(<<>>) = <<>>
    BY DEF Try
  <1>2. \A a : Try(<<a>>) = <<[no |-> 1, status |-> a]>>
    BY DEF Try
  <1>3. \A a, b : Try(<<a, b>>) = <<[no |-> 1, status |-> a], [no |-> 2, status |-> b]>>
    BY DEF Try
  <1>4. Len(<<>>) = 0 /\ DOMAIN <<>> = {}
    OBVIOUS
  <1>5. \A x : Len(<<x>>) = 1 /\ DOMAIN <<x>> = {1} /\ <<x>>[1] = x
    OBVIOUS
  <1>6. \A x, y : Len(<<x, y>>) = 2 /\ DOMAIN <<x, y>> = {1, 2} /\ <<x, y>>[1] = x /\ <<x, y>>[2] = y
    OBVIOUS
  <1> QED
    BY <1>1, <1>2, <1>3, <1>4, <1>5, <1>6

\* The attempts of the device are within their limits and go on one another.
LEMMA TheAttempts ==
  /\ attempts(Try(<<>>), 1) /\ attempts(Try(<<>>), 2)
  /\ \A a : attempts(Try(<<a>>), 1) /\ attempts(Try(<<a>>), 2)
  /\ \A a, b : a # "running" => attempts(Try(<<a, b>>), 2)
  <1>1. attempts(Try(<<>>), 1) /\ attempts(Try(<<>>), 2)
    BY TryIs DEF attempts
  <1>2. ASSUME NEW a PROVE attempts(Try(<<a>>), 1) /\ attempts(Try(<<a>>), 2)
    <2> DEFINE t == Try(<<a>>)
    <2>1. Len(t) = 1 /\ DOMAIN t = {1} /\ t[1] = [no |-> 1, status |-> a]
      BY TryIs
    <2> HIDE DEF t
    <2>2. t[1].no = 1
      BY <2>1
    <2>3. \A i \in DOMAIN t : t[i].no = i /\ i = Len(t)
      BY <2>1, <2>2
    <2>4. Len(t) <= 1 /\ Len(t) <= 2
      BY <2>1
    <2>5. attempts(t, 1) /\ attempts(t, 2)
      BY <2>3, <2>4, Zenon DEF attempts
    <2> QED
      BY <2>5 DEF t
  <1>3. ASSUME NEW a, NEW b, a # "running" PROVE attempts(Try(<<a, b>>), 2)
    <2> DEFINE t == Try(<<a, b>>)
    <2>1. Len(t) = 2 /\ DOMAIN t = {1, 2} /\ t[1] = [no |-> 1, status |-> a] /\ t[2] = [no |-> 2, status |-> b]
      BY TryIs
    <2> HIDE DEF t
    <2>2. t[1].no = 1 /\ t[2].no = 2 /\ t[1].status = a
      BY <2>1
    <2>3. \A i \in DOMAIN t : t[i].no = i /\ (t[i].status = "running" => i = Len(t))
      BY <1>3, <2>1, <2>2
    <2>4. Len(t) <= 2
      BY <2>1
    <2>5. attempts(t, 2)
      BY <2>3, <2>4, Zenon DEF attempts
    <2> QED
      BY <2>5 DEF t
  <1> QED
    BY <1>1, <1>2, <1>3

LEMMA AttemptsGo ==
  /\ attemptHistory(Try(<<>>), Try(<<>>))
  /\ \A a : attemptHistory(Try(<<>>), Try(<<a>>))
  /\ \A a, b : attemptHistory(Try(<<>>), Try(<<a, b>>))
  /\ \A a, b : (a \in {"succeeded", "failed"} => b = a) => attemptHistory(Try(<<a>>), Try(<<b>>))
  /\ \A a, b, c : (a \in {"succeeded", "failed"} => b = a) => attemptHistory(Try(<<a>>), Try(<<b, c>>))
  /\ \A a, b, c, d :
       (a \in {"succeeded", "failed"} => c = a) /\ (b \in {"succeeded", "failed"} => d = b)
         => attemptHistory(Try(<<a, b>>), Try(<<c, d>>))
  <1>1. /\ attemptHistory(Try(<<>>), Try(<<>>)) /\ \A a : attemptHistory(Try(<<>>), Try(<<a>>))
    BY TryIs DEF attemptHistory
  <1>2. ASSUME NEW a, NEW b PROVE attemptHistory(Try(<<>>), Try(<<a, b>>))
    BY TryIs DEF attemptHistory
  <1>3. ASSUME NEW a, NEW b, a \in {"succeeded", "failed"} => b = a PROVE attemptHistory(Try(<<a>>), Try(<<b>>))
    <2> DEFINE s == Try(<<a>>)  t == Try(<<b>>)
    <2>1. /\ Len(s) = 1 /\ DOMAIN s = {1} /\ s[1] = [no |-> 1, status |-> a]
          /\ Len(t) = 1 /\ DOMAIN t = {1} /\ t[1] = [no |-> 1, status |-> b]
      BY TryIs
    <2> HIDE DEF s, t
    <2>2. s[1].no = t[1].no /\ s[1].status = a /\ (a = b => s[1] = t[1])
      BY <2>1
    <2> QED
      BY <1>3, <2>1, <2>2 DEF attemptHistory, s, t
  <1>4. ASSUME NEW a, NEW b, NEW c, a \in {"succeeded", "failed"} => b = a
        PROVE  attemptHistory(Try(<<a>>), Try(<<b, c>>))
    <2> DEFINE s == Try(<<a>>)  t == Try(<<b, c>>)
    <2>1. /\ Len(s) = 1 /\ DOMAIN s = {1} /\ s[1] = [no |-> 1, status |-> a]
          /\ Len(t) = 2 /\ t[1] = [no |-> 1, status |-> b]
      BY TryIs
    <2> HIDE DEF s, t
    <2>2. s[1].no = t[1].no /\ s[1].status = a /\ (a = b => s[1] = t[1])
      BY <2>1
    <2> QED
      BY <1>4, <2>1, <2>2 DEF attemptHistory, s, t
  <1>5. ASSUME NEW a, NEW b, NEW c, NEW d, a \in {"succeeded", "failed"} => c = a, b \in {"succeeded", "failed"} => d = b
        PROVE  attemptHistory(Try(<<a, b>>), Try(<<c, d>>))
    <2> DEFINE s == Try(<<a, b>>)  t == Try(<<c, d>>)
    <2>1. /\ Len(s) = 2 /\ DOMAIN s = {1, 2} /\ s[1] = [no |-> 1, status |-> a] /\ s[2] = [no |-> 2, status |-> b]
          /\ Len(t) = 2 /\ t[1] = [no |-> 1, status |-> c] /\ t[2] = [no |-> 2, status |-> d]
      BY TryIs
    <2> HIDE DEF s, t
    <2>2. /\ s[1].no = t[1].no /\ s[1].status = a /\ (a = c => s[1] = t[1])
          /\ s[2].no = t[2].no /\ s[2].status = b /\ (b = d => s[2] = t[2])
      BY <2>1
    <2>3. Len(t) >= Len(s)
      BY <2>1
    <2>4. \A i \in DOMAIN s : s[i].no = t[i].no /\ (s[i].status \in {"succeeded", "failed"} => s[i] = t[i])
      BY <1>5, <2>1, <2>2
    <2>5. attemptHistory(s, t)
      BY <2>3, <2>4, Zenon DEF attemptHistory
    <2> QED
      BY <2>5 DEF s, t
  <1> QED
    BY <1>1, <1>2, <1>3, <1>4, <1>5

LEMMA CopyingParts ==
  ASSUME NEW n, NEW s, NEW m
  PROVE  LET c == Copying(n, s, m) IN
         /\ c.budget = [reads |-> 2, recopies |-> 1] /\ c.reads = Try(s) /\ c.recopies = n - 1
         /\ c.round = n /\ c.committed = m /\ c.source = {}
  BY DEF Copying

LEMMA CopyingFacts ==
  ASSUME NEW n \in {1, 2}, NEW s, attempts(Try(s), 2), NEW m
  PROVE  copyFacts(Copying(n, s, m))
  <1> DEFINE c == Copying(n, s, m)
  <1>1. /\ c.budget = [reads |-> 2, recopies |-> 1] /\ c.reads = Try(s) /\ c.recopies = n - 1
        /\ c.round = n /\ c.committed = m /\ c.source = {}
    BY CopyingParts
  <1> HIDE DEF c
  <1>2. c.budget.reads = 2 /\ c.budget.recopies = 1
    BY <1>1
  <1>3. n - 1 <= 1 /\ n = (n - 1) + 1
    OBVIOUS
  <1> QED
    BY <1>1, <1>2, <1>3 DEF copyFacts, c

LEMMA CopiesAre == \A c \in {"c0", "c1", "c2", "s1", "s2", "f2"} : copyFacts(CopyAt(c))
  <1>1. copyFacts(Copying(1, <<>>, 0)) /\ copyFacts(Copying(1, <<"running">>, 1)) /\ copyFacts(Copying(1, <<"succeeded">>, 2))
    BY CopyingFacts, TheAttempts
  <1>2. /\ copyFacts(Copying(2, <<"failed", "running">>, 0)) /\ copyFacts(Copying(2, <<"failed", "succeeded">>, 2))
        /\ copyFacts(Copying(2, <<"failed", "failed">>, 0))
    BY CopyingFacts, TheAttempts
  <1> QED
    BY <1>1, <1>2, CopyRounds

\* Copies go on: their attempts, and what is committed within one round.
LEMMA CopyingGoes ==
  ASSUME NEW n \in {1, 2}, NEW m \in {1, 2}, n <= m, NEW s, NEW t, attemptHistory(Try(s), Try(t)),
         NEW i \in Nat, NEW j \in Nat, n = m => i <= j
  PROVE  copyHistory(Copying(n, s, i), Copying(m, t, j))
  <1> DEFINE c == Copying(n, s, i)  d == Copying(m, t, j)
  <1>1. /\ c.budget = [reads |-> 2, recopies |-> 1] /\ c.reads = Try(s) /\ c.recopies = n - 1
        /\ c.round = n /\ c.committed = i /\ c.source = {}
        /\ d.budget = [reads |-> 2, recopies |-> 1] /\ d.reads = Try(t) /\ d.recopies = m - 1
        /\ d.round = m /\ d.committed = j /\ d.source = {}
    BY CopyingParts
  <1> HIDE DEF c, d
  <1>2. m - 1 >= n - 1 /\ (m = n => j >= i)
    OBVIOUS
  <1>3. c.budget = d.budget
    BY <1>1
  <1> QED
    BY <1>1, <1>2, <1>3 DEF copyHistory, c, d

LEMMA CopiesGo ==
  ASSUME NEW c \in {"c0", "c1", "c2", "s1", "s2", "f2"}, NEW d \in {"c0", "c1", "c2", "s1", "s2", "f2"}, CopyOrder(c, d)
  PROVE  copyHistory(CopyAt(c), CopyAt(d)) /\ CopyAt(c).budget = CopyAt(d).budget
  <1> DEFINE n(x) == IF x \in {"c0", "c1", "s1"} THEN 1 ELSE 2
             s(x) == IF x = "c0" THEN <<>> ELSE IF x = "c1" THEN <<"running">> ELSE IF x = "s1" THEN <<"succeeded">>
                     ELSE IF x = "c2" THEN <<"failed", "running">> ELSE IF x = "s2" THEN <<"failed", "succeeded">>
                     ELSE <<"failed", "failed">>
             m(x) == IF x = "c1" THEN 1 ELSE IF x \in {"s1", "s2"} THEN 2 ELSE 0
  <1>1. \A x \in {"c0", "c1", "c2", "s1", "s2", "f2"} : CopyAt(x) = Copying(n(x), s(x), m(x))
    BY CopyRounds
  <1>2. \A x \in {"c0", "c1", "c2", "s1", "s2", "f2"} : m(x) \in Nat /\ n(x) \in {1, 2}
    OBVIOUS
  <1>3. attemptHistory(Try(s(c)), Try(s(d)))
    <2>0. /\ s("c0") = <<>> /\ s("c1") = <<"running">> /\ s("s1") = <<"succeeded">>
          /\ s("c2") = <<"failed", "running">> /\ s("s2") = <<"failed", "succeeded">> /\ s("f2") = <<"failed", "failed">>
      OBVIOUS
    <2> HIDE DEF s
    <2>1. CASE c = d
      BY <2>0, <2>1, AttemptsGo
    <2>2. CASE c = "c0"
      BY <2>0, <2>2, AttemptsGo
    <2>3. CASE c = "c1" /\ d # "c0"
      BY <2>0, <2>3, AttemptsGo
    <2>4. CASE c = "c2" /\ d \in {"s2", "f2"}
      BY <2>0, <2>4, AttemptsGo
    <2> QED
      BY <2>1, <2>2, <2>3, <2>4 DEF CopyOrder
  <1>4. n(c) <= n(d) /\ (n(c) = n(d) => m(c) <= m(d))
    BY DEF CopyOrder
  <1> HIDE DEF n, s, m
  <1>5. copyHistory(CopyAt(c), CopyAt(d))
    BY <1>1, <1>2, <1>3, <1>4, CopyingGoes
  <1>6. CopyAt(c).budget = CopyAt(d).budget
    BY <1>1, CopyingParts
  <1> QED
    BY <1>5, <1>6

------------------------------------------------------------------------------
(* The results of the actions, by themselves and one after another. *)

RecStages == {"pending", "expired", "running", "again", "succeeded", "failed"}
RecFresh == {"pending", "expired"}

LEMMA RecordingsAre ==
  ASSUME NEW k, NEW f
  PROVE  /\ k \in RecFresh => Recordings(RecAt(k, f)) = {} /\ Copies(RecAt(k, f)) = {}
         /\ k \notin RecFresh => Recordings(RecAt(k, f)) = {GroupAt(k, f)}
         /\ k \in {"running", "again"} => Copies(RecAt(k, f)) = {}
         /\ k \in RecEnded => Copies(RecAt(k, f)) = {CopyAt("s1")}
  <1> DEFINE y == RecAt(k, f)  x == RecordedAt(k, f)
  <1>1. (k \in RecFresh => y.result = {}) /\ (k \notin RecFresh => y.result = {x})
    BY RecParts DEF RecFresh
  <1>2. /\ x.recording = {GroupAt(k, f)}
        /\ k \in {"running", "again"} => x.copy = {}
        /\ k \in RecEnded => x.copy = {Copying(1, <<"succeeded">>, 2)}
    BY DEF RecordedAt, RecEnded
  <1> HIDE DEF x, y
  <1>3. /\ y.result = {} => Recordings(y) = {} /\ Copies(y) = {}
        /\ y.result = {x} => Recordings(y) = x.recording /\ Copies(y) = x.copy
    BY DEF Recordings, Copies
  <1>4. {"running", "again"} \intersect RecFresh = {} /\ RecEnded \intersect RecFresh = {}
    BY DEF RecFresh, RecEnded
  <1>5. k \in RecFresh => Recordings(y) = {} /\ Copies(y) = {}
    BY <1>1, <1>3
  <1>6. k \notin RecFresh => Recordings(y) = {GroupAt(k, f)} /\ Copies(y) = x.copy
    BY <1>1, <1>2, <1>3
  <1>7. k \in {"running", "again"} => Copies(y) = {}
    BY <1>2, <1>4, <1>6
  <1>8. k \in RecEnded => Copies(y) = {CopyAt("s1")}
    BY <1>2, <1>4, <1>6, CopyRounds
  <1> QED
    BY <1>5, <1>6, <1>7, <1>8 DEF y

\* A group of a recording: its two parts, and the flows that may stop it.
LEMMA GroupIs ==
  ASSUME NEW k, NEW f
  PROVE  LET g == GroupAt(k, f) IN
         /\ g.start = Part(RecStart(k)) /\ g.stop = Part(RecStop(k))
         /\ g["start"] = Part(RecStart(k)) /\ g["stop"] = Part(RecStop(k))
         /\ f = "none" => DOMAIN g.followup = {}
         /\ f # "none" => DOMAIN g.followup = {"s"} /\ g.followup["s"] = FlowAt(f)
         /\ k = "failed" => DOMAIN g.emergency = {"e"} /\ g.emergency["e"] = Compulsion
         /\ k # "failed" => DOMAIN g.emergency = {}
  BY DEF GroupAt

LEMMA PartIs ==
  /\ \A s : Part(s).max = 2 /\ Part(s).attempts = Try(s)
  /\ \A f : LET y == FlowAt(f) IN
       y.trigger = "shot" /\ y.max = 1 /\ y.attempts = Try(<<f>>) /\ y.status = f /\ y.error = {}
  /\ Compulsion.max = {2} /\ Compulsion.used = 1
  <1>1. \A s : Part(s).max = 2 /\ Part(s).attempts = Try(s)
    BY DEF Part
  <1>2. \A f : LET y == FlowAt(f) IN
          y.trigger = "shot" /\ y.max = 1 /\ y.attempts = Try(<<f>>) /\ y.status = f /\ y.error = {}
    BY DEF FlowAt
  <1>3. Compulsion.max = {2} /\ Compulsion.used = 1
    BY DEF Compulsion
  <1> QED
    BY <1>1, <1>2, <1>3

LEMMA PartFacts ==
  ASSUME NEW k
  PROVE  attempts(Try(RecStart(k)), 2) /\ attempts(Try(RecStop(k)), 2)
  <1>1. RecStart(k) \in {<<"running">>, <<"failed", "running">>, <<"succeeded">>, <<"failed", "succeeded">>}
    BY DEF RecStart
  <1>2. RecStop(k) \in {<<>>, <<"succeeded">>, <<"failed", "failed">>}
    BY DEF RecStop
  <1>3. /\ attempts(Try(<<"running">>), 2) /\ attempts(Try(<<"failed", "running">>), 2)
        /\ attempts(Try(<<"succeeded">>), 2) /\ attempts(Try(<<"failed", "succeeded">>), 2)
        /\ attempts(Try(<<>>), 2) /\ attempts(Try(<<"failed", "failed">>), 2)
    BY TheAttempts
  <1>4. \A s \in {<<"running">>, <<"failed", "running">>, <<"succeeded">>, <<"failed", "succeeded">>} :
          attempts(Try(s), 2)
    BY <1>3
  <1>5. \A s \in {<<>>, <<"succeeded">>, <<"failed", "failed">>} : attempts(Try(s), 2)
    BY <1>3
  <1> QED
    BY <1>1, <1>2, <1>4, <1>5

LEMMA RecFacts ==
  ASSUME NEW k \in RecStages, NEW f
  PROVE  RecordFacts(RecAt(k, f))
  <1> DEFINE y == RecAt(k, f)  g == GroupAt(k, f)
  <1>1. \A h \in Recordings(y) : h = g
    BY RecordingsAre
  <1>2. \A c \in Copies(y) : c = CopyAt("s1")
    BY RecordingsAre DEF RecStages, RecEnded, RecFresh
  <1>3. copyFacts(CopyAt("s1"))
    BY CopiesAre
  <1>4. y.status = "succeeded" => y.result = {RecordedAt("succeeded", f)}
    BY RecParts
  <1>5. RecordedAt("succeeded", f).repair = {"not_needed"}
    BY DEF RecordedAt
  <1>6. /\ g["start"] = Part(RecStart(k)) /\ g["stop"] = Part(RecStop(k))
        /\ \A i \in DOMAIN g.followup : i = "s" /\ g.followup["s"] = FlowAt(f)
        /\ \A i \in DOMAIN g.emergency : i = "e" /\ g.emergency["e"] = Compulsion
    BY GroupIs
  <1> HIDE DEF y, g
  <1>7. \A i \in {"start", "stop"} : attempts(g[i].attempts, g[i].max)
    BY <1>6, PartIs, PartFacts
  <1>8. \A i \in DOMAIN g.followup : attempts(g.followup[i].attempts, g.followup[i].max)
    <2>1. FlowAt(f).attempts = Try(<<f>>) /\ FlowAt(f).max = 1
      BY PartIs
    <2>2. attempts(Try(<<f>>), 1)
      BY TheAttempts
    <2>3. attempts(FlowAt(f).attempts, FlowAt(f).max)
      BY <2>1, <2>2
    <2>4. \A i \in DOMAIN g.followup : g.followup[i] = FlowAt(f)
      BY <1>6
    <2> QED
      BY <2>3, <2>4, Zenon
  <1>9. \A i \in DOMAIN g.emergency : \A m \in g.emergency[i].max : g.emergency[i].used <= m
    BY <1>6, PartIs
  <1>10. y.status = "succeeded" =>
           \A x \in y.result : \A s \in x.repair : s \notin {"undetermined", "pending", "running"}
    BY <1>4, <1>5
  <1>11. RecordFacts(y)
    BY <1>1, <1>2, <1>3, <1>7, <1>8, <1>9, <1>10 DEF RecordFacts
  <1> QED
    BY <1>11 DEF y

LEMMA PartsGo ==
  ASSUME NEW k \in RecStages \ RecFresh, NEW l \in RecStages \ RecFresh, RecOrder(k, l)
  PROVE  /\ attemptHistory(Try(RecStart(k)), Try(RecStart(l)))
         /\ attemptHistory(Try(RecStop(k)), Try(RecStop(l)))
  <1>1. /\ RecStart("running") = <<"running">> /\ RecStart("again") = <<"failed", "running">>
        /\ RecStart("succeeded") = <<"succeeded">> /\ RecStart("failed") = <<"failed", "succeeded">>
        /\ RecStop("running") = <<>> /\ RecStop("again") = <<>>
        /\ RecStop("succeeded") = <<"succeeded">> /\ RecStop("failed") = <<"failed", "failed">>
    BY DEF RecStart, RecStop
  <1>2. k \in {"running", "again", "succeeded", "failed"}
    BY DEF RecStages, RecFresh
  <1>3. CASE k = l
    BY <1>1, <1>2, <1>3, AttemptsGo
  <1>4. CASE k = "running" /\ l \in {"again", "succeeded", "failed"}
    BY <1>1, <1>4, AttemptsGo
  <1>5. CASE k = "again" /\ l = "failed"
    BY <1>1, <1>5, AttemptsGo
  <1> QED
    BY <1>2, <1>3, <1>4, <1>5 DEF RecOrder

LEMMA RecGoes ==
  ASSUME NEW k \in RecStages, NEW l \in RecStages, RecOrder(k, l), NEW f, NEW h, f # "none" => h # "none"
  PROVE  RecordHistory(RecAt(k, f), RecAt(l, h)) /\ SameBudgets(RecAt(k, f), RecAt(l, h))
  <1> DEFINE x == RecAt(k, f)  y == RecAt(l, h)  g == GroupAt(k, f)  i == GroupAt(l, h)
  <1>1. \A j \in Recordings(x) : j = g /\ k \notin RecFresh
    BY RecordingsAre
  <1>2. k \notin RecFresh => l \notin RecFresh
    BY DEF RecStages, RecFresh, RecOrder
  <1>3. /\ l \notin RecFresh => i \in Recordings(y)
        /\ \A j \in Recordings(y) : j = i
    BY RecordingsAre
  <1>4. /\ g["start"] = Part(RecStart(k)) /\ g["stop"] = Part(RecStop(k))
        /\ i["start"] = Part(RecStart(l)) /\ i["stop"] = Part(RecStop(l))
        /\ g.start = Part(RecStart(k)) /\ g.stop = Part(RecStop(k))
        /\ i.start = Part(RecStart(l)) /\ i.stop = Part(RecStop(l))
        /\ DOMAIN g.followup \subseteq DOMAIN i.followup
    BY GroupIs
  <1>5. k \notin RecFresh /\ l \notin RecFresh => DOMAIN g.emergency \subseteq DOMAIN i.emergency
    BY GroupIs DEF RecOrder, RecFresh, RecStages
  <1>6. /\ \A c \in Copies(x) : c = CopyAt("s1") /\ k \in RecEnded
        /\ \A c \in Copies(y) : c = CopyAt("s1")
        /\ l \in RecEnded => CopyAt("s1") \in Copies(y)
    BY RecordingsAre DEF RecStages, RecEnded, RecFresh
  <1>7. k \in RecEnded => l \in RecEnded
    BY DEF RecOrder, RecEnded
  <1>8. copyHistory(CopyAt("s1"), CopyAt("s1"))
    BY CopiesGo DEF CopyOrder
  <1> HIDE DEF x, y, g, i
  <1>9. k \notin RecFresh /\ l \notin RecFresh =>
          \A j \in {"start", "stop"} :
            g[j].max = i[j].max /\ attemptHistory(g[j].attempts, i[j].attempts)
    BY <1>4, PartIs, PartsGo
  <1>10. \A j \in Recordings(x) : \E m \in Recordings(y) :
           /\ \A n \in {"start", "stop"} : j[n].max = m[n].max /\ attemptHistory(j[n].attempts, m[n].attempts)
           /\ DOMAIN j.followup \subseteq DOMAIN m.followup
           /\ DOMAIN j.emergency \subseteq DOMAIN m.emergency
    BY <1>1, <1>2, <1>3, <1>4, <1>5, <1>9
  <1>11. \A c \in Copies(x) : \E d \in Copies(y) : copyHistory(c, d)
    BY <1>6, <1>7, <1>8
  <1>12. RecordHistory(x, y)
    BY <1>10, <1>11 DEF RecordHistory
  <1>13. SameBudgets(x, y)
    BY <1>1, <1>3, <1>4, <1>6, PartIs DEF SameBudgets
  <1> QED
    BY <1>12, <1>13 DEF x, y

\* The results of a photograph.
LEMMA TakenIs ==
  /\ \A k : /\ k = "running" => TakenAt(k).count = {0}
            /\ k # "running" => TakenAt(k).count = {1}
            /\ TakenAt(k)["stop"] = {}
  /\ TakenAt("running")["start"] = {[max |-> 1, attempts |-> Try(<<>>)]}
  /\ TakenAt("succeeded")["start"] = {[max |-> 1, attempts |-> Try(<<"succeeded">>)]}
  BY DEF TakenAt

Tries(statuses) == [max |-> 1, attempts |-> Try(statuses)]
LEMMA TriesAre == \A s : Tries(s).max = 1 /\ Tries(s).attempts = Try(s)
  BY DEF Tries

ShotTries(k) == IF k = "running" THEN Tries(<<>>) ELSE Tries(<<"succeeded">>)
LEMMA ShotResult ==
  ASSUME NEW k \in {"pending", "running", "succeeded"}
  PROVE  /\ k = "pending" => ShotAt(k).result = {}
         /\ k # "pending" => ShotAt(k).result = {TakenAt(k)} /\ TakenAt(k)["start"] = {ShotTries(k)}
                             /\ TakenAt(k)["stop"] = {}
  <1>1. k = "running" => TakenAt(k)["start"] = {Tries(<<>>)}
    BY TakenIs DEF Tries
  <1>2. k = "succeeded" => TakenAt(k)["start"] = {Tries(<<"succeeded">>)}
    BY TakenIs DEF Tries
  <1> QED
    BY <1>1, <1>2, TakenIs, ShotParts DEF ShotTries

LEMMA ShotFacts ==
  ASSUME NEW k \in {"pending", "running", "succeeded"}
  PROVE  CaptureFacts(ShotAt(k))
  <1> DEFINE y == ShotAt(k)  t == ShotTries(k)
  <1>1. attempts(Try(<<>>), 1) /\ attempts(Try(<<"succeeded">>), 1)
    BY TheAttempts
  <1>2. attempts(t.attempts, t.max)
    BY <1>1, TriesAre DEF ShotTries
  <1>3. \A x \in y.result : x["start"] = {t} /\ x["stop"] = {}
    BY ShotResult
  <1> HIDE DEF y, t
  <1>4. CaptureFacts(y)
    BY <1>2, <1>3 DEF CaptureFacts
  <1> QED
    BY <1>4 DEF y

LEMMA ShotGoes ==
  ASSUME NEW k \in {"pending", "running", "succeeded"}, NEW l \in {"pending", "running", "succeeded"}, ShotOrder(k, l)
  PROVE  CaptureHistory(ShotAt(k), ShotAt(l))
  <1> DEFINE x == ShotAt(k)  y == ShotAt(l)  a == TakenAt(k)  b == TakenAt(l)  s == ShotTries(k)  t == ShotTries(l)
  <1>1. /\ k = "pending" => x.result = {}
        /\ k # "pending" => x.result = {a} /\ a["start"] = {s} /\ a["stop"] = {}
        /\ l # "pending" => y.result = {b} /\ b["start"] = {t} /\ b["stop"] = {}
    BY ShotResult
  <1>2. x.status = k
    BY ShotParts
  <1>3. (k # "pending" => l # "pending") /\ (Terminal(k) => l = k)
    BY DEF ShotOrder, Terminal
  <1>4. /\ (k = "running" => a.count = {0}) /\ (k # "running" => a.count = {1})
        /\ (l = "running" => b.count = {0}) /\ (l # "running" => b.count = {1})
    BY TakenIs
  <1>5. k # "pending" => \A n \in a.count : \E m \in b.count : m >= n
    <2>1. CASE l = "running"
      BY <1>4, <2>1 DEF ShotOrder
    <2>2. CASE l # "running"
      BY <1>4, <2>2 DEF ShotOrder
    <2> QED
      BY <2>1, <2>2
  <1>6. k # "pending" => t.max = s.max /\ attemptHistory(s.attempts, t.attempts)
    <2>1. attemptHistory(Try(<<>>), Try(<<>>)) /\ attemptHistory(Try(<<>>), Try(<<"succeeded">>))
          /\ attemptHistory(Try(<<"succeeded">>), Try(<<"succeeded">>))
      BY AttemptsGo
    <2> QED
      BY <2>1, TriesAre DEF ShotTries, ShotOrder
  <1>7. Terminal(x.status) => k # "pending" /\ x = y
    BY <1>2, <1>3 DEF Terminal
  <1> HIDE DEF x, y, a, b, s, t
  <1>8. CASE k = "pending"
    BY <1>1, <1>8 DEF CaptureHistory, x, y
  <1>9. CASE k # "pending"
    <2>1. x.result = {a} /\ y.result = {b} /\ a["start"] = {s} /\ a["stop"] = {} /\ b["start"] = {t} /\ b["stop"] = {}
      BY <1>1, <1>3, <1>9
    <2>2. Terminal(x.status) => x.result = y.result
      BY <1>7
    <2>3. \A i \in {"start", "stop"} : \A u \in a[i] :
            \E v \in b[i] : v.max = u.max /\ attemptHistory(u.attempts, v.attempts)
      BY <1>6, <1>9, <2>1
    <2>4. \A n \in a.count : \E m \in b.count : m >= n
      BY <1>5, <1>9
    <2>5. CaptureHistory(x, y)
      BY <2>1, <2>2, <2>3, <2>4 DEF CaptureHistory
    <2> QED
      BY <2>5 DEF x, y
  <1> QED
    BY <1>8, <1>9

\* The results of a retrieval.
LEMMA GetFailures ==
  ASSUME NEW k
  PROVE  /\ k = "failed" => Failures(GetAt(k)) = {Lost}
         /\ k # "failed" => Failures(GetAt(k)) = {}
  <1> DEFINE y == GetAt(k)
  <1>1. (k \in GetBegun => y.result = {IF k = "failed" THEN Losing ELSE Nothing}) /\ (k \notin GetBegun => y.result = {})
    BY GetParts
  <1>2. Losing.failures = {Lost} /\ Nothing.failures = {} /\ "failed" \in GetBegun
    BY DEF Losing, Nothing, GetBegun
  <1> HIDE DEF y
  <1>3. \A x : y.result = {x} => Failures(y) = x.failures
    BY DEF Failures
  <1>4. y.result = {} => Failures(y) = {}
    BY DEF Failures
  <1>5. k = "failed" => Failures(y) = {Lost}
    BY <1>1, <1>2, <1>3
  <1>6. k # "failed" => Failures(y) = {}
    BY <1>1, <1>2, <1>3, <1>4
  <1> QED
    BY <1>5, <1>6 DEF y
LEMMA LostIs == Lost.source = "rec" /\ Lost.output = {"o"} /\ Lost.delivery = {"d"} /\ Lost.error = "x"
  BY DEF Lost

\* The results of a deletion.
LEMMA DelItemsAre ==
  ASSUME NEW k, k # "pending"
  PROVE  DOMAIN Items(DelAt(k)) = {"o"} /\ Items(DelAt(k))["o"] = [status |-> k]
  <1> DEFINE y == DelAt(k)
  <1>1. y.result = {DelItems(k)}
    BY DelParts
  <1> HIDE DEF y
  <1>2. DOMAIN Items(y) = DOMAIN DelItems(k).items /\ \A x \in DOMAIN DelItems(k).items : Items(y)[x] = DelItems(k).items[x]
    BY <1>1, ItemsOf
  <1>3. DOMAIN DelItems(k).items = {"o"} /\ DelItems(k).items["o"] = [status |-> k]
    BY DEF DelItems
  <1> QED
    BY <1>2, <1>3 DEF y

LEMMA DelFacts ==
  ASSUME NEW k \in {"pending", "running", "succeeded", "failed"}
  PROVE  DeleteFacts(DelAt(k))
  <1> DEFINE y == DelAt(k)
  <1>1. CASE k = "pending"
    BY <1>1, DelParts DEF DeleteFacts
  <1>2. CASE k # "pending"
    <2>1. y.input = DelInput /\ y.status = k
      BY DelParts
    <2>2. DelInput.outputs = {<<"o">>}
      BY DEF DelInput, Asked
    <2>3. DOMAIN Items(y) = {"o"} /\ Items(y)["o"] = [status |-> k]
      BY <1>2, DelItemsAre
    <2>4. \A s : [status |-> s].status = s
      OBVIOUS
    <2> HIDE DEF y
    <2>5. \A list \in y.input.outputs : list = <<"o">>
      BY <2>1, <2>2
    <2>6. y.input.outputs # {}
      BY <2>1, <2>2
    <2>7. \E n \in 0 .. Len(<<"o">>) : DOMAIN Items(y) = {<<"o">>[i] : i \in 1 .. n}
      <3>1. Len(<<"o">>) = 1 /\ <<"o">>[1] = "o" /\ 1 .. 1 = {1} /\ 1 \in 0 .. 1
        OBVIOUS
      <3>2. {<<"o">>[i] : i \in 1 .. 1} = {"o"}
        BY <3>1
      <3> QED
        BY <2>3, <3>1, <3>2
    <2>8. Len(<<"o">>) > 0 /\ DOMAIN Items(y) = {<<"o">>[i] : i \in DOMAIN <<"o">>}
      <3>1. Len(<<"o">>) = 1 /\ <<"o">>[1] = "o" /\ DOMAIN <<"o">> = {1}
        OBVIOUS
      <3>2. {<<"o">>[i] : i \in {1}} = {"o"}
        BY <3>1
      <3> QED
        BY <2>3, <3>1, <3>2
    <2>9. y.status = "succeeded" => \A o \in DOMAIN Items(y) : Items(y)[o].status = "succeeded"
      BY <2>1, <2>3, <2>4
    <2>10. DeleteFacts(y)
      BY <2>5, <2>6, <2>7, <2>8, <2>9 DEF DeleteFacts
    <2> QED
      BY <2>10 DEF y
  <1> QED
    BY <1>1, <1>2

LEMMA DelGoes ==
  ASSUME NEW k \in {"pending", "running", "succeeded", "failed"}, NEW l \in {"pending", "running", "succeeded", "failed"},
         DelOrder(k, l)
  PROVE  itemHistory(Items(DelAt(k)), Items(DelAt(l)))
  <1> DEFINE f == Items(DelAt(k))  g == Items(DelAt(l))
  <1>1. \A s : [status |-> s].status = s
    OBVIOUS
  <1>2. /\ k = "pending" => DOMAIN f = {}
        /\ k # "pending" => DOMAIN f = {"o"} /\ f["o"] = [status |-> k]
        /\ l # "pending" => DOMAIN g = {"o"} /\ g["o"] = [status |-> l]
    BY DelItemsAre, DelParts, ItemsOf
  <1>3. (k # "pending" => l # "pending") /\ (Terminal(k) => l = k) /\ (k = "running" => l # "pending")
    BY DEF DelOrder, Terminal
  <1> HIDE DEF f, g
  <1>4. itemHistory(f, g)
    BY <1>1, <1>2, <1>3 DEF itemHistory
  <1> QED
    BY <1>4 DEF f, g

\* The results of a cancellation.
CutStages == {"pending", "running", "withdrawn", "left"}

LEMMA CutItemParts ==
  ASSUME NEW k, NEW f
  PROVE  LET w == [d \in f |-> [status |-> Withdrawal(k)]] IN
         DOMAIN w = f /\ \A d \in f : w[d].status = Withdrawal(k)
  <1>1. [status |-> Withdrawal(k)].status = Withdrawal(k)
    OBVIOUS
  <1> QED
    BY <1>1

LEMMA CutWithdraws ==
  ASSUME NEW k \in CutStages, k # "pending", NEW f
  PROVE  LET i == Items(CutAt(k, f)) IN
         /\ DOMAIN i = {"get"} /\ i["get"].status = CutStatus(k)
         /\ DOMAIN i["get"].withdrawals = f
         /\ \A d \in f : i["get"].withdrawals[d].status = Withdrawal(k)
  <1> DEFINE i == Items(CutAt(k, f))  w == [d \in f |-> [status |-> Withdrawal(k)]]
  <1>1. DOMAIN i = {"get"} /\ i["get"].status = CutStatus(k) /\ i["get"].withdrawals = w
    BY CutItemsAre
  <1>2. DOMAIN w = f /\ \A d \in f : w[d].status = Withdrawal(k)
    BY CutItemParts
  <1> HIDE DEF i, w
  <1>3. DOMAIN i["get"].withdrawals = f /\ \A d \in f : i["get"].withdrawals[d].status = Withdrawal(k)
    BY <1>1, <1>2
  <1> QED
    BY <1>1, <1>3 DEF i

LEMMA CutFacts ==
  ASSUME NEW k \in CutStages, NEW f
  PROVE  CancelFacts(CutAt(k, f))
  <1> DEFINE y == CutAt(k, f)
  <1>1. CASE k = "pending"
    BY <1>1, CutParts DEF CancelFacts
  <1>2. CASE k # "pending"
    <2>1. y.status = CutStatus(k)
      BY <1>2, CutParts
    <2>2. CutStatus(k) = "succeeded" => Withdrawal(k) \in {"withdrawn", "not_retractable"}
      BY <1>2 DEF CutStatus, Withdrawal, CutStages
    <2>3. /\ DOMAIN Items(y) = {"get"} /\ Items(y)["get"].status = CutStatus(k)
          /\ DOMAIN Items(y)["get"].withdrawals = f
          /\ \A d \in f : Items(y)["get"].withdrawals[d].status = Withdrawal(k)
      BY <1>2, CutWithdraws
    <2> HIDE DEF y
    <2>4. CancelFacts(y)
      BY <2>1, <2>2, <2>3 DEF CancelFacts
    <2> QED
      BY <2>4 DEF y
  <1> QED
    BY <1>1, <1>2

LEMMA CutGoes ==
  ASSUME NEW k \in CutStages, NEW l \in CutStages, NEW f, NEW h, CutOrder(k, l), k # "pending" => f = h
  PROVE  CancelHistory(Items(CutAt(k, f)), Items(CutAt(l, h)))
  <1> DEFINE i == Items(CutAt(k, f))  j == Items(CutAt(l, h))
  <1>1. CASE k = "pending"
    <2>1. DOMAIN i = {}
      BY <1>1, CutParts, ItemsOf
    <2> HIDE DEF i, j
    <2>2. CancelHistory(i, j)
      BY <2>1 DEF CancelHistory, itemHistory
    <2> QED
      BY <2>2 DEF i, j
  <1>2. CASE k # "pending"
    <2>1. l # "pending" /\ f = h
      BY <1>2 DEF CutOrder, CutStages
    <2>2. /\ DOMAIN i = {"get"} /\ i["get"].status = CutStatus(k)
          /\ DOMAIN i["get"].withdrawals = f
          /\ \A d \in f : i["get"].withdrawals[d].status = Withdrawal(k)
      BY <1>2, CutWithdraws
    <2>3. /\ DOMAIN j = {"get"} /\ j["get"].status = CutStatus(l)
          /\ DOMAIN j["get"].withdrawals = f
          /\ \A d \in f : j["get"].withdrawals[d].status = Withdrawal(l)
      BY <2>1, CutWithdraws
    <2>4. k = l => i = j
      BY <2>1
    <2>5. k # l => k = "running" /\ l \in {"withdrawn", "left"}
      BY <1>2 DEF CutOrder, CutStages
    <2>6. /\ k = "running" => CutStatus(k) = "running" /\ Withdrawal(k) = "pending"
          /\ l \in {"withdrawn", "left"} => CutStatus(l) = "succeeded" /\ Withdrawal(l) \in {"withdrawn", "not_retractable"}
          /\ CutStatus(k) # "pending"
      BY <1>2 DEF CutStatus, Withdrawal, CutStages
    <2> HIDE DEF i, j
    <2> DEFINE u == i["get"].withdrawals  v == j["get"].withdrawals
    <2>7. CASE k = l
      <3>2. itemHistory(i, i)
        BY <2>2, <2>6 DEF itemHistory
      <3>3. \A d \in f : u[d].status # "running"
        BY <2>2, <1>2 DEF Withdrawal
      <3>4. itemHistory(u, u)
        BY <2>2, <3>3 DEF itemHistory
      <3>5. CancelHistory(i, i)
        BY <2>2, <3>2, <3>4 DEF CancelHistory
      <3> QED
        BY <2>4, <2>7, <3>5 DEF i, j
    <2>8. CASE k # l
      <3>1. itemHistory(i, j)
        BY <2>2, <2>3, <2>5, <2>6, <2>8 DEF itemHistory, Terminal
      <3>2. itemHistory(u, v)
        BY <2>2, <2>3, <2>5, <2>6, <2>8 DEF itemHistory, Terminal
      <3>3. CancelHistory(i, j)
        BY <2>2, <3>1, <3>2 DEF CancelHistory
      <3> QED
        BY <3>3 DEF i, j
    <2> QED
      BY <2>7, <2>8
  <1> QED
    BY <1>1, <1>2

------------------------------------------------------------------------------
(* What holds of every report of one device, whatever it is joined with. *)

Five == {"rec", "get", "shot", "cut", "del"}
TypeOf(a) ==
  CASE a = "rec" -> "camera_record" [] a = "get" -> "obtain_action_outputs"
    [] a = "shot" -> "camera_take_photo" [] a = "cut" -> "cancel_task"
    [] OTHER -> "delete_action_outputs"
InputOf(a, i) ==
  CASE a \in {"rec", "shot"} -> Asked [] a = "get" -> i [] a = "cut" -> CutInput [] OTHER -> DelInput
PlanFor(a) == IF a \in Own("p") THEN "p" ELSE "q"
Identity(a, x, i) ==
  /\ x.plan = PlanFor(a) /\ x.name = a /\ x.type = TypeOf(a) /\ x.device = "cam"
  /\ x.group = (IF a = "rec" THEN {"g"} ELSE {}) /\ x.input = InputOf(a, i)

LEMMA ActionsAre ==
  ASSUME NEW k
  PROVE  /\ ActionAt(k, "rec") = RecAt(k.rec, k.flow) /\ ActionAt(k, "get") = GetAt(k.get)
         /\ ActionAt(k, "shot") = ShotAt(k.shot) /\ ActionAt(k, "cut") = CutAt(k.cut, k.known)
         /\ ActionAt(k, "del") = DelAt(k.del)
  BY DEF ActionAt

LEMMA ActionIdentity ==
  ASSUME NEW k, NEW a \in Five
  PROVE  Identity(a, ActionAt(k, a), GetInput(k.get))
  <1> DEFINE i == GetInput(k.get)
  <1>1. CASE a = "rec"
    <2> DEFINE y == RecAt(k.rec, k.flow)
    <2>1. y.plan = "p" /\ y.name = "rec" /\ y.type = "camera_record" /\ y.device = "cam" /\ y.group = {"g"} /\ y.input = Asked
      BY RecParts
    <2> HIDE DEF y, i
    <2>2. Identity("rec", y, i)
      BY <2>1 DEF Identity, PlanFor, Own, TypeOf, InputOf
    <2> QED
      BY <1>1, <2>2, ActionsAre DEF y, i
  <1>2. CASE a = "get"
    <2> DEFINE y == GetAt(k.get)
    <2>1. y.plan = "p" /\ y.name = "get" /\ y.type = "obtain_action_outputs" /\ y.device = "cam" /\ y.group = {} /\ y.input = i
      BY GetParts
    <2> HIDE DEF y, i
    <2>2. Identity("get", y, i)
      BY <2>1 DEF Identity, PlanFor, Own, TypeOf, InputOf
    <2> QED
      BY <1>2, <2>2, ActionsAre DEF y, i
  <1>3. CASE a = "shot"
    <2> DEFINE y == ShotAt(k.shot)
    <2>1. y.plan = "q" /\ y.name = "shot" /\ y.type = "camera_take_photo" /\ y.device = "cam" /\ y.group = {} /\ y.input = Asked
      BY ShotParts
    <2> HIDE DEF y, i
    <2>2. Identity("shot", y, i)
      BY <2>1 DEF Identity, PlanFor, Own, TypeOf, InputOf
    <2> QED
      BY <1>3, <2>2, ActionsAre DEF y, i
  <1>4. CASE a = "cut"
    <2> DEFINE y == CutAt(k.cut, k.known)
    <2>1. y.plan = "q" /\ y.name = "cut" /\ y.type = "cancel_task" /\ y.device = "cam" /\ y.group = {} /\ y.input = CutInput
      BY CutParts
    <2> HIDE DEF y, i
    <2>2. Identity("cut", y, i)
      BY <2>1 DEF Identity, PlanFor, Own, TypeOf, InputOf
    <2> QED
      BY <1>4, <2>2, ActionsAre DEF y, i
  <1>5. CASE a = "del"
    <2> DEFINE y == DelAt(k.del)
    <2>1. y.plan = "q" /\ y.name = "del" /\ y.type = "delete_action_outputs" /\ y.device = "cam" /\ y.group = {} /\ y.input = DelInput
      BY DelParts
    <2> HIDE DEF y, i
    <2>2. Identity("del", y, i)
      BY <2>1 DEF Identity, PlanFor, Own, TypeOf, InputOf
    <2> QED
      BY <1>5, <2>2, ActionsAre DEF y, i
  <1> QED
    BY <1>1, <1>2, <1>3, <1>4, <1>5 DEF Five

LEMMA InputsAre ==
  /\ HeldInput.source = {ByGroup} /\ HeldInput.outputs = {} /\ HeldInput.target = {} /\ HeldInput.valid
  /\ CutInput.target = {OfGet} /\ CutInput.valid /\ DelInput.outputs = {<<"o">>} /\ DelInput.valid
  /\ Asked.valid /\ ~BadInput.valid
  /\ ByGroup.action = {} /\ ByGroup.name = {} /\ ByGroup.group = {"g"} /\ ByGroup.plan = {}
  /\ OfGet.action = {"get"} /\ OfGet.plan = {} /\ OfGet.group = {} /\ OfGet.request = {}
  BY DEF HeldInput, CutInput, DelInput, BadInput, Asked, ByGroup, OfGet

\* What every version of an entity says.
LostOnly(x, i) == Failures(x) \subseteq {Lost} /\ (Failures(x) # {} => i = HeldInput)
CutsGet(x) ==
  DOMAIN Items(x) \subseteq {"get"} /\ \A b \in DOMAIN Items(x) : DOMAIN Items(x)[b].withdrawals \subseteq {"d"}
LastingAction(a, x, i) ==
  /\ a \in Five /\ Identity(a, x, i)
  /\ a = "get" => LostOnly(x, i)
  /\ a = "cut" => CutsGet(x)
LastingOutput(x) ==
  /\ x.parent = "rec" /\ x.source = "rec" /\ x.kind = "original" /\ x.derived = {}
  /\ x.size \subseteq TheSize /\ x.sha \subseteq TheSha
LastingDelivery(x) ==
  /\ x.parent = "get" /\ x.output = "o" /\ x.source = "rec" /\ x.file = "f"
  /\ x.size \subseteq TheSize /\ x.sha \subseteq TheSha
Lasting(r, i) ==
  /\ \A a \in DOMAIN r.actions : LastingAction(a, r.actions[a], i)
  /\ \A o \in DOMAIN r.outputs : o = "o" /\ LastingOutput(r.outputs[o])
  /\ \A d \in DOMAIN r.deliveries :
       d = "d" /\ LastingDelivery(r.deliveries[d]) /\ "get" \in DOMAIN r.actions /\ i = HeldInput
StopsRec(r, flows) ==
  \A f \in flows : f.kind = "followup" =>
    f.own.trigger = "shot" /\ f.parent = "rec" /\ "rec" \in DOMAIN r.actions

LEMMA LastingSelects ==
  ASSUME NEW r, NEW i, Lasting(r, i), i = HeldInput, "get" \in DOMAIN r.actions, NEW O
  PROVE  selected(r, "get", "rec", O)
  <1>1. /\ r.actions["get"].input = HeldInput /\ r.actions["get"].plan = "p"
        /\ "rec" \in DOMAIN r.actions =>
             r.actions["rec"].type = "camera_record" /\ r.actions["rec"].plan = "p" /\ r.actions["rec"].group = {"g"}
    BY DEF Lasting, LastingAction, Identity, InputOf, PlanFor, Own, TypeOf
  <1> QED
    BY <1>1, InputsAre DEF selected, Cameras

LEMMA LastingLinks ==
  ASSUME NEW r, NEW i, Lasting(r, i)
  PROVE  OutputLinks(r) /\ DeliveryLinks(r) /\ FailureFacts(r) /\ CancelLinks(r)
  <1>1. OutputLinks(r)
    BY DEF OutputLinks, Lasting, LastingOutput
  <1>2. \A a \in DOMAIN r.actions : a \in Five /\ r.actions[a].type = TypeOf(a)
    BY DEF Lasting, LastingAction, Identity
  <1>3. \A a \in Five : /\ TypeOf(a) = "obtain_action_outputs" => a = "get"
                        /\ TypeOf(a) = "cancel_task" => a = "cut"
                        /\ a = "rec" => TypeOf(a) \in Cameras
    BY DEF Five, TypeOf, Cameras
  <1>4. DeliveryLinks(r)
    <2> SUFFICES ASSUME NEW d \in DOMAIN r.deliveries
                 PROVE  LET x == r.deliveries[d] IN
                        /\ x.parent \in DOMAIN r.actions
                        /\ r.actions[x.parent].type = "obtain_action_outputs"
                        /\ selected(r, x.parent, x.source, {x.output})
                        /\ x.source \in DOMAIN r.actions => r.actions[x.source].type \in Cameras
                        /\ x.output \in DOMAIN r.outputs =>
                             LET o == r.outputs[x.output] IN
                             /\ o.source = x.source
                             /\ \A m \in x.size, n \in o.size : m = n
                             /\ \A m \in x.sha, n \in o.sha : m = n
      BY DEF DeliveryLinks
    <2> DEFINE x == r.deliveries[d]
    <2>1. /\ x.parent = "get" /\ x.output = "o" /\ x.source = "rec" /\ x.size \subseteq TheSize /\ x.sha \subseteq TheSha
          /\ "get" \in DOMAIN r.actions /\ i = HeldInput
      BY DEF Lasting, LastingDelivery
    <2>2. "o" \in DOMAIN r.outputs =>
            r.outputs["o"].source = "rec" /\ r.outputs["o"].size \subseteq TheSize /\ r.outputs["o"].sha \subseteq TheSha
      BY DEF Lasting, LastingOutput
    <2>3. selected(r, "get", "rec", {"o"})
      BY <2>1, LastingSelects
    <2>4. r.actions["get"].type = "obtain_action_outputs" /\ ("rec" \in DOMAIN r.actions => r.actions["rec"].type \in Cameras)
      BY <1>2, <1>3, <2>1 DEF TypeOf
    <2>5. /\ \A m \in x.size, n \in TheSize : m = n
          /\ \A m \in x.sha, n \in TheSha : m = n
      BY <2>1 DEF TheSize, TheSha
    <2> HIDE DEF x
    <2>6. /\ "o" \in DOMAIN r.outputs => \A m \in x.size, n \in r.outputs["o"].size : m = n
          /\ "o" \in DOMAIN r.outputs => \A m \in x.sha, n \in r.outputs["o"].sha : m = n
      BY <2>2, <2>5
    <2> QED
      BY <2>1, <2>2, <2>3, <2>4, <2>6 DEF x
  <1>5. FailureFacts(r)
    <2> SUFFICES ASSUME NEW a \in DOMAIN r.actions, r.actions[a].type = "obtain_action_outputs"
                 PROVE  /\ \A f, g \in Failures(r.actions[a]) :
                             (f.source = g.source /\ f.output = g.output /\ f.delivery = g.delivery) => f = g
                        /\ \A f \in Failures(r.actions[a]) :
                             /\ selected(r, a, f.source, f.output)
                             /\ \A o \in f.output \intersect DOMAIN r.outputs : r.outputs[o].source = f.source
                             /\ \A d \in f.delivery \intersect DOMAIN r.deliveries :
                                  LET x == r.deliveries[d]
                                  IN x.parent = a /\ f.output = {x.output} /\ x.source = f.source
      BY DEF FailureFacts
    <2>1. a = "get"
      BY <1>2, <1>3
    <2>2. LostOnly(r.actions["get"], i)
      BY <2>1 DEF Lasting, LastingAction
    <2> DEFINE F == Failures(r.actions["get"])
    <2>3. F \subseteq {Lost} /\ (F # {} => i = HeldInput)
      BY <2>2 DEF LostOnly
    <2> HIDE DEF F
    <2>4. F # {} => selected(r, "get", "rec", {"o"})
      BY <2>1, <2>3, LastingSelects
    <2>5. \A o \in DOMAIN r.outputs : r.outputs[o].source = "rec"
      BY DEF Lasting, LastingOutput
    <2>6. \A d \in DOMAIN r.deliveries :
            r.deliveries[d].parent = "get" /\ r.deliveries[d].output = "o" /\ r.deliveries[d].source = "rec"
      BY DEF Lasting, LastingDelivery
    <2>7. \A f \in F : f = Lost
      BY <2>3
    <2>8. \A f \in F : selected(r, "get", f.source, f.output)
      BY <2>4, <2>7, LostIs
    <2> QED
      BY <2>1, <2>5, <2>6, <2>7, <2>8, LostIs DEF F
  <1>6. CancelLinks(r)
    <2> SUFFICES ASSUME NEW a \in DOMAIN r.actions, r.actions[a].type = "cancel_task",
                        NEW b \in DOMAIN Items(r.actions[a])
                 PROVE  /\ r.actions[a].input.target # {}
                        /\ \A t \in r.actions[a].input.target :
                             /\ \A x \in t.action : x = b
                             /\ b \in DOMAIN r.actions =>
                                  LET known == r.actions[b] IN
                                  /\ \A p \in t.plan : p = known.plan
                                  /\ \A g \in t.group :
                                       known.group = {g} /\ known.type # "obtain_action_outputs"
                                  /\ known.plan \in DOMAIN r.plans =>
                                       \A q \in t.request : q = r.plans[known.plan].request
                        /\ \A d \in DOMAIN Items(r.actions[a])[b].withdrawals :
                             d \in DOMAIN r.deliveries => r.deliveries[d].parent = b
      BY DEF CancelLinks
    <2>1. a = "cut"
      BY <1>2, <1>3
    <2>2. r.actions[a].input = CutInput /\ CutsGet(r.actions[a])
      BY <2>1 DEF Lasting, LastingAction, Identity, InputOf
    <2>3. b = "get"
      BY <2>2 DEF CutsGet
    <2>4. \A d \in DOMAIN r.deliveries : r.deliveries[d].parent = "get"
      BY DEF Lasting, LastingDelivery
    <2> QED
      BY <2>2, <2>3, <2>4, InputsAre
  <1> QED
    BY <1>1, <1>4, <1>5, <1>6

LEMMA LastingAssociates ==
  ASSUME NEW r, NEW i, Lasting(r, i), NEW F, StopsRec(r, F)
  PROVE  associations(r, F)
  <1>1. /\ "rec" \in DOMAIN r.actions => r.actions["rec"].device = "cam"
        /\ "shot" \in DOMAIN r.actions =>
             r.actions["shot"].type = "camera_take_photo" /\ r.actions["shot"].device = "cam"
    BY DEF Lasting, LastingAction, Identity, TypeOf
  <1>2. FlowLinks(r, F)
    BY <1>1 DEF FlowLinks, StopsRec, Cameras
  <1> QED
    BY <1>2, LastingLinks DEF associations

LEMMA TogetherIs ==
  ASSUME NEW old, NEW next, Known(next)
  PROVE  LET r == Together(next, old) IN
         /\ r.actions = members(old.actions, next.actions)
         /\ r.outputs = members(old.outputs, next.outputs)
         /\ r.deliveries = members(old.deliveries, next.deliveries)
  <1> DEFINE a == members(old.plans, next.plans)
             b == members(old.actions, next.actions)
             c == members(old.outputs, next.outputs)
             d == members(old.deliveries, next.deliveries)
             r == Together(next, old)
  <1>1. r = [next EXCEPT !.plans = a, !.actions = b, !.outputs = c, !.deliveries = d]
    BY DEF Together
  <1> HIDE DEF a, b, c, d, r
  <1>2. r = Rep(next.from, next.to, a, b, c, d, next.diags)
    BY <1>1 DEF Known, Rep
  <1>3. r.actions = b /\ r.outputs = c /\ r.deliveries = d
    BY <1>2, Parts
  <1> QED
    BY <1>3 DEF a, b, c, d, r

\* Two reports of one device, the one's entities over the other's.
LEMMA LastingJoined ==
  ASSUME NEW i, NEW s, NEW t, NEW r, Lasting(s, i), Lasting(t, i),
         r.actions = members(s.actions, t.actions), r.outputs = members(s.outputs, t.outputs),
         r.deliveries = members(s.deliveries, t.deliveries)
  PROVE  /\ Lasting(r, i)
         /\ DOMAIN s.actions \subseteq DOMAIN r.actions /\ DOMAIN t.actions \subseteq DOMAIN r.actions
  <1>1. /\ DOMAIN r.actions = DOMAIN s.actions \union DOMAIN t.actions
        /\ \A e \in DOMAIN t.actions : r.actions[e] = t.actions[e]
        /\ \A e \in DOMAIN s.actions \ DOMAIN t.actions : r.actions[e] = s.actions[e]
    <2> DEFINE f == s.actions  g == t.actions  h == r.actions
    <2>1. h = members(f, g)
      OBVIOUS
    <2> HIDE DEF f, g, h
    <2>2. /\ DOMAIN h = DOMAIN f \union DOMAIN g
          /\ \A e \in DOMAIN g : h[e] = g[e]
          /\ \A e \in DOMAIN f \ DOMAIN g : h[e] = f[e]
      BY <2>1 DEF members
    <2> QED
      BY <2>2 DEF f, g, h
  <1>2. /\ DOMAIN r.outputs = DOMAIN s.outputs \union DOMAIN t.outputs
        /\ \A e \in DOMAIN t.outputs : r.outputs[e] = t.outputs[e]
        /\ \A e \in DOMAIN s.outputs \ DOMAIN t.outputs : r.outputs[e] = s.outputs[e]
    <2> DEFINE f == s.outputs  g == t.outputs  h == r.outputs
    <2>1. h = members(f, g)
      OBVIOUS
    <2> HIDE DEF f, g, h
    <2>2. /\ DOMAIN h = DOMAIN f \union DOMAIN g
          /\ \A e \in DOMAIN g : h[e] = g[e]
          /\ \A e \in DOMAIN f \ DOMAIN g : h[e] = f[e]
      BY <2>1 DEF members
    <2> QED
      BY <2>2 DEF f, g, h
  <1>3. /\ DOMAIN r.deliveries = DOMAIN s.deliveries \union DOMAIN t.deliveries
        /\ \A e \in DOMAIN t.deliveries : r.deliveries[e] = t.deliveries[e]
        /\ \A e \in DOMAIN s.deliveries \ DOMAIN t.deliveries : r.deliveries[e] = s.deliveries[e]
    <2> DEFINE f == s.deliveries  g == t.deliveries  h == r.deliveries
    <2>1. h = members(f, g)
      OBVIOUS
    <2> HIDE DEF f, g, h
    <2>2. /\ DOMAIN h = DOMAIN f \union DOMAIN g
          /\ \A e \in DOMAIN g : h[e] = g[e]
          /\ \A e \in DOMAIN f \ DOMAIN g : h[e] = f[e]
      BY <2>1 DEF members
    <2> QED
      BY <2>2 DEF f, g, h
  <1>4. \A a \in DOMAIN r.actions : LastingAction(a, r.actions[a], i)
    BY <1>1 DEF Lasting
  <1>5. \A o \in DOMAIN r.outputs : o = "o" /\ LastingOutput(r.outputs[o])
    BY <1>2 DEF Lasting
  <1>6. \A d \in DOMAIN r.deliveries :
          d = "d" /\ LastingDelivery(r.deliveries[d]) /\ "get" \in DOMAIN r.actions /\ i = HeldInput
    BY <1>1, <1>3 DEF Lasting
  <1> QED
    BY <1>1, <1>4, <1>5, <1>6 DEF Lasting

\* A report shows some entities of one stage of the course, each below the plan
\* and the action it belongs to.
SeenPlans(r, k) ==
  /\ DOMAIN r.plans \subseteq PlansAt(k)
  /\ \A p \in DOMAIN r.plans : r.plans[p] = PlanAt(Number(p), PlanStatus(k, p))
SeenActions(r, k) ==
  /\ DOMAIN r.actions \subseteq ActionsAt(k)
  /\ \A a \in DOMAIN r.actions : r.actions[a] = ActionAt(k, a) /\ r.actions[a].plan \in DOMAIN r.plans
SeenOutputs(r, k) ==
  /\ DOMAIN r.outputs \subseteq OutputsAt(k)
  /\ \A o \in DOMAIN r.outputs : r.outputs[o] = OutAt(k.clean, k.dig) /\ "rec" \in DOMAIN r.actions
SeenDeliveries(r, k) ==
  /\ DOMAIN r.deliveries \subseteq DeliveriesAt(k)
  /\ \A d \in DOMAIN r.deliveries : r.deliveries[d] = DlvAt(k.dlv, k.copy) /\ "get" \in DOMAIN r.actions
Seen(r, k) ==
  /\ Known(r) /\ Consistent(k)
  /\ SeenPlans(r, k) /\ SeenActions(r, k) /\ SeenOutputs(r, k) /\ SeenDeliveries(r, k) /\ LaidDiags(r)

LEMMA FiveActions == \A k : ActionsAt(k) \subseteq Five
  BY DEF ActionsAt, Five

LEMMA OutputLasts == \A k, g : LastingOutput(OutAt(k, g))
  <1> SUFFICES ASSUME NEW k, NEW g PROVE LastingOutput(OutAt(k, g))
    OBVIOUS
  <1> DEFINE y == OutAt(k, g)
  <1>1. /\ y.parent = "rec" /\ y.source = "rec" /\ y.kind = "original" /\ y.derived = {}
        /\ g = "plain" => y.size = {} /\ y.sha = {}
        /\ g # "plain" => y.size = TheSize /\ y.sha = TheSha
    BY OutParts
  <1> HIDE DEF y
  <1>2. y.size \subseteq TheSize /\ y.sha \subseteq TheSha
    BY <1>1
  <1> QED
    BY <1>1, <1>2 DEF LastingOutput, y

LEMMA DeliveryLasts == \A s, c : LastingDelivery(DlvAt(s, c))
  <1> SUFFICES ASSUME NEW s, NEW c PROVE LastingDelivery(DlvAt(s, c))
    OBVIOUS
  <1> DEFINE y == DlvAt(s, c)
  <1>1. /\ y.parent = "get" /\ y.output = "o" /\ y.source = "rec" /\ y.file = "f"
        /\ c \notin Whole => y.size = {} /\ y.sha = {}
        /\ c \in Whole => y.size = TheSize /\ y.sha = TheSha
    BY DlvParts
  <1> HIDE DEF y
  <1>2. y.size \subseteq TheSize /\ y.sha \subseteq TheSha
    BY <1>1
  <1> QED
    BY <1>1, <1>2 DEF LastingDelivery, y

\* A retrieval that was refused is never taken up, and the other way round.
LEMMA InputStays ==
  ASSUME NEW k, NEW l, Consistent(k), Consistent(l), Before(k, l) \/ Before(l, k), k.get # "absent", l.get # "absent"
  PROVE  /\ GetInput(k.get) = GetInput(l.get)
         /\ k.get \in GetBegun => GetInput(l.get) = HeldInput
  <1>1. k.get = "inadmissible" <=> l.get = "inadmissible"
    BY DEF Before, GetOrder, GetBegun
  <1> QED
    BY <1>1 DEF GetInput, GetBegun

LEMMA DeliveryBegan ==
  ASSUME NEW k, Consistent(k), k.dlv # "absent"
  PROVE  k.get \in GetBegun
  BY DEF Consistent, GetBegun

LEMMA ActionLasts ==
  ASSUME NEW k, NEW l, Consistent(k), Consistent(l), Before(k, l) \/ Before(l, k),
         NEW a \in ActionsAt(k), a \in ActionsAt(l)
  PROVE  LastingAction(a, ActionAt(k, a), GetInput(l.get))
  <1> DEFINE i == GetInput(l.get)  j == GetInput(k.get)  y == ActionAt(k, a)
  <1>1. a \in Five
    BY FiveActions
  <1>2. Identity(a, y, j)
    BY <1>1, ActionIdentity
  <1>3. a = "get" => k.get # "absent" /\ l.get # "absent"
    BY DEF ActionsAt, Consistent
  <1>4. a = "get" => i = j
    BY <1>3, InputStays
  <1>5. a = "get" => LostOnly(y, i)
    <2> SUFFICES ASSUME a = "get" PROVE LostOnly(y, i)
      OBVIOUS
    <2>1. y = GetAt(k.get)
      BY ActionsAre
    <2>2. k.get = "failed" => i = HeldInput
      BY <1>3, InputStays DEF GetBegun
    <2>3. /\ k.get = "failed" => Failures(GetAt(k.get)) = {Lost}
          /\ k.get # "failed" => Failures(GetAt(k.get)) = {}
      BY GetFailures
    <2> HIDE DEF y, i
    <2> QED
      BY <2>1, <2>2, <2>3 DEF LostOnly
  <1>6. a = "cut" => CutsGet(y)
    <2> SUFFICES ASSUME a = "cut" PROVE CutsGet(y)
      OBVIOUS
    <2>1. y = CutAt(k.cut, k.known) /\ k.cut \in CutStages /\ k.known \subseteq {"d"}
      BY ActionsAre DEF ActionsAt, Consistent, Course, CutStages
    <2>2. CASE k.cut = "pending"
      <3>1. DOMAIN Items(CutAt(k.cut, k.known)) = {}
        BY <2>2, CutParts, ItemsOf
      <3> HIDE DEF y
      <3> QED
        BY <2>1, <3>1 DEF CutsGet
    <2>3. CASE k.cut # "pending"
      <3>1. DOMAIN Items(CutAt(k.cut, k.known)) = {"get"} /\ DOMAIN Items(CutAt(k.cut, k.known))["get"].withdrawals = k.known
        BY <2>1, <2>3, CutWithdraws
      <3> HIDE DEF y
      <3> QED
        BY <2>1, <3>1 DEF CutsGet
    <2> QED
      BY <2>2, <2>3
  <1> HIDE DEF i, j, y
  <1>7. Identity(a, y, i)
    BY <1>1, <1>2, <1>4 DEF Identity, InputOf
  <1> QED
    BY <1>1, <1>5, <1>6, <1>7 DEF LastingAction, y, i

\* What the device knows, it keeps.
LEMMA KeptKnown ==
  ASSUME NEW k, NEW l, Consistent(k), Consistent(l), Before(k, l)
  PROVE  /\ PlansAt(k) \subseteq PlansAt(l) /\ ActionsAt(k) \subseteq ActionsAt(l)
         /\ OutputsAt(k) \subseteq OutputsAt(l) /\ DeliveriesAt(k) \subseteq DeliveriesAt(l)
  <1>1. /\ k.rec # "absent" => l.rec # "absent"
        /\ k.shot # "absent" => l.shot # "absent"
        /\ k.clean # "absent" => l.clean # "absent"
        /\ k.dlv # "absent" => l.dlv # "absent"
    BY DEF Before, RecOrder, ShotOrder, DlvOrder
  <1> QED
    BY <1>1 DEF PlansAt, ActionsAt, OutputsAt, DeliveriesAt

LEMMA SeenLasts ==
  ASSUME NEW r, NEW k, NEW l, Seen(r, k), Consistent(l), Before(k, l)
  PROVE  Lasting(r, GetInput(l.get))
  <1> DEFINE i == GetInput(l.get)
  <1>1. Consistent(k) /\ SeenActions(r, k) /\ SeenOutputs(r, k) /\ SeenDeliveries(r, k)
    BY DEF Seen
  <1>2. ActionsAt(k) \subseteq ActionsAt(l)
    BY <1>1, KeptKnown
  <1>3. ASSUME NEW a \in DOMAIN r.actions PROVE LastingAction(a, r.actions[a], i)
    <2>1. a \in ActionsAt(k) /\ a \in ActionsAt(l) /\ r.actions[a] = ActionAt(k, a)
      BY <1>1, <1>2 DEF SeenActions
    <2>2. LastingAction(a, ActionAt(k, a), i)
      BY <1>1, <2>1, ActionLasts
    <2> QED
      BY <2>1, <2>2
  <1>4. \A o \in DOMAIN r.outputs : o = "o" /\ LastingOutput(r.outputs[o])
    BY <1>1, OutputLasts DEF SeenOutputs, OutputsAt
  <1>5. ASSUME NEW d \in DOMAIN r.deliveries
        PROVE  d = "d" /\ LastingDelivery(r.deliveries[d]) /\ "get" \in DOMAIN r.actions /\ i = HeldInput
    <2>1. d = "d" /\ k.dlv # "absent" /\ r.deliveries[d] = DlvAt(k.dlv, k.copy) /\ "get" \in DOMAIN r.actions
      BY <1>1 DEF SeenDeliveries, DeliveriesAt
    <2>2. k.get \in GetBegun
      BY <1>1, <2>1, DeliveryBegan
    <2>3. k.get # "absent" /\ l.get # "absent"
      BY <2>2 DEF GetBegun, Before, GetOrder
    <2>4. i = HeldInput
      BY <1>1, <2>2, <2>3, InputStays
    <2>5. LastingDelivery(r.deliveries[d])
      BY <2>1, DeliveryLasts
    <2> QED
      BY <2>1, <2>4, <2>5
  <1> HIDE DEF i
  <1>6. Lasting(r, i)
    BY <1>3, <1>4, <1>5 DEF Lasting
  <1> QED
    BY <1>6 DEF i

\* The flows that stop a recording.
StopFlow(f) == [id |-> "s", parent |-> "rec", kind |-> "followup", own |-> FlowAt(f)]
ForceFlow == [id |-> "e", parent |-> "rec", kind |-> "emergency", own |-> Compulsion]

LEMMA FlowParts ==
  /\ \A f : LET x == StopFlow(f) IN x.id = "s" /\ x.parent = "rec" /\ x.kind = "followup" /\ x.own = FlowAt(f)
  /\ ForceFlow.id = "e" /\ ForceFlow.parent = "rec" /\ ForceFlow.kind = "emergency" /\ ForceFlow.own = Compulsion
  <1>1. \A f : LET x == StopFlow(f) IN x.id = "s" /\ x.parent = "rec" /\ x.kind = "followup" /\ x.own = FlowAt(f)
    BY DEF StopFlow
  <1>2. ForceFlow.id = "e" /\ ForceFlow.parent = "rec" /\ ForceFlow.kind = "emergency" /\ ForceFlow.own = Compulsion
    BY DEF ForceFlow
  <1> QED
    BY <1>1, <1>2

SomeFlow(f, k) == (k.flow # "none" /\ f = StopFlow(k.flow)) \/ (k.rec = "failed" /\ f = ForceFlow)

LEMMA FlowsAre ==
  ASSUME NEW r, NEW k, Seen(r, k), NEW f \in Flows(r)
  PROVE  "rec" \in DOMAIN r.actions /\ SomeFlow(f, k)
  <1>1. \A a \in DOMAIN r.actions : r.actions[a] = ActionAt(k, a) /\ a \in Five
    BY FiveActions DEF Seen, SeenActions
  <1>2. \A a \in DOMAIN r.actions : r.actions[a].type = "camera_record" => a = "rec"
    <2> SUFFICES ASSUME NEW a \in DOMAIN r.actions, r.actions[a].type = "camera_record" PROVE a = "rec"
      OBVIOUS
    <2>1. a \in Five /\ r.actions[a] = ActionAt(k, a)
      BY <1>1
    <2>2. ActionAt(k, a).type = TypeOf(a)
      BY <2>1, ActionIdentity DEF Identity
    <2> QED
      BY <2>1, <2>2 DEF TypeOf, Five
  <1>3. PICK a \in DOMAIN r.actions : \E g \in Recordings(r.actions[a]) :
          /\ r.actions[a].type = "camera_record"
          /\ \/ \E i \in DOMAIN g.followup : f = [id |-> i, parent |-> a, kind |-> "followup", own |-> g.followup[i]]
             \/ \E i \in DOMAIN g.emergency : f = [id |-> i, parent |-> a, kind |-> "emergency", own |-> g.emergency[i]]
    BY DEF Flows
  <1>4. a = "rec" /\ "rec" \in DOMAIN r.actions
    BY <1>2, <1>3
  <1>5. r.actions["rec"] = RecAt(k.rec, k.flow)
    BY <1>1, <1>4, ActionsAre
  <1> DEFINE h == GroupAt(k.rec, k.flow)
  <1>6. \A g \in Recordings(r.actions["rec"]) : g = h
    BY <1>5, RecordingsAre
  <1>7. /\ k.flow = "none" => DOMAIN h.followup = {}
        /\ k.flow # "none" => DOMAIN h.followup = {"s"} /\ h.followup["s"] = FlowAt(k.flow)
        /\ k.rec = "failed" => DOMAIN h.emergency = {"e"} /\ h.emergency["e"] = Compulsion
        /\ k.rec # "failed" => DOMAIN h.emergency = {}
    BY GroupIs
  <1> HIDE DEF h
  <1>8. CASE \E i \in DOMAIN h.followup : f = [id |-> i, parent |-> "rec", kind |-> "followup", own |-> h.followup[i]]
    <2>1. PICK i \in DOMAIN h.followup : f = [id |-> i, parent |-> "rec", kind |-> "followup", own |-> h.followup[i]]
      BY <1>8
    <2>2. k.flow # "none" /\ i = "s" /\ h.followup[i] = FlowAt(k.flow)
      BY <1>7, <2>1
    <2>3. f = StopFlow(k.flow)
      BY <2>1, <2>2 DEF StopFlow
    <2> QED
      BY <1>4, <2>2, <2>3 DEF SomeFlow
  <1>9. CASE \E i \in DOMAIN h.emergency : f = [id |-> i, parent |-> "rec", kind |-> "emergency", own |-> h.emergency[i]]
    <2>1. PICK i \in DOMAIN h.emergency : f = [id |-> i, parent |-> "rec", kind |-> "emergency", own |-> h.emergency[i]]
      BY <1>9
    <2>2. k.rec = "failed" /\ i = "e" /\ h.emergency[i] = Compulsion
      BY <1>7, <2>1
    <2>3. f = ForceFlow
      BY <2>1, <2>2 DEF ForceFlow
    <2> QED
      BY <1>4, <2>2, <2>3 DEF SomeFlow
  <1> QED
    BY <1>3, <1>4, <1>6, <1>8, <1>9

LEMMA FlowsStop ==
  ASSUME NEW r, NEW k, Seen(r, k)
  PROVE  StopsRec(r, Flows(r))
  <1> SUFFICES ASSUME NEW f \in Flows(r), f.kind = "followup"
               PROVE  f.own.trigger = "shot" /\ f.parent = "rec" /\ "rec" \in DOMAIN r.actions
    BY DEF StopsRec
  <1>1. "rec" \in DOMAIN r.actions /\ f = StopFlow(k.flow)
    BY FlowsAre, FlowParts DEF SomeFlow
  <1>2. f.own = FlowAt(k.flow) /\ f.parent = "rec"
    BY <1>1, FlowParts
  <1> QED
    BY <1>1, <1>2, PartIs

LEMMA JoinedFlowsStop ==
  ASSUME NEW s, NEW t, NEW r, NEW k, NEW l, Seen(s, k), Seen(t, l),
         DOMAIN s.actions \subseteq DOMAIN r.actions, DOMAIN t.actions \subseteq DOMAIN r.actions
  PROVE  StopsRec(r, FlowsOf(t, s))
  <1>1. StopsRec(s, Flows(s)) /\ StopsRec(t, Flows(t))
    BY FlowsStop
  <1>2. \A f \in FlowsOf(t, s) : f \in Flows(t) \/ f \in Flows(s)
    BY DEF FlowsOf
  <1> QED
    BY <1>1, <1>2 DEF StopsRec

\* Whatever two reports of one device are put together, their entities agree.
LEMMA ReportsAssociate ==
  ASSUME NEW s, NEW t, NEW k, NEW l, Seen(s, k), Seen(t, l), Before(k, l)
  PROVE  /\ associations(Together(t, s), FlowsOf(t, s))
         /\ associations(Together(s, t), FlowsOf(s, t))
  <1> DEFINE i == GetInput(l.get)  x == Together(t, s)  y == Together(s, t)
  <1>1. Known(s) /\ Known(t) /\ Consistent(l) /\ Before(l, l)
    BY BeforeItself DEF Seen
  <1>2. Lasting(s, i) /\ Lasting(t, i)
    BY <1>1, SeenLasts
  <1>3. /\ x.actions = members(s.actions, t.actions) /\ x.outputs = members(s.outputs, t.outputs)
        /\ x.deliveries = members(s.deliveries, t.deliveries)
    BY <1>1, TogetherIs
  <1>4. /\ y.actions = members(t.actions, s.actions) /\ y.outputs = members(t.outputs, s.outputs)
        /\ y.deliveries = members(t.deliveries, s.deliveries)
    BY <1>1, TogetherIs
  <1> HIDE DEF i, x, y
  <1>5. Lasting(x, i) /\ DOMAIN s.actions \subseteq DOMAIN x.actions /\ DOMAIN t.actions \subseteq DOMAIN x.actions
    BY <1>2, <1>3, LastingJoined
  <1>6. Lasting(y, i) /\ DOMAIN s.actions \subseteq DOMAIN y.actions /\ DOMAIN t.actions \subseteq DOMAIN y.actions
    BY <1>2, <1>4, LastingJoined
  <1>7. StopsRec(x, FlowsOf(t, s)) /\ StopsRec(y, FlowsOf(s, t))
    BY <1>5, <1>6, JoinedFlowsStop
  <1>8. associations(x, FlowsOf(t, s))
    BY <1>5, <1>7, LastingAssociates
  <1>9. associations(y, FlowsOf(s, t))
    BY <1>6, <1>7, LastingAssociates
  <1> QED
    BY <1>8, <1>9 DEF x, y

------------------------------------------------------------------------------
(* Every report of one device is consistent with itself. *)

LEMMA PlanCovers ==
  ASSUME NEW k, NEW a \in Five
  PROVE  LET s == PlanStatus(k, PlanFor(a)) IN
         /\ a \in Own(PlanFor(a))
         /\ s = "completed" => Terminal(ActionAt(k, a).status)
         /\ s = "pending" => ~ActionAt(k, a).started
  <1>1. a \in Own(PlanFor(a))
    BY DEF PlanFor, Own, Five
  <1> DEFINE O == Own(PlanFor(a))
  <1>2. a \in O
    BY <1>1
  <1> HIDE DEF O
  <1> DEFINE s == IF \A b \in O : Terminal(ActionAt(k, b).status) THEN "completed"
                  ELSE IF \E b \in O : ActionAt(k, b).started THEN "running" ELSE "pending"
  <1>3. s = "completed" => Terminal(ActionAt(k, a).status)
    BY <1>2
  <1>4. s = "pending" => ~ActionAt(k, a).started
    BY <1>2
  <1>5. s = PlanStatus(k, PlanFor(a))
    BY DEF PlanStatus, O
  <1> HIDE DEF s
  <1> QED
    BY <1>1, <1>3, <1>4, <1>5

\* The stages of the actions that are there.
LEMMA StagesAre ==
  ASSUME NEW k, Consistent(k)
  PROVE  /\ "rec" \in ActionsAt(k) => k.rec \in RecStages
         /\ "get" \in ActionsAt(k) => k.get \in {"pending", "canceled", "inadmissible"} \union GetBegun
         /\ "shot" \in ActionsAt(k) => k.shot \in {"pending", "running", "succeeded"}
         /\ "cut" \in ActionsAt(k) => k.cut \in CutStages
         /\ "del" \in ActionsAt(k) => k.del \in {"pending", "running", "succeeded", "failed"}
  BY DEF Consistent, Course, ActionsAt, RecStages, CutStages

LEMMA ActionResults ==
  ASSUME NEW k, Consistent(k), NEW a \in ActionsAt(k)
  PROVE  ResultFacts(ActionAt(k, a))
  <1> DEFINE y == ActionAt(k, a)
  <1>1. a \in Five /\ y.type = TypeOf(a)
    BY FiveActions, ActionIdentity DEF Identity
  <1>2. CASE a = "rec"
    <2>1. RecordFacts(y)
      BY <1>2, ActionsAre, StagesAre, RecFacts
    <2> HIDE DEF y
    <2>2. ResultFacts(y)
      BY <1>1, <1>2, <2>1 DEF ResultFacts, TypeOf
    <2> QED
      BY <2>2 DEF y
  <1>3. CASE a = "get"
    <2>1. y = GetAt(k.get) /\ k.get \in {"pending", "canceled", "inadmissible"} \union GetBegun
      BY <1>3, ActionsAre, StagesAre
    <2>2. y.status = GetStatus(k.get)
      BY <2>1, GetParts
    <2>3. y.status = "succeeded" => k.get = "succeeded"
      BY <2>1, <2>2 DEF GetStatus, GetBegun
    <2>4. k.get = "succeeded" => y.result # {} /\ Failures(y) = {}
      BY <2>1, GetParts, GetFailures DEF GetBegun
    <2> HIDE DEF y
    <2>5. ResultFacts(y)
      BY <1>1, <1>3, <2>3, <2>4 DEF ResultFacts, TypeOf, Cameras
    <2> QED
      BY <2>5 DEF y
  <1>4. CASE a = "shot"
    <2>1. CaptureFacts(y)
      BY <1>4, ActionsAre, StagesAre, ShotFacts
    <2> HIDE DEF y
    <2>2. ResultFacts(y)
      BY <1>1, <1>4, <2>1 DEF ResultFacts, TypeOf, Cameras
    <2> QED
      BY <2>2 DEF y
  <1>5. CASE a = "cut"
    <2>1. CancelFacts(y)
      BY <1>5, ActionsAre, StagesAre, CutFacts
    <2> HIDE DEF y
    <2>2. ResultFacts(y)
      BY <1>1, <1>5, <2>1 DEF ResultFacts, TypeOf, Cameras
    <2> QED
      BY <2>2 DEF y
  <1>6. CASE a = "del"
    <2>1. DeleteFacts(y)
      BY <1>6, ActionsAre, StagesAre, DelFacts
    <2> HIDE DEF y
    <2>2. ResultFacts(y)
      BY <1>1, <1>6, <2>1 DEF ResultFacts, TypeOf, Cameras
    <2> QED
      BY <2>2 DEF y
  <1> QED
    BY <1>1, <1>2, <1>3, <1>4, <1>5, <1>6 DEF Five

\* An action that has not started has no result, output or delivery.
Quiet(y, k, a) ==
  /\ Inadmissible(y) \/ y.input.valid
  /\ ~y.started => y.result = {} /\ (a = "rec" => k.clean = "absent") /\ (a = "get" => k.dlv = "absent")
  /\ y.expired = {"window_missed"} => ~y.started
  /\ y.expired # {"window_exhausted"}

LEMMA ActionQuiet ==
  ASSUME NEW k, Consistent(k), NEW a \in ActionsAt(k)
  PROVE  Quiet(ActionAt(k, a), k, a)
  <1> DEFINE y == ActionAt(k, a)
  <1>1. a \in Five
    BY FiveActions
  <1>2. CASE a = "rec"
    <2>1. y = RecAt(k.rec, k.flow) /\ k.rec \in RecStages
      BY <1>2, ActionsAre, StagesAre
    <2>2. /\ y.input = Asked /\ (y.started <=> k.rec \notin {"pending", "expired"})
          /\ (k.rec \in {"pending", "expired"} => y.result = {})
          /\ y.expired = (IF k.rec = "expired" THEN {"window_missed"} ELSE {})
      BY <2>1, RecParts
    <2>3. k.rec \in {"pending", "expired"} => k.clean = "absent"
      BY DEF Consistent, RecEnded
    <2> HIDE DEF y
    <2>4. y.expired = {"window_missed"} => k.rec = "expired"
      BY <2>2
    <2>5. y.expired # {"window_exhausted"}
      BY <2>2
    <2>6. Quiet(y, k, a)
      BY <1>2, <2>2, <2>3, <2>4, <2>5, InputsAre DEF Quiet
    <2> QED
      BY <2>6 DEF y
  <1>3. CASE a = "get"
    <2>1. y = GetAt(k.get)
      BY <1>3, ActionsAre
    <2>2. /\ y.input = GetInput(k.get) /\ y.status = GetStatus(k.get) /\ (y.started <=> k.get \in GetBegun)
          /\ k.get = "inadmissible" => y.error = {[stage |-> "admission"]}
          /\ (k.get \notin GetBegun => y.result = {}) /\ y.expired = {}
      BY <2>1, GetParts
    <2>3. k.get \notin GetBegun => k.dlv = "absent"
      BY DeliveryBegan
    <2>4. [stage |-> "admission"].stage = "admission"
      OBVIOUS
    <2> HIDE DEF y
    <2>5. k.get = "inadmissible" => Inadmissible(y)
      BY <2>2, <2>4 DEF Inadmissible, GetStatus, GetBegun
    <2>6. k.get # "inadmissible" => y.input.valid
      BY <2>2, InputsAre DEF GetInput
    <2>7. Quiet(y, k, a)
      BY <1>3, <2>2, <2>3, <2>5, <2>6 DEF Quiet
    <2> QED
      BY <2>7 DEF y
  <1>4. CASE a = "shot"
    <2>1. y = ShotAt(k.shot)
      BY <1>4, ActionsAre
    <2>2. /\ y.input = Asked /\ (y.started <=> k.shot # "pending") /\ y.expired = {}
          /\ (k.shot = "pending" => y.result = {})
      BY <2>1, ShotParts
    <2> HIDE DEF y
    <2>3. Quiet(y, k, a)
      BY <1>4, <2>2, InputsAre DEF Quiet
    <2> QED
      BY <2>3 DEF y
  <1>5. CASE a = "cut"
    <2>1. y = CutAt(k.cut, k.known)
      BY <1>5, ActionsAre
    <2>2. /\ y.input = CutInput /\ (y.started <=> k.cut # "pending") /\ y.expired = {}
          /\ (k.cut = "pending" => y.result = {})
      BY <2>1, CutParts
    <2> HIDE DEF y
    <2>3. Quiet(y, k, a)
      BY <1>5, <2>2, InputsAre DEF Quiet
    <2> QED
      BY <2>3 DEF y
  <1>6. CASE a = "del"
    <2>1. y = DelAt(k.del)
      BY <1>6, ActionsAre
    <2>2. /\ y.input = DelInput /\ (y.started <=> k.del # "pending") /\ y.expired = {}
          /\ (k.del = "pending" => y.result = {})
      BY <2>1, DelParts
    <2> HIDE DEF y
    <2>3. Quiet(y, k, a)
      BY <1>6, <2>2, InputsAre DEF Quiet
    <2> QED
      BY <2>3 DEF y
  <1> QED
    BY <1>1, <1>2, <1>3, <1>4, <1>5, <1>6 DEF Five

LEMMA SeenAction ==
  ASSUME NEW r, NEW k, Seen(r, k), NEW a \in DOMAIN r.actions
  PROVE  ActionFacts(r, a)
  <1> DEFINE x == r.actions[a]  plan == r.plans[x.plan]
  <1>1. /\ Consistent(k) /\ a \in ActionsAt(k) /\ x = ActionAt(k, a) /\ x.plan \in DOMAIN r.plans
        /\ \A p \in DOMAIN r.plans : r.plans[p] = PlanAt(Number(p), PlanStatus(k, p))
    BY DEF Seen, SeenActions, SeenPlans
  <1>2. a \in Five /\ x.plan = PlanFor(a)
    BY <1>1, FiveActions, ActionIdentity DEF Identity
  <1>3. plan.status = PlanStatus(k, PlanFor(a))
    BY <1>1, <1>2, PlanIs
  <1>4. /\ plan.status = "completed" => Terminal(x.status)
        /\ plan.status = "pending" => ~x.started
    BY <1>1, <1>2, <1>3, PlanCovers
  <1>5. Quiet(x, k, a) /\ ResultFacts(x)
    BY <1>1, ActionQuiet, ActionResults
  <1>6. /\ \A o \in DOMAIN r.outputs : r.outputs[o].parent = "rec" /\ k.clean # "absent"
        /\ \A d \in DOMAIN r.deliveries : r.deliveries[d].parent = "get" /\ k.dlv # "absent"
    BY OutParts, DlvParts DEF Seen, SeenOutputs, SeenDeliveries, OutputsAt, DeliveriesAt
  <1>7. ~x.started => NotStarted(r, a)
    BY <1>5, <1>6 DEF Quiet, NotStarted
  <1> HIDE DEF x, plan
  <1>8. /\ Inadmissible(x) \/ x.input.valid
        /\ ~x.started => NotStarted(r, a)
        /\ plan.status = "completed" => Terminal(x.status)
        /\ plan.status = "pending" => ~x.started
        /\ x.expired = {"window_missed"} => ~x.started
        /\ x.expired = {"window_exhausted"} => x.started
        /\ ResultFacts(x)
    BY <1>4, <1>5, <1>7 DEF Quiet
  <1> QED
    BY <1>8 DEF ActionFacts, x, plan

LEMMA PlanNumbers ==
  /\ \A n, s : PlanAt(n, s).request = n /\ PlanAt(n, s).seq = n /\ PlanAt(n, s).head = n
  /\ \A p, q \in {"p", "q"} : p # q => Number(p) # Number(q)
  <1>1. \A n, s : PlanAt(n, s).request = n /\ PlanAt(n, s).seq = n /\ PlanAt(n, s).head = n
    BY DEF PlanAt
  <1>2. \A p, q \in {"p", "q"} : p # q => Number(p) # Number(q)
    BY DEF Number
  <1> QED
    BY <1>1, <1>2

LEMMA SeenPlan ==
  ASSUME NEW r, NEW k, Seen(r, k), NEW p \in DOMAIN r.plans
  PROVE  LET x == r.plans[p] IN
         /\ p \in {"p", "q"} /\ x.request = Number(p) /\ x.seq = Number(p) /\ x.head = Number(p)
         /\ x.status = PlanStatus(k, p)
  <1>1. r.plans[p] = PlanAt(Number(p), PlanStatus(k, p)) /\ p \in {"p", "q"}
    BY DEF Seen, SeenPlans, PlansAt
  <1> QED
    BY <1>1, PlanNumbers, PlanIs

LEMMA SeenIndex ==
  ASSUME NEW r, NEW k, Seen(r, k)
  PROVE  indexReport(r)
  <1>1. \A p, q \in DOMAIN r.plans : p # q =>
          r.plans[p].request # r.plans[q].request /\ r.plans[p].seq # r.plans[q].seq
    BY SeenPlan, PlanNumbers
  <1>2. \A a \in DOMAIN r.actions : r.actions[a].name = a
    BY FiveActions, ActionIdentity DEF Seen, SeenActions, Identity
  <1>3. \A f, g \in Flows(r) : f.id = g.id => f = g
    <2> SUFFICES ASSUME NEW f \in Flows(r), NEW g \in Flows(r), f.id = g.id PROVE f = g
      OBVIOUS
    <2>1. SomeFlow(f, k) /\ SomeFlow(g, k)
      BY FlowsAre
    <2> QED
      BY <2>1, FlowParts DEF SomeFlow
  <1>4. \A f, g \in {x \in Flows(r) : x.kind = "followup"} :
          (f # g /\ f.parent = g.parent) => f.own.trigger # g.own.trigger
    <2> SUFFICES ASSUME NEW f \in Flows(r), NEW g \in Flows(r), f.kind = "followup", g.kind = "followup"
                 PROVE  f = g
      OBVIOUS
    <2>1. SomeFlow(f, k) /\ SomeFlow(g, k)
      BY FlowsAre
    <2> QED
      BY <2>1, FlowParts DEF SomeFlow
  <1>5. \A o \in DOMAIN r.outputs : r.outputs[o].source = r.outputs[o].parent
    BY OutParts DEF Seen, SeenOutputs
  <1>6. \A d \in DOMAIN r.deliveries : d = "d"
    BY DEF Seen, SeenDeliveries, DeliveriesAt
  <1> QED
    BY <1>1, <1>2, <1>3, <1>4, <1>5, <1>6 DEF indexReport

LEMMA SeenOutput ==
  ASSUME NEW r, NEW k, Seen(r, k), NEW o \in DOMAIN r.outputs
  PROVE  (r.outputs[o].availability = "restricted")
           <=> (r.outputs[o].cleanup \in {"pending", "running", "incomplete"})
  <1> DEFINE x == r.outputs[o]
  <1>1. x = OutAt(k.clean, k.dig) /\ Consistent(k) /\ o \in OutputsAt(k)
    BY DEF Seen, SeenOutputs
  <1>2. k.clean \in {"not_requested", "running", "completed", "incomplete"}
    BY <1>1 DEF Consistent, Course, OutputsAt
  <1>3. /\ x.cleanup = k.clean
        /\ x.availability = (IF k.clean = "not_requested" THEN "available"
                             ELSE IF k.clean = "completed" THEN "cleaned" ELSE "restricted")
    BY <1>1, OutParts
  <1> HIDE DEF x
  <1>4. x.availability = "restricted" <=> k.clean \in {"running", "incomplete"}
    BY <1>2, <1>3
  <1> QED
    BY <1>2, <1>3, <1>4 DEF x

LEMMA SeenDelivery ==
  ASSUME NEW r, NEW k, Seen(r, k), NEW d \in DOMAIN r.deliveries
  PROVE  DeliveryFacts(r.deliveries[d])
  <1> DEFINE x == r.deliveries[d]
  <1>1. x = DlvAt(k.dlv, k.copy) /\ Consistent(k) /\ k.dlv # "absent"
    BY DEF Seen, SeenDeliveries, DeliveriesAt
  <1>2. /\ x.status = k.dlv /\ x.copy = CopyAt(k.copy) /\ (k.copy \in Whole => x.size = TheSize)
    BY <1>1, DlvParts
  <1>3. k.copy \in {"c0", "c1", "c2", "s1", "s2", "f2"}
    BY <1>1 DEF Consistent, Course
  <1>4. k.dlv \in Complete => k.copy \in Whole
    BY <1>1 DEF Consistent, Complete
  <1>5. copyFacts(CopyAt(k.copy))
    BY <1>3, CopiesAre
  <1>6. \A c \in Whole : CopyAt(c).committed = 2 /\ CopyAt(c).source = {}
    BY CopyRounds, CopyingParts DEF Whole
  <1> HIDE DEF x
  <1>7. x.status \in Complete => x.size = {x.copy.committed} /\ x.copy.source = {}
    BY <1>2, <1>4, <1>6 DEF TheSize
  <1>8. DeliveryFacts(x)
    BY <1>2, <1>5, <1>7 DEF DeliveryFacts
  <1> QED
    BY <1>8 DEF x

\* The results and the deliveries of two stages of the course.
LEMMA FailuresLink ==
  ASSUME NEW s, NEW t, NEW k, NEW l, Seen(s, k), Seen(t, l), NEW a \in Int, NEW b \in Int,
         a <= b => Before(k, l), b <= a => Before(l, k)
  PROVE  failureLinks(s, a, t, b)
  <1> SUFFICES ASSUME NEW e \in DOMAIN s.actions, s.actions[e].type = "obtain_action_outputs"
               PROVE  /\ \A f \in Failures(s.actions[e]) : \A d \in f.delivery \intersect DOMAIN t.deliveries :
                           LET x == t.deliveries[d] IN
                           IF x.status = "failed" THEN x.error = {f.error}
                           ELSE x.status \in Unfinished /\ b < a
                      /\ \A d \in DOMAIN t.deliveries :
                           (t.deliveries[d].parent = e /\ t.deliveries[d].status = "failed" /\ a >= b)
                             => \E f \in Failures(s.actions[e]) : f.delivery = {d}
    BY DEF failureLinks
  <1>1. e \in Five /\ s.actions[e] = ActionAt(k, e) /\ Consistent(k) /\ Consistent(l)
    BY FiveActions DEF Seen, SeenActions
  <1>2. e = "get"
    <2>1. ActionAt(k, e).type = TypeOf(e)
      BY <1>1, ActionIdentity DEF Identity
    <2> QED
      BY <1>1, <2>1 DEF TypeOf, Five
  <1>3. s.actions[e] = GetAt(k.get)
    BY <1>1, <1>2, ActionsAre
  <1> DEFINE F == Failures(s.actions[e])
  <1>4. (k.get = "failed" => F = {Lost}) /\ (k.get # "failed" => F = {})
    BY <1>3, GetFailures
  <1>5. \A d \in DOMAIN t.deliveries : d = "d" /\ t.deliveries[d] = DlvAt(l.dlv, l.copy) /\ l.dlv # "absent"
    BY DEF Seen, SeenDeliveries, DeliveriesAt
  <1>6. \A d \in DOMAIN t.deliveries :
          t.deliveries[d].status = l.dlv /\ (l.dlv = "failed" => t.deliveries[d].error = {"x"})
    BY <1>5, DlvParts
  <1>7. k.get = "failed" => k.dlv = "failed"
    BY <1>1 DEF Consistent, GetBegun
  <1>8. k.dlv = "failed" => k.get = "failed"
    BY <1>1 DEF Consistent, Unfinished
  <1> HIDE DEF F
  <1>9. ASSUME NEW f \in F, NEW d \in f.delivery \intersect DOMAIN t.deliveries
        PROVE  IF t.deliveries[d].status = "failed" THEN t.deliveries[d].error = {f.error}
               ELSE t.deliveries[d].status \in Unfinished /\ b < a
    <2>1. f = Lost /\ k.dlv = "failed"
      BY <1>4, <1>7, <1>9
    <2>2. CASE l.dlv = "failed"
      BY <1>6, <1>9, <2>1, <2>2, LostIs
    <2>3. CASE l.dlv # "failed"
      <3>1. a <= b => FALSE
        BY <2>1, <2>3 DEF Before, DlvOrder
      <3>2. b < a
        BY <3>1
      <3>3. Before(l, k) /\ l.dlv # "absent"
        BY <1>5, <1>9, <3>2
      <3>4. l.dlv \in Unfinished
        BY <2>1, <2>3, <3>3 DEF Before, DlvOrder, Unfinished
      <3> QED
        BY <1>6, <1>9, <2>3, <3>2, <3>4
    <2> QED
      BY <2>2, <2>3
  <1>10. ASSUME NEW d \in DOMAIN t.deliveries, t.deliveries[d].status = "failed", a >= b
         PROVE  \E f \in F : f.delivery = {d}
    <2>1. l.dlv = "failed" /\ d = "d" /\ Before(l, k)
      BY <1>5, <1>6, <1>10
    <2>2. k.dlv = "failed"
      BY <2>1 DEF Before, DlvOrder
    <2> QED
      BY <1>4, <1>8, <2>1, <2>2, LostIs
  <1> QED
    BY <1>9, <1>10 DEF F

LEMMA SeenOwn ==
  ASSUME NEW r, NEW k, Seen(r, k), r.from <= r.to, r.to \in Int
  PROVE  ownFacts(r)
  <1>1. Consistent(k) /\ Before(k, k)
    BY BeforeItself DEF Seen
  <1>2. associations(r, Flows(r))
    BY <1>1, SeenLasts, FlowsStop, LastingAssociates
  <1>3. failureLinks(r, r.to, r, r.to)
    BY <1>1, FailuresLink
  <1>4. \A a \in DOMAIN r.actions : ActionFacts(r, a)
    BY SeenAction
  <1>5. \A o \in DOMAIN r.outputs :
          (r.outputs[o].availability = "restricted")
            <=> (r.outputs[o].cleanup \in {"pending", "running", "incomplete"})
    BY SeenOutput
  <1>6. \A d \in DOMAIN r.deliveries : DeliveryFacts(r.deliveries[d])
    BY SeenDelivery
  <1>7. indexReport(r)
    BY SeenIndex
  <1> QED
    BY <1>2, <1>3, <1>4, <1>5, <1>6, <1>7 DEF ownFacts

------------------------------------------------------------------------------
(* A later report of one device is consistent with an earlier one. *)

LEMMA ActionGoes ==
  ASSUME NEW k, NEW l, Consistent(k), Consistent(l), Before(k, l), NEW a \in ActionsAt(k)
  PROVE  LET x == ActionAt(k, a)  y == ActionAt(l, a) IN
         /\ actionResultHistory(x, y)
         /\ a = "rec" => SameBudgets(x, y)
         /\ Terminal(x.status) => y.status = x.status
         /\ x.status = "running" => y.status # "pending"
         /\ x.started => y.started
  <1> DEFINE x == ActionAt(k, a)  y == ActionAt(l, a)
  <1>1. a \in ActionsAt(l)
    BY KeptKnown
  <1>2. a \in Five /\ x.type = TypeOf(a)
    BY FiveActions, ActionIdentity DEF Identity
  <1> SUFFICES /\ actionResultHistory(x, y)
               /\ a = "rec" => SameBudgets(x, y)
               /\ Terminal(x.status) => y.status = x.status
               /\ x.status = "running" => y.status # "pending"
               /\ x.started => y.started
    OBVIOUS
  <1>3. CASE a = "rec"
    <2>1. /\ x = RecAt(k.rec, k.flow) /\ y = RecAt(l.rec, l.flow)
          /\ k.rec \in RecStages /\ l.rec \in RecStages
      BY <1>1, <1>3, ActionsAre, StagesAre
    <2>2. RecOrder(k.rec, l.rec) /\ (k.flow # "none" => l.flow # "none")
      BY DEF Before, FlowOrder
    <2>3. RecordHistory(x, y) /\ SameBudgets(x, y)
      BY <2>1, <2>2, RecGoes
    <2>4. /\ x.status = (IF k.rec = "again" THEN "running" ELSE k.rec) /\ (x.started <=> k.rec \notin {"pending", "expired"})
          /\ y.status = (IF l.rec = "again" THEN "running" ELSE l.rec) /\ (y.started <=> l.rec \notin {"pending", "expired"})
      BY <2>1, RecParts
    <2> HIDE DEF x, y
    <2>5. actionResultHistory(x, y)
      BY <1>2, <1>3, <2>3 DEF actionResultHistory, TypeOf
    <2>6. /\ Terminal(x.status) => y.status = x.status
          /\ x.status = "running" => y.status # "pending"
          /\ x.started => y.started
      BY <2>1, <2>2, <2>4 DEF RecOrder, RecStages, Terminal
    <2> QED
      BY <2>3, <2>5, <2>6
  <1>4. CASE a = "get"
    <2>1. /\ x = GetAt(k.get) /\ y = GetAt(l.get) /\ k.get # "absent"
          /\ l.get \in {"pending", "canceled", "inadmissible"} \union GetBegun
      BY <1>1, <1>4, ActionsAre, StagesAre DEF GetBegun
    <2>2. GetOrder(k.get, l.get)
      BY DEF Before
    <2>3. /\ x.status = GetStatus(k.get) /\ (x.started <=> k.get \in GetBegun)
          /\ y.status = GetStatus(l.get) /\ (y.started <=> l.get \in GetBegun)
      BY <2>1, GetParts
    <2>4. Failures(x) \subseteq Failures(y)
      BY <2>1, <2>2, GetFailures DEF GetOrder
    <2> HIDE DEF x, y
    <2>5. actionResultHistory(x, y)
      BY <1>2, <1>4, <2>4 DEF actionResultHistory, TypeOf, Cameras
    <2>6. /\ Terminal(x.status) => y.status = x.status
          /\ x.status = "running" => y.status # "pending"
          /\ x.started => y.started
      BY <2>1, <2>2, <2>3 DEF GetOrder, GetStatus, GetBegun, Terminal
    <2> QED
      BY <1>4, <2>5, <2>6
  <1>5. CASE a = "shot"
    <2>1. /\ x = ShotAt(k.shot) /\ y = ShotAt(l.shot)
          /\ k.shot \in {"pending", "running", "succeeded"} /\ l.shot \in {"pending", "running", "succeeded"}
      BY <1>1, <1>5, ActionsAre, StagesAre
    <2>2. ShotOrder(k.shot, l.shot)
      BY DEF Before
    <2>3. /\ x.status = k.shot /\ (x.started <=> k.shot # "pending")
          /\ y.status = l.shot /\ (y.started <=> l.shot # "pending")
      BY <2>1, ShotParts
    <2>4. CaptureHistory(x, y)
      BY <2>1, <2>2, ShotGoes
    <2> HIDE DEF x, y
    <2>5. actionResultHistory(x, y)
      BY <1>2, <1>5, <2>4 DEF actionResultHistory, TypeOf, Cameras
    <2>6. /\ Terminal(x.status) => y.status = x.status
          /\ x.status = "running" => y.status # "pending"
          /\ x.started => y.started
      BY <2>1, <2>2, <2>3 DEF ShotOrder, Terminal
    <2> QED
      BY <1>5, <2>5, <2>6
  <1>6. CASE a = "cut"
    <2>1. /\ x = CutAt(k.cut, k.known) /\ y = CutAt(l.cut, l.known) /\ k.cut \in CutStages /\ l.cut \in CutStages
      BY <1>1, <1>6, ActionsAre, StagesAre
    <2>2. CutOrder(k.cut, l.cut) /\ (k.cut # "pending" => k.known = l.known)
      BY <2>1 DEF Before, CutStages
    <2>3. /\ x.status = (IF k.cut = "pending" THEN k.cut ELSE CutStatus(k.cut)) /\ (x.started <=> k.cut # "pending")
          /\ y.status = (IF l.cut = "pending" THEN l.cut ELSE CutStatus(l.cut)) /\ (y.started <=> l.cut # "pending")
      BY <2>1, CutParts
    <2>4. CancelHistory(Items(x), Items(y))
      BY <2>1, <2>2, CutGoes
    <2> HIDE DEF x, y
    <2>5. actionResultHistory(x, y)
      BY <1>2, <1>6, <2>4 DEF actionResultHistory, TypeOf, Cameras
    <2>6. /\ Terminal(x.status) => y.status = x.status
          /\ x.status = "running" => y.status # "pending"
          /\ x.started => y.started
      BY <2>1, <2>2, <2>3 DEF CutOrder, CutStages, CutStatus, Terminal
    <2> QED
      BY <1>6, <2>5, <2>6
  <1>7. CASE a = "del"
    <2>1. /\ x = DelAt(k.del) /\ y = DelAt(l.del)
          /\ k.del \in {"pending", "running", "succeeded", "failed"} /\ l.del \in {"pending", "running", "succeeded", "failed"}
      BY <1>1, <1>7, ActionsAre, StagesAre
    <2>2. DelOrder(k.del, l.del)
      BY DEF Before
    <2>3. /\ x.status = k.del /\ (x.started <=> k.del # "pending")
          /\ y.status = l.del /\ (y.started <=> l.del # "pending")
      BY <2>1, DelParts
    <2>4. itemHistory(Items(x), Items(y))
      BY <2>1, <2>2, DelGoes
    <2> HIDE DEF x, y
    <2>5. actionResultHistory(x, y)
      BY <1>2, <1>7, <2>4 DEF actionResultHistory, TypeOf, Cameras
    <2>6. /\ Terminal(x.status) => y.status = x.status
          /\ x.status = "running" => y.status # "pending"
          /\ x.started => y.started
      BY <2>1, <2>2, <2>3 DEF DelOrder, Terminal
    <2> QED
      BY <1>7, <2>5, <2>6
  <1> QED
    BY <1>2, <1>3, <1>4, <1>5, <1>6, <1>7 DEF Five

LEMMA PlanGoes ==
  ASSUME NEW k, NEW l, Consistent(k), Consistent(l), Before(k, l), NEW p \in PlansAt(k)
  PROVE  /\ PlanStatus(k, p) = "completed" => PlanStatus(l, p) = "completed"
         /\ PlanStatus(k, p) = "running" => PlanStatus(l, p) # "pending"
         /\ PlanStatus(k, p) \in {"pending", "running", "completed"}
  <1>1. \A a \in Own(p) : a \in ActionsAt(k)
    BY DEF PlansAt, Own, ActionsAt
  <1>2. \A a \in Own(p) : /\ Terminal(ActionAt(k, a).status) => ActionAt(l, a).status = ActionAt(k, a).status
                          /\ ActionAt(k, a).started => ActionAt(l, a).started
    BY <1>1, ActionGoes
  <1>3. (\A a \in Own(p) : Terminal(ActionAt(k, a).status)) => \A a \in Own(p) : Terminal(ActionAt(l, a).status)
    BY <1>2
  <1>4. (\E a \in Own(p) : ActionAt(k, a).started) => \E a \in Own(p) : ActionAt(l, a).started
    BY <1>2
  <1> QED
    BY <1>3, <1>4 DEF PlanStatus

LEMMA FlowsGo ==
  ASSUME NEW s, NEW t, NEW k, NEW l, Seen(s, k), Seen(t, l), Before(k, l), NEW v
  PROVE  FlowHistory(s, t, v)
  <1> SUFFICES ASSUME NEW f \in Flows(s), NEW g \in Flows(t), f.id = g.id
               PROVE  /\ f.parent = g.parent /\ f.kind = g.kind
                      /\ f.kind = "emergency" => f = g
                      /\ f.kind = "followup" =>
                           /\ unchanged(f.own, g.own, {"trigger", "max"})
                           /\ attemptHistory(f.own.attempts, g.own.attempts)
                           /\ Terminal(f.own.status) => unchanged(f.own, g.own, {"status", "error"})
    BY DEF FlowHistory
  <1>1. SomeFlow(f, k) /\ SomeFlow(g, l)
    BY FlowsAre
  <1>2. CASE f.id = "e"
    <2>1. f = ForceFlow /\ g = ForceFlow
      BY <1>1, <1>2, FlowParts DEF SomeFlow
    <2> QED
      BY <2>1, FlowParts
  <1>3. CASE f.id # "e"
    <2>1. f = StopFlow(k.flow) /\ g = StopFlow(l.flow) /\ k.flow # "none"
      BY <1>1, <1>3, FlowParts DEF SomeFlow
    <2>2. /\ f.parent = "rec" /\ f.kind = "followup" /\ f.own = FlowAt(k.flow)
          /\ g.parent = "rec" /\ g.kind = "followup" /\ g.own = FlowAt(l.flow)
      BY <2>1, FlowParts
    <2> DEFINE x == FlowAt(k.flow)  y == FlowAt(l.flow)
    <2>3. /\ x["trigger"] = "shot" /\ x["max"] = 1 /\ x.attempts = Try(<<k.flow>>) /\ x["status"] = k.flow /\ x["error"] = {}
          /\ y["trigger"] = "shot" /\ y["max"] = 1 /\ y.attempts = Try(<<l.flow>>) /\ y["status"] = l.flow /\ y["error"] = {}
      BY PartIs
    <2>4. k.flow \in {"running", "succeeded"} /\ (k.flow = "succeeded" => l.flow = "succeeded")
      BY <2>1 DEF Before, FlowOrder, Seen, Consistent, Course
    <2>5. attemptHistory(Try(<<k.flow>>), Try(<<l.flow>>))
      BY <2>4, AttemptsGo
    <2> HIDE DEF x, y
    <2>6. unchanged(x, y, {"trigger", "max"})
      BY <2>3 DEF unchanged
    <2>7. Terminal(x.status) => unchanged(x, y, {"status", "error"})
      BY <2>3, <2>4 DEF unchanged, Terminal
    <2>8. attemptHistory(x.attempts, y.attempts)
      BY <2>3, <2>5
    <2>9. f.own = x /\ g.own = y /\ f.parent = g.parent /\ f.kind = g.kind /\ f.kind = "followup"
      BY <2>2 DEF x, y
    <2> QED
      BY <2>6, <2>7, <2>8, <2>9
  <1> QED
    BY <1>2, <1>3

LEMMA PlansGo ==
  ASSUME NEW s, NEW t, NEW k, NEW l, Seen(s, k), Seen(t, l), Before(k, l), NEW v
  PROVE  PlanHistory(s, t, v)
  <1> SUFFICES ASSUME NEW q \in DOMAIN t.plans, NEW p \in DOMAIN s.plans
               PROVE  IF p = q THEN
                        /\ unchanged(s.plans[p], t.plans[p], {"request", "seq", "head"})
                        /\ \/ s.plans[p].status = "pending"
                           \/ s.plans[p].status = "running" /\ t.plans[p].status # "pending"
                           \/ t.plans[p].status = "completed"
                      ELSE s.plans[p].request # t.plans[q].request /\ s.plans[p].seq # t.plans[q].seq
    BY DEF PlanHistory
  <1> DEFINE x == s.plans[p]  y == t.plans[q]
  <1>1. /\ p \in {"p", "q"} /\ x.request = Number(p) /\ x.seq = Number(p) /\ x.head = Number(p)
        /\ x.status = PlanStatus(k, p)
    BY SeenPlan
  <1>2. /\ q \in {"p", "q"} /\ y.request = Number(q) /\ y.seq = Number(q) /\ y.head = Number(q)
        /\ y.status = PlanStatus(l, q)
    BY SeenPlan
  <1>3. p \in PlansAt(k) /\ Consistent(k) /\ Consistent(l)
    BY DEF Seen, SeenPlans
  <1>4. /\ PlanStatus(k, p) = "completed" => PlanStatus(l, p) = "completed"
        /\ PlanStatus(k, p) = "running" => PlanStatus(l, p) # "pending"
        /\ PlanStatus(k, p) \in {"pending", "running", "completed"}
    BY <1>3, PlanGoes
  <1>5. p # q => Number(p) # Number(q)
    BY <1>1, <1>2, PlanNumbers
  <1> HIDE DEF x, y
  <1>6. p = q => unchanged(x, y, {"request", "seq", "head"})
    BY <1>1, <1>2 DEF unchanged
  <1>7. p = q => (x.status = "pending" \/ (x.status = "running" /\ y.status # "pending") \/ y.status = "completed")
    BY <1>1, <1>2, <1>4
  <1>8. p # q => x.request # y.request /\ x.seq # y.seq
    BY <1>1, <1>2, <1>5
  <1> QED
    BY <1>6, <1>7, <1>8 DEF x, y

LEMMA ActionsGo ==
  ASSUME NEW s, NEW t, NEW k, NEW l, Seen(s, k), Seen(t, l), Before(k, l), NEW v
  PROVE  ActionHistory(s, t, v)
  <1> SUFFICES ASSUME NEW a \in DOMAIN s.actions \intersect DOMAIN t.actions
               PROVE  LET x == s.actions[a]  y == t.actions[a] IN
                      /\ x.plan = y.plan
                      /\ unchanged(x, y, {"name", "type", "device", "group", "input"})
                      /\ x.type = "camera_record" => SameBudgets(x, y)
                      /\ ActionAdvances(x, y)
    BY DEF ActionHistory
  <1> DEFINE x == s.actions[a]  y == t.actions[a]  i == GetInput(l.get)
  <1>1. /\ Consistent(k) /\ Consistent(l) /\ a \in ActionsAt(k) /\ a \in ActionsAt(l)
        /\ x = ActionAt(k, a) /\ y = ActionAt(l, a)
    BY DEF Seen, SeenActions
  <1>2. LastingAction(a, x, i) /\ LastingAction(a, y, i)
    BY <1>1, ActionLasts, BeforeItself
  <1>3. /\ actionResultHistory(x, y)
        /\ a = "rec" => SameBudgets(x, y)
        /\ Terminal(x.status) => y.status = x.status
        /\ x.status = "running" => y.status # "pending"
        /\ x.started => y.started
    BY <1>1, ActionGoes
  <1> HIDE DEF x, y, i
  <1>4. Identity(a, x, i) /\ Identity(a, y, i) /\ a \in Five
    BY <1>2 DEF LastingAction
  <1>5. x.type = "camera_record" => a = "rec"
    BY <1>4 DEF Identity, TypeOf, Five
  <1>6. x.plan = y.plan /\ unchanged(x, y, {"name", "type", "device", "group", "input"})
    BY <1>4 DEF Identity, unchanged
  <1>7. ActionAdvances(x, y)
    BY <1>3 DEF ActionAdvances
  <1> QED
    BY <1>3, <1>5, <1>6, <1>7 DEF x, y

LEMMA OutputsGo ==
  ASSUME NEW s, NEW t, NEW k, NEW l, Seen(s, k), Seen(t, l), Before(k, l), NEW v
  PROVE  OutputHistory(s, t, v)
  <1> SUFFICES ASSUME NEW o \in DOMAIN s.outputs \intersect DOMAIN t.outputs
               PROVE  LET x == s.outputs[o]  y == t.outputs[o] IN
                      /\ unchanged(x, y, {"parent", "source", "kind", "derived"})
                      /\ x.size \subseteq y.size /\ x.sha \subseteq y.sha
                      /\ x.cleanup = "completed" => y.cleanup = "completed"
    BY DEF OutputHistory
  <1> DEFINE x == s.outputs[o]  y == t.outputs[o]
  <1>1. x = OutAt(k.clean, k.dig) /\ y = OutAt(l.clean, l.dig) /\ Consistent(k) /\ Consistent(l)
    BY DEF Seen, SeenOutputs
  <1>2. /\ x.parent = "rec" /\ x.source = "rec" /\ x.kind = "original" /\ x.derived = {} /\ x.cleanup = k.clean
        /\ y.parent = "rec" /\ y.source = "rec" /\ y.kind = "original" /\ y.derived = {} /\ y.cleanup = l.clean
        /\ k.dig = "plain" => x.size = {} /\ x.sha = {}
        /\ k.dig # "plain" => x.size = TheSize /\ x.sha = TheSha
        /\ l.dig # "plain" => y.size = TheSize /\ y.sha = TheSha
    BY <1>1, OutParts
  <1>3. k.dig \in {"plain", "hashed"} /\ (k.dig = "hashed" => l.dig = "hashed")
    BY <1>1 DEF Consistent, Course, Before
  <1>4. k.clean = "completed" => l.clean = "completed"
    <2> SUFFICES ASSUME k.clean = "completed" PROVE l.clean = "completed"
      OBVIOUS
    <2>1. k.rec \in RecEnded /\ k.del = "succeeded"
      BY <1>1 DEF Consistent, Cleaning
    <2>2. l.rec \in RecEnded /\ l.del = "succeeded"
      BY <2>1 DEF Before, RecOrder, DelOrder, RecEnded
    <2> QED
      BY <1>1, <2>2 DEF Consistent, Cleaning
  <1> HIDE DEF x, y
  <1>5. x.size \subseteq y.size /\ x.sha \subseteq y.sha
    BY <1>2, <1>3
  <1>6. unchanged(x, y, {"parent", "source", "kind", "derived"})
    BY <1>2 DEF unchanged
  <1>7. x.cleanup = "completed" => y.cleanup = "completed"
    BY <1>2, <1>4
  <1> QED
    BY <1>5, <1>6, <1>7 DEF x, y

LEMMA StagesOf ==
  ASSUME NEW s, NEW i \in StageOf(s)
  PROVE  \/ (i = 1 /\ s = "pending") \/ (i = 2 /\ s = "preparing") \/ (i = 3 /\ s = "prepared")
         \/ (i = 4 /\ s = "publishing") \/ (i = 5 /\ s = "published") \/ (i = 6 /\ s = "withdrawn")
  <1>1. i \in DOMAIN Stages /\ Stages[i] = s
    BY DEF StageOf
  <1>2. /\ DOMAIN Stages = 1 .. 6 /\ Stages[1] = "pending" /\ Stages[2] = "preparing" /\ Stages[3] = "prepared"
        /\ Stages[4] = "publishing" /\ Stages[5] = "published" /\ Stages[6] = "withdrawn"
    BY DEF Stages
  <1>3. i \in {1, 2, 3, 4, 5, 6}
    BY <1>1, <1>2
  <1> QED
    BY <1>1, <1>2, <1>3

LEMMA DeliveriesGo ==
  ASSUME NEW s, NEW t, NEW k, NEW l, Seen(s, k), Seen(t, l), Before(k, l), NEW v
  PROVE  DeliveryHistory(s, t, v)
  <1>1. /\ \A d \in DOMAIN s.deliveries : d = "d" /\ s.deliveries[d] = DlvAt(k.dlv, k.copy) /\ k.dlv # "absent"
        /\ \A d \in DOMAIN t.deliveries : d = "d" /\ t.deliveries[d] = DlvAt(l.dlv, l.copy)
        /\ Consistent(k) /\ Consistent(l)
    BY DEF Seen, SeenDeliveries, DeliveriesAt
  <1> SUFFICES ASSUME NEW d \in DOMAIN s.deliveries \intersect DOMAIN t.deliveries
               PROVE  LET x == s.deliveries[d]  y == t.deliveries[d] IN
                      /\ x.copy.budget = y.copy.budget
                      /\ unchanged(x, y, {"parent", "output", "source", "file"})
                      /\ copyHistory(x.copy, y.copy)
                      /\ \A i \in StageOf(x.status), j \in StageOf(y.status) : i <= j
                      /\ x.status \in {"failed", "canceled", "withdrawn"} => y.status = x.status
                      /\ x.status = "published" => y.status \in {"published", "withdrawn"}
                      /\ x.size \subseteq y.size /\ x.sha \subseteq y.sha
    BY <1>1 DEF DeliveryHistory
  <1> DEFINE x == s.deliveries[d]  y == t.deliveries[d]
  <1>2. x = DlvAt(k.dlv, k.copy) /\ y = DlvAt(l.dlv, l.copy) /\ k.dlv # "absent"
    BY <1>1
  <1>3. /\ x.parent = "get" /\ x.output = "o" /\ x.source = "rec" /\ x.file = "f"
        /\ x.status = k.dlv /\ x.copy = CopyAt(k.copy)
        /\ k.copy \notin Whole => x.size = {} /\ x.sha = {}
        /\ k.copy \in Whole => x.size = TheSize /\ x.sha = TheSha
    BY <1>2, DlvParts
  <1>4. /\ y.parent = "get" /\ y.output = "o" /\ y.source = "rec" /\ y.file = "f"
        /\ y.status = l.dlv /\ y.copy = CopyAt(l.copy)
        /\ l.copy \in Whole => y.size = TheSize /\ y.sha = TheSha
    BY <1>2, DlvParts
  <1>5. k.copy \in {"c0", "c1", "c2", "s1", "s2", "f2"} /\ l.copy \in {"c0", "c1", "c2", "s1", "s2", "f2"}
    BY <1>1 DEF Consistent, Course
  <1>6. CopyOrder(k.copy, l.copy) /\ DlvOrder(k.dlv, l.dlv)
    BY DEF Before
  <1>7. copyHistory(x.copy, y.copy) /\ x.copy.budget = y.copy.budget
    BY <1>3, <1>4, <1>5, <1>6, CopiesGo
  <1>8. k.copy \in Whole => l.copy \in Whole
    BY <1>6 DEF CopyOrder, Whole
  <1> HIDE DEF x, y
  <1>9. unchanged(x, y, {"parent", "output", "source", "file"})
    BY <1>3, <1>4 DEF unchanged
  <1>10. x.size \subseteq y.size /\ x.sha \subseteq y.sha
    BY <1>3, <1>4, <1>8
  <1>11. /\ k.dlv \in {"failed", "canceled", "withdrawn"} => l.dlv = k.dlv
         /\ k.dlv = "published" => l.dlv \in {"published", "withdrawn"}
    BY <1>2, <1>6 DEF DlvOrder
  <1>12. ASSUME NEW i \in StageOf(k.dlv), NEW j \in StageOf(l.dlv) PROVE i <= j
    <2>1. \/ (i = 1 /\ k.dlv = "pending") \/ (i = 2 /\ k.dlv = "preparing") \/ (i = 3 /\ k.dlv = "prepared")
          \/ (i = 4 /\ k.dlv = "publishing") \/ (i = 5 /\ k.dlv = "published") \/ (i = 6 /\ k.dlv = "withdrawn")
      BY StagesOf
    <2>2. \/ (j = 1 /\ l.dlv = "pending") \/ (j = 2 /\ l.dlv = "preparing") \/ (j = 3 /\ l.dlv = "prepared")
          \/ (j = 4 /\ l.dlv = "publishing") \/ (j = 5 /\ l.dlv = "published") \/ (j = 6 /\ l.dlv = "withdrawn")
      BY StagesOf
    <2> QED
      BY <1>6, <2>1, <2>2 DEF DlvOrder
  <1> QED
    BY <1>3, <1>4, <1>7, <1>9, <1>10, <1>11, <1>12 DEF x, y

LEMMA SeenHistory ==
  ASSUME NEW s, NEW t, NEW k, NEW l, Seen(s, k), Seen(t, l), Before(k, l), NEW v
  PROVE  historicalIdentity(s, t, v)
  <1>1. FlowHistory(s, t, v) /\ PlanHistory(s, t, v) /\ ActionHistory(s, t, v)
    BY FlowsGo, PlansGo, ActionsGo, Zenon
  <1>2. OutputHistory(s, t, v) /\ DeliveryHistory(s, t, v)
    BY OutputsGo, DeliveriesGo, Zenon
  <1> QED
    BY <1>1, <1>2, Zenon DEF historicalIdentity

------------------------------------------------------------------------------
(* No report of an undisturbed device is refused. *)

LEMMA Restricted ==
  ASSUME NEW f, NEW S
  PROVE  DOMAIN Restrict(f, S) = S /\ \A e \in S : Restrict(f, S)[e] = f[e]
  BY DEF Restrict

LEMMA ReportSeen ==
  ASSUME HistoryInv, NEW t \in 0 .. Last, NEW from \in Nat, NEW k, Described(history[t + 1], k), Consistent(k)
  PROVE  Seen(Report(from, t), k)
  <1> DEFINE w == history[t + 1]
             O == Changed("outputs", from, t)
             D == Changed("deliveries", from, t)
             A == Changed("actions", from, t) \union {w.outputs[o].parent : o \in O}
                                              \union {w.deliveries[d].parent : d \in D}
             P == Changed("plans", from, t) \union {w.actions[a].plan : a \in A}
             X == Changed("diags", from, t)
             r == Report(from, t)
  <1>1. World(w)
    BY LastIs DEF HistoryInv
  <1>2. /\ O \subseteq DOMAIN w.outputs /\ D \subseteq DOMAIN w.deliveries /\ X \subseteq DOMAIN w.diags
        /\ Changed("actions", from, t) \subseteq DOMAIN w.actions
        /\ Changed("plans", from, t) \subseteq DOMAIN w.plans
    BY DEF Changed
  <1>3. /\ A \subseteq DOMAIN w.actions
        /\ \A o \in O : w.outputs[o].parent \in A
        /\ \A d \in D : w.deliveries[d].parent \in A
    BY <1>1, <1>2 DEF World, ParentOf
  <1> HIDE DEF O, D, A, X
  <1>4. P \subseteq DOMAIN w.plans /\ \A a \in A : w.actions[a].plan \in P
    BY <1>1, <1>2, <1>3 DEF World, PlanOf
  <1> HIDE DEF P
  <1>5. r = Rep(from, t, Restrict(w.plans, P), Restrict(w.actions, A), Restrict(w.outputs, O),
                Restrict(w.deliveries, D), Restrict(w.diags, X))
    BY DEF Report, Rep, O, D, A, P, X
  <1>6. Described(w, k)
    OBVIOUS
  <1> HIDE DEF r, w
  <1>7. /\ Known(r) /\ r.plans = Restrict(w.plans, P) /\ r.actions = Restrict(w.actions, A)
        /\ r.outputs = Restrict(w.outputs, O) /\ r.deliveries = Restrict(w.deliveries, D)
        /\ r.diags = Restrict(w.diags, X)
    BY <1>5, Parts
  <1>8. /\ DOMAIN r.plans = P /\ \A p \in P : r.plans[p] = w.plans[p]
        /\ DOMAIN r.actions = A /\ \A a \in A : r.actions[a] = w.actions[a]
        /\ DOMAIN r.outputs = O /\ \A o \in O : r.outputs[o] = w.outputs[o]
        /\ DOMAIN r.deliveries = D /\ \A d \in D : r.deliveries[d] = w.deliveries[d]
        /\ DOMAIN r.diags = X /\ \A x \in X : r.diags[x] = w.diags[x]
    BY <1>7, Restricted
  <1>9. SeenPlans(r, k)
    BY <1>4, <1>6, <1>8 DEF SeenPlans, Described, Laid, LaidPlans
  <1>10. SeenActions(r, k)
    BY <1>3, <1>4, <1>6, <1>8 DEF SeenActions, Described, Laid, LaidActions
  <1>11. SeenOutputs(r, k)
    <2>1. \A o \in O : w.outputs[o] = OutAt(k.clean, k.dig) /\ o \in OutputsAt(k)
      BY <1>2, <1>6 DEF Described, Laid, LaidOutputs
    <2>2. \A o \in O : "rec" \in A
      BY <1>3, <2>1, OutParts
    <2> QED
      BY <1>8, <2>1, <2>2 DEF SeenOutputs
  <1>12. SeenDeliveries(r, k)
    <2>1. \A d \in D : w.deliveries[d] = DlvAt(k.dlv, k.copy) /\ d \in DeliveriesAt(k)
      BY <1>2, <1>6 DEF Described, Laid, LaidDeliveries
    <2>2. \A d \in D : "get" \in A
      BY <1>3, <2>1, DlvParts
    <2> QED
      BY <1>8, <2>1, <2>2 DEF SeenDeliveries
  <1>13. LaidDiags(r)
    BY <1>2, <1>6, <1>8 DEF LaidDiags, Described, Laid
  <1>14. Seen(r, k)
    BY <1>7, <1>9, <1>10, <1>11, <1>12, <1>13 DEF Seen
  <1> QED
    BY <1>14 DEF r

LEMMA SeenAgain ==
  ASSUME NEW s, NEW r, NEW k, Seen(s, k), Seen(r, k)
  PROVE  sameOwnFields(s, r)
  <1>1. \A e \in DOMAIN s.plans \intersect DOMAIN r.plans : s.plans[e] = r.plans[e]
    BY DEF Seen, SeenPlans
  <1>2. \A e \in DOMAIN s.actions \intersect DOMAIN r.actions : s.actions[e] = r.actions[e]
    BY DEF Seen, SeenActions
  <1>3. \A e \in DOMAIN s.outputs \intersect DOMAIN r.outputs : s.outputs[e] = r.outputs[e]
    BY DEF Seen, SeenOutputs
  <1>4. \A e \in DOMAIN s.deliveries \intersect DOMAIN r.deliveries : s.deliveries[e] = r.deliveries[e]
    BY DEF Seen, SeenDeliveries
  <1> QED
    BY <1>1, <1>2, <1>3, <1>4 DEF sameOwnFields

\* Two reports of one device, the one accepted and the other incoming.
LEMMA SeenValid ==
  ASSUME SchemaAdmits,
         NEW s, NEW r, NEW k, NEW l, Seen(s, k), Seen(r, l), s.to \in Int, r.to \in Int, r.from <= r.to,
         s.to <= r.to => Before(k, l), r.to <= s.to => Before(l, k), s.to = r.to => k = l
  PROVE  validateReportAgainstHistory(s, r)
  <1>1. validateReport(r)
    BY SeenOwn DEF validateReport
  <1>2. r.to < s.to => historicalIdentity(r, s, TRUE)
    <2> SUFFICES ASSUME r.to < s.to PROVE historicalIdentity(r, s, TRUE)
      OBVIOUS
    <2>1. Before(l, k)
      OBVIOUS
    <2> QED
      BY <2>1, SeenHistory, Zenon
  <1>3. ~(r.to < s.to) => historicalIdentity(s, r, r.to > s.to)
    <2> SUFFICES ASSUME ~(r.to < s.to) PROVE historicalIdentity(s, r, r.to > s.to)
      OBVIOUS
    <2>1. Before(k, l)
      OBVIOUS
    <2> DEFINE v == r.to > s.to
    <2> HIDE DEF v
    <2>2. historicalIdentity(s, r, v)
      BY <2>1, SeenHistory, Zenon
    <2> QED
      BY <2>2, Zenon DEF v
  <1>4. r.to = s.to => sameOwnFields(s, r)
    BY SeenAgain
  <1>5. \A x \in DOMAIN s.diags \intersect DOMAIN r.diags : s.diags[x] = r.diags[x]
    BY DEF Seen, LaidDiags
  <1>6. /\ associations(Together(r, s), FlowsOf(r, s))
        /\ associations(Together(s, r), FlowsOf(s, r))
    <2>1. CASE s.to <= r.to
      BY <2>1, ReportsAssociate
    <2>2. CASE r.to <= s.to
      BY <2>2, ReportsAssociate
    <2> QED
      BY <2>1, <2>2
  <1>7. failureLinks(s, s.to, r, r.to) /\ failureLinks(r, r.to, s, s.to)
    BY FailuresLink
  <1> QED
    BY <1>1, <1>2, <1>3, <1>4, <1>5, <1>6, <1>7, Zenon DEF validateReportAgainstHistory

LEMMA CourseAccepts ==
  ASSUME SchemaAdmits, HistoryInv, NEW t, Follows(history, t), snapshot.to \in 0 .. Last,
         snapshot = Report(0, snapshot.to), NEW to \in 0 .. Last, NEW from \in 0 .. to
  PROVE  IF reportDecision(snapshot.to, from, to) = "gap"
         THEN validateReportAgainstHistory(snapshot, Report(from, to))
         ELSE Mergeable(snapshot, Report(from, to))
  <1> DEFINE c == snapshot.to  s == snapshot  r == Report(from, to)  k == t[c + 1]  l == t[to + 1]
  <1>1. /\ Last \in Nat /\ c \in Nat /\ to \in Nat /\ from \in Nat /\ from <= to /\ c \in Int /\ to \in Int
        /\ c + 1 \in 1 .. Len(history) /\ to + 1 \in 1 .. Len(history)
    BY LastIs
  <1>2. /\ Described(history[c + 1], k) /\ Consistent(k)
        /\ Described(history[to + 1], l) /\ Consistent(l)
    BY <1>1 DEF Follows
  <1>3. (c <= to => Before(k, l)) /\ (to <= c => Before(l, k)) /\ (c = to => k = l)
    BY <1>1 DEF Follows
  <1>4. Seen(Report(0, c), k)
    BY <1>2, ReportSeen
  <1>5. Seen(r, l) /\ Seen(Report(0, to), l)
    BY <1>1, <1>2, ReportSeen
  <1>6. Seen(s, k)
    BY <1>4
  <1>7. r.from = from /\ r.to = to /\ Report(0, to).from = 0 /\ Report(0, to).to = to
    BY ReportIs
  <1> HIDE DEF k, l, r
  <1>8. validateReportAgainstHistory(s, r)
    BY <1>1, <1>3, <1>5, <1>6, <1>7, SeenValid
  <1>9. CASE reportDecision(c, from, to) = "apply"
    <2>1. from <= c /\ c < to
      BY <1>1, <1>9 DEF reportDecision
    <2>2. from \in 0 .. Last
      BY <1>1, LastIs
    <2>3. Combined(s, r) = Report(0, to)
      BY <2>1, <2>2, MergedReport DEF r
    <2>4. ownFacts(Report(0, to))
      BY <1>1, <1>5, <1>7, SeenOwn
    <2>5. ownFacts(Combined(s, r))
      BY <2>3, <2>4
    <2> QED
      BY <1>7, <1>8, <1>9, <2>5 DEF Mergeable, r
  <1>10. CASE reportDecision(c, from, to) = "covered"
    BY <1>7, <1>8, <1>10 DEF Mergeable, r
  <1>11. CASE reportDecision(c, from, to) = "gap"
    BY <1>8, <1>11 DEF r
  <1>12. reportDecision(c, from, to) \in {"covered", "apply", "gap"}
    BY DEF reportDecision
  <1> QED
    BY <1>9, <1>10, <1>11, <1>12

\* The rules behind the schema refuse no report of an undisturbed device: if the
\* schema admits reports as the client declares them (SchemaAdmits, which the one
\* in protocol/schemas does not), none is refused, whatever the client has seen
\* before and however many changes the device has made.  Every state of the
\* device is a stage of one course, and the rules only refuse what no course
\* allows (mergeReport and validateReportAgainstHistory in applyReports).
THEOREM TruthIsAccepted == Spec => []TruthAccepted
  <1>1. ShownInv /\ CourseInv => TruthAccepted
    <2> SUFFICES ASSUME SchemaAdmits, ShownInv, CourseInv, forks = 0, NEW to \in 0 .. Last, NEW from \in 0 .. to
                 PROVE  IF reportDecision(snapshot.to, from, to) = "gap"
                        THEN validateReportAgainstHistory(snapshot, Report(from, to))
                        ELSE Mergeable(snapshot, Report(from, to))
      BY DEF TruthAccepted, TruthTaken
    <2>1. HistoryInv /\ snapshot.to \in 0 .. Last /\ snapshot = Report(0, snapshot.to)
      BY DEF ShownInv
    <2>2. PICK t : Follows(history, t)
      BY DEF CourseInv
    <2> QED
      BY <2>1, <2>2, CourseAccepts
  <1>2. Spec => []ClientInv
    BY ClientInvInit, ClientInvNext, PTL DEF Spec
  <1>3. Spec => []ShownInv
    BY <1>2, ShownInvInit, ShownInvNext, PTL DEF Spec
  <1>4. Spec => []CourseInv
    BY <1>2, <1>3, CourseInvInit, CourseInvNext, PTL DEF Spec
  <1> QED
    BY <1>1, <1>3, <1>4, PTL
==============================================================================
