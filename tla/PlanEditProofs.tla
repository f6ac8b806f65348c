---------------------------- MODULE PlanEditProofs ----------------------------
(***************************************************************************)
(* What holds of editing a draft for any number of actions, edits and      *)
(* reports: nothing entered is lost or moves to another action, every      *)
(* unfinished input can be corrected, and an exported plan is sound.       *)
(***************************************************************************)
EXTENDS PlanEdit, SequenceTheorems, TLAPS

IsMap(f) == f = [x \in DOMAIN f |-> f[x]]

\* Paths from the plan, and those from within an action.
Names == {"params", "policy", "group", "type", "length", "max_delay_ms", "source", "output_ids",
          "after_report_id"}
Key == Nat \union Names
Path == {q \in Seq(Key) : Len(q) \in {2, 3} /\ q[1] \in Nat}
Rel == {r \in Seq(Key) : Len(r) \in {1, 2}}

\* No path lies within another.
Apart(paths) == \A p, q \in paths : ~IsStrictPrefix(p, q)

\* The inputs kept for an action under a type.
Input(x) ==
  /\ x = [fields |-> x.fields, pending |-> x.pending]
  /\ IsMap(x.pending) /\ DOMAIN x.pending \subseteq Rel /\ Apart(DOMAIN x.pending)

Plan(actions) ==
  /\ Len(actions) \in Nat /\ actions = [i \in 1 .. Len(actions) |-> actions[i]]
  /\ \A i \in 1 .. Len(actions) :
       /\ actions[i] = [name |-> actions[i].name, type |-> actions[i].type,
                        fields |-> actions[i].fields]
       /\ actions[i].type \in Types

\* What lies beside the plan's text belongs to the actions in the text.
Inputs(c) ==
  /\ IsMap(c.pending)
  /\ \A q \in DOMAIN c.pending : q \in Path /\ q[1] \in DOMAIN c.actions
  /\ Apart(DOMAIN c.pending)
Kept(c) ==
  /\ IsMap(c.variants) /\ DOMAIN c.variants \subseteq DOMAIN c.actions
  /\ \A i \in DOMAIN c.variants :
       IsMap(c.variants[i]) /\ \A t \in DOMAIN c.variants[i] : Input(c.variants[i][t])
Rec(w, acts, p, v) == [parses |-> w, actions |-> acts, pending |-> p, variants |-> v]
Known(c) == c = Rec(c.parses, c.actions, c.pending, c.variants)
Content(c) ==
  /\ Known(c) /\ Plan(c.actions) /\ Inputs(c) /\ Kept(c)

EditInv == Content(content) /\ \A plan \in requests : Plan(plan)

-----------------------------------------------------------------------------
(* Paths. *)

LEMMA PrefixAt ==
  ASSUME NEW S, NEW p \in Seq(S), NEW q \in Seq(S)
  PROVE  IsPrefix(p, q) <=> Len(p) <= Len(q) /\ \A k \in 1 .. Len(p) : p[k] = q[k]
  <1>1. SubSeq(p, 1, Len(p)) = p
    OBVIOUS
  <1> SUFFICES ASSUME Len(p) <= Len(q)
               PROVE  SubSeq(q, 1, Len(p)) = p <=> \A k \in 1 .. Len(p) : p[k] = q[k]
    BY <1>1 DEF IsPrefix
  <1> DEFINE b == SubSeq(q, 1, Len(p))
  <1>2. b \in Seq(S) /\ Len(b) = Len(p) /\ \A k \in 1 .. Len(p) : b[k] = q[k]
    OBVIOUS
  <1> HIDE DEF b
  <1> QED
    BY <1>2, SeqEqual

LEMMA StrictPrefixAt ==
  ASSUME NEW S, NEW p \in Seq(S), NEW q \in Seq(S)
  PROVE  IsStrictPrefix(p, q) <=> Len(p) < Len(q) /\ \A k \in 1 .. Len(p) : p[k] = q[k]
  <1>1. Len(p) = Len(q) /\ (\A k \in 1 .. Len(p) : p[k] = q[k]) => p = q
    BY SeqEqual
  <1> QED
    BY <1>1, PrefixAt DEF IsStrictPrefix

LEMMA Within ==
  ASSUME NEW i \in Nat, NEW r \in Rel
  PROVE  /\ <<i>> \o r \in Path /\ (<<i>> \o r)[1] = i /\ Tail(<<i>> \o r) = r
         /\ Len(<<i>> \o r) = Len(r) + 1
         /\ \A k \in 1 .. Len(r) : (<<i>> \o r)[k + 1] = r[k]
  <1> DEFINE q == <<i>> \o r
  <1>1. <<i>> \in Seq(Key) /\ Len(<<i>>) = 1 /\ r \in Seq(Key) /\ Len(r) \in {1, 2}
    BY DEF Key, Rel
  <1>2. q \in Seq(Key) /\ Len(q) = Len(r) + 1 /\ q[1] = i
    BY <1>1
  <1>3. \A k \in 1 .. Len(r) : q[k + 1] = r[k]
    BY <1>1
  <1> HIDE DEF q
  <1>4. Tail(q) \in Seq(Key) /\ Len(Tail(q)) = Len(r) /\ \A k \in 1 .. Len(r) : Tail(q)[k] = r[k]
    BY <1>1, <1>2, <1>3
  <1>5. Tail(q) = r
    BY <1>1, <1>4, SeqEqual
  <1>6. Len(q) \in {2, 3}
    <2>1. CASE Len(r) = 1
      BY <2>1, <1>2
    <2>2. CASE Len(r) = 2
      BY <2>2, <1>2
    <2> QED
      BY <2>1, <2>2, <1>1
  <1>7. q \in Path
    BY <1>2, <1>6 DEF Path
  <1> QED
    BY <1>2, <1>3, <1>5, <1>7 DEF q

LEMMA Apiece ==
  ASSUME NEW q \in Path
  PROVE  /\ q[1] \in Nat /\ Tail(q) \in Rel /\ <<q[1]>> \o Tail(q) = q
         /\ Len(Tail(q)) = Len(q) - 1 /\ Len(q) \in {2, 3}
         /\ \A k \in 1 .. Len(q) - 1 : Tail(q)[k] = q[k + 1]
  <1> DEFINE r == Tail(q)
  <1>1. q \in Seq(Key) /\ Len(q) \in {2, 3} /\ q[1] \in Nat
    BY DEF Path
  <1>2. r \in Seq(Key) /\ Len(r) = Len(q) - 1 /\ \A k \in 1 .. Len(q) - 1 : r[k] = q[k + 1]
    BY <1>1
  <1> HIDE DEF r
  <1>0. Len(r) \in {1, 2}
    BY <1>1, <1>2
  <1>3. r \in Rel
    BY <1>0, <1>2 DEF Rel
  <1> DEFINE p == <<q[1]>> \o r
  <1>4. /\ p \in Seq(Key) /\ Len(p) = Len(q) /\ p[1] = q[1]
        /\ \A k \in 1 .. Len(r) : p[k + 1] = r[k]
    BY <1>1, <1>2, <1>3, Within DEF Path
  <1> HIDE DEF p
  <1>5. \A k \in 1 .. Len(q) : p[k] = q[k]
    <2> TAKE k \in 1 .. Len(q)
    <2>1. CASE k = 1
      BY <2>1, <1>4
    <2>2. CASE k # 1
      <3>1. k - 1 \in 1 .. Len(r) /\ (k - 1) + 1 = k
        BY <2>2, <1>1, <1>2
      <3> QED
        BY <3>1, <1>1, <1>2, <1>4
    <2> QED
      BY <2>1, <2>2
  <1>6. p = q
    BY <1>1, <1>4, <1>5, SeqEqual
  <1> QED
    BY <1>1, <1>2, <1>3, <1>6 DEF p, r

\* One path lies within another exactly when both belong to one action and one
\* lies within the other there.
LEMMA PathWithin ==
  ASSUME NEW p \in Path, NEW q \in Path
  PROVE  IsStrictPrefix(p, q) <=> p[1] = q[1] /\ IsStrictPrefix(Tail(p), Tail(q))
  <1>1. p \in Seq(Key) /\ q \in Seq(Key) /\ Tail(p) \in Seq(Key) /\ Tail(q) \in Seq(Key)
    BY Apiece DEF Path, Rel
  <1>0. /\ Len(p) \in {2, 3} /\ Len(Tail(p)) = Len(p) - 1
        /\ Len(q) \in {2, 3} /\ Len(Tail(q)) = Len(q) - 1
    BY Apiece
  <1>2. IsStrictPrefix(p, q) <=> Len(p) < Len(q) /\ \A k \in 1 .. Len(p) : p[k] = q[k]
    BY <1>1, StrictPrefixAt
  <1>3. IsStrictPrefix(Tail(p), Tail(q)) <=>
          Len(Tail(p)) < Len(Tail(q)) /\ \A k \in 1 .. Len(Tail(p)) : Tail(p)[k] = Tail(q)[k]
    <2> DEFINE r == Tail(p)  s == Tail(q)
    <2>1. r \in Seq(Key) /\ s \in Seq(Key)
      BY <1>1
    <2> HIDE DEF r, s
    <2>2. IsStrictPrefix(r, s) <=> Len(r) < Len(s) /\ \A k \in 1 .. Len(r) : r[k] = s[k]
      BY <2>1, StrictPrefixAt
    <2> QED
      BY <2>2 DEF r, s
  <1>4. ASSUME Len(p) < Len(q)
        PROVE  (\A k \in 1 .. Len(p) : p[k] = q[k]) <=>
               p[1] = q[1] /\ \A k \in 1 .. Len(Tail(p)) : Tail(p)[k] = Tail(q)[k]
    <2>1. \A k \in 1 .. Len(Tail(p)) : Tail(p)[k] = p[k + 1] /\ Tail(q)[k] = q[k + 1]
      BY <1>4, Apiece
    <2>2. \A k \in 1 .. Len(p) : k = 1 \/ (k - 1 \in 1 .. Len(Tail(p)) /\ (k - 1) + 1 = k)
      BY <1>0
    <2>3. \A k \in 1 .. Len(Tail(p)) : k + 1 \in 1 .. Len(p)
      BY <1>0
    <2>4. 1 \in 1 .. Len(p)
      BY <1>0
    <2>5. ASSUME \A k \in 1 .. Len(p) : p[k] = q[k]
          PROVE  p[1] = q[1] /\ \A k \in 1 .. Len(Tail(p)) : Tail(p)[k] = Tail(q)[k]
      BY <2>1, <2>3, <2>4, <2>5
    <2>6. ASSUME p[1] = q[1], \A k \in 1 .. Len(Tail(p)) : Tail(p)[k] = Tail(q)[k],
                 NEW k \in 1 .. Len(p)
          PROVE  p[k] = q[k]
      <3>1. CASE k = 1
        BY <2>6, <3>1
      <3>2. CASE k # 1
        <4> DEFINE j == k - 1
        <4>1. j \in 1 .. Len(Tail(p)) /\ j + 1 = k
          BY <2>2, <3>2
        <4>2. p[j + 1] = q[j + 1]
          BY <2>1, <2>6, <4>1
        <4> QED
          BY <4>1, <4>2
      <3> QED
        BY <3>1, <3>2
    <2> QED
      BY <2>5, <2>6
  <1>5. Len(p) < Len(q) <=> Len(Tail(p)) < Len(Tail(q))
    BY <1>0
  <1> QED
    BY <1>2, <1>3, <1>4, <1>5

LEMMA OfAction ==
  ASSUME NEW i \in Nat, NEW q \in Path
  PROVE  IsStrictPrefix(<<i>>, q) <=> q[1] = i
  <1> DEFINE p == <<i>>
  <1>1. p \in Seq(Key) /\ Len(p) = 1 /\ p[1] = i
    BY DEF Key
  <1>2. q \in Seq(Key) /\ Len(q) \in {2, 3}
    BY DEF Path
  <1>3. 1 < Len(q)
    BY <1>2
  <1> HIDE DEF p
  <1>4. IsStrictPrefix(p, q) <=> Len(p) < Len(q) /\ \A k \in 1 .. Len(p) : p[k] = q[k]
    BY <1>1, <1>2, StrictPrefixAt
  <1>5. IsStrictPrefix(p, q) <=> q[1] = i
    BY <1>1, <1>3, <1>4
  <1> QED
    BY <1>5 DEF p

LEMMA OfOther ==
  ASSUME NEW p \in Path, NEW q \in Path, IsPrefix(p, q)
  PROVE  p[1] = q[1]
  <1>1. p \in Seq(Key) /\ q \in Seq(Key) /\ 1 \in 1 .. Len(p)
    BY Apiece DEF Path
  <1> QED
    BY <1>1, PrefixAt

-----------------------------------------------------------------------------
(* Functions. *)

LEMMA NothingWithin ==
  /\ <<>> = [x \in {} |-> x] /\ DOMAIN <<>> = {} /\ IsMap(<<>>) /\ Input(Blank)
  /\ Blank.pending = <<>> /\ Blank.fields = <<>>
  <1>1. DOMAIN <<>> = {} /\ <<>> = [x \in {} |-> x]
    OBVIOUS
  <1>2. IsMap(<<>>)
    BY <1>1 DEF IsMap
  <1>3. Blank.pending = <<>> /\ Blank.fields = <<>>
    BY DEF Blank, Empty
  <1>4. Blank = [fields |-> Blank.fields, pending |-> Blank.pending]
    BY DEF Blank
  <1> QED
    BY <1>1, <1>2, <1>3, <1>4 DEF Input, Apart

\* A function is known by its values.
LEMMA SameMap ==
  ASSUME NEW f, NEW g, IsMap(f), IsMap(g), DOMAIN f = DOMAIN g, \A x \in DOMAIN f : f[x] = g[x]
  PROVE  f = g
  BY DEF IsMap

LEMMA Restricting ==
  ASSUME NEW f, NEW S
  PROVE  /\ IsMap(Restrict(f, S)) /\ DOMAIN Restrict(f, S) = S
         /\ \A x \in S : Restrict(f, S)[x] = f[x]
  BY DEF IsMap, Restrict

\* A content with some of its parts replaced.
LEMMA Parts ==
  ASSUME NEW w, NEW acts, NEW p, NEW v
  PROVE  LET c == Rec(w, acts, p, v) IN
         Known(c) /\ c.parses = w /\ c.actions = acts /\ c.pending = p /\ c.variants = v
  BY DEF Rec, Known

LEMMA ParsesPart ==
  ASSUME NEW c, Known(c), NEW x
  PROVE  [c EXCEPT !.parses = x] = Rec(x, c.actions, c.pending, c.variants)
  BY DEF Rec, Known

LEMMA ActionsPart ==
  ASSUME NEW c, Known(c), NEW x
  PROVE  [c EXCEPT !.actions = x] = Rec(c.parses, x, c.pending, c.variants)
  BY DEF Rec, Known

LEMMA PendingPart ==
  ASSUME NEW c, Known(c), NEW x
  PROVE  [c EXCEPT !.pending = x] = Rec(c.parses, c.actions, x, c.variants)
  BY DEF Rec, Known

LEMMA VariantsPart ==
  ASSUME NEW c, Known(c), NEW x
  PROVE  [c EXCEPT !.variants = x] = Rec(c.parses, c.actions, c.pending, x)
  BY DEF Rec, Known

LEMMA TwoParts ==
  ASSUME NEW c, Known(c), NEW acts, NEW p
  PROVE  [c EXCEPT !.actions = acts, !.pending = p] = Rec(c.parses, acts, p, c.variants)
  <1> DEFINE d == [c EXCEPT !.actions = acts]
  <1>1. [c EXCEPT !.actions = acts, !.pending = p] = [d EXCEPT !.pending = p]
    OBVIOUS
  <1>2. d = Rec(c.parses, acts, c.pending, c.variants)
    BY ActionsPart
  <1> HIDE DEF d
  <1>3. /\ Known(d) /\ d.parses = c.parses /\ d.actions = acts /\ d.pending = c.pending
        /\ d.variants = c.variants
    BY <1>2 DEF Rec, Known
  <1>4. [d EXCEPT !.pending = p] = Rec(d.parses, d.actions, p, d.variants)
    BY <1>3, PendingPart
  <1> QED
    BY <1>1, <1>3, <1>4

Rewritten(c, acts, p, v) == [c EXCEPT !.actions = acts, !.pending = p, !.variants = v]

LEMMA ThreeParts ==
  ASSUME NEW c, Known(c), NEW acts, NEW p, NEW v
  PROVE  Rewritten(c, acts, p, v) = Rec(c.parses, acts, p, v)
  <1> DEFINE d == [c EXCEPT !.actions = acts, !.pending = p]
  <1>1. Rewritten(c, acts, p, v) = [d EXCEPT !.variants = v]
    BY DEF Rewritten
  <1>2. d = Rec(c.parses, acts, p, c.variants)
    BY TwoParts
  <1> HIDE DEF d
  <1>3. /\ Known(d) /\ d.parses = c.parses /\ d.actions = acts /\ d.pending = p
        /\ d.variants = c.variants
    BY <1>2 DEF Rec, Known
  <1>4. [d EXCEPT !.variants = v] = Rec(d.parses, d.actions, d.pending, v)
    BY <1>3, VariantsPart
  <1> QED
    BY <1>1, <1>3, <1>4

-----------------------------------------------------------------------------
(* What is entered for an action. *)

Under(c, i) ==
  [r \in {x \in Rel : <<i>> \o x \in DOMAIN c.pending} |-> c.pending[<<i>> \o r]]

LEMMA PathsOfIs ==
  ASSUME NEW c, Inputs(c), NEW i \in Nat
  PROVE  PathsOf(c, i) = {q \in DOMAIN c.pending : q[1] = i}
  BY OfAction DEF PathsOf, Inputs

LEMMA TailsOf ==
  ASSUME NEW c, Inputs(c), NEW i \in Nat
  PROVE  {Tail(q) : q \in PathsOf(c, i)} = {r \in Rel : <<i>> \o r \in DOMAIN c.pending}
  <1>1. ASSUME NEW q \in PathsOf(c, i)
        PROVE  Tail(q) \in Rel /\ <<i>> \o Tail(q) \in DOMAIN c.pending
    <2>1. q \in Path /\ q \in DOMAIN c.pending /\ q[1] = i
      BY PathsOfIs DEF Inputs
    <2> QED
      BY <2>1, Apiece
  <1>2. ASSUME NEW r \in Rel, <<i>> \o r \in DOMAIN c.pending
        PROVE  \E q \in PathsOf(c, i) : r = Tail(q)
    <2>1. (<<i>> \o r)[1] = i
      BY Within
    <2>2. PathsOf(c, i) = {q \in DOMAIN c.pending : q[1] = i}
      BY PathsOfIs
    <2>3. <<i>> \o r \in PathsOf(c, i)
      BY <1>2, <2>1, <2>2
    <2> QED
      BY <2>3, Within
  <1> QED
    BY <1>1, <1>2

LEMMA CurrentIs ==
  ASSUME NEW c, Inputs(c), NEW i \in Nat
  PROVE  Current(c, i) = [fields |-> c.actions[i].fields, pending |-> Under(c, i)]
  BY TailsOf DEF Current, Under

\* What is unfinished for one action is apart, seen from the action.
LEMMA UnderIsInput ==
  ASSUME NEW c, Inputs(c), NEW i \in Nat
  PROVE  Input(Current(c, i))
  <1> DEFINE f == Under(c, i)
  <1>1. IsMap(f) /\ DOMAIN f = {r \in Rel : <<i>> \o r \in DOMAIN c.pending}
    BY DEF IsMap, Under
  <1>2. ASSUME NEW r \in DOMAIN f, NEW s \in DOMAIN f
        PROVE  ~IsStrictPrefix(r, s)
    <2> DEFINE p == <<i>> \o r  q == <<i>> \o s
    <2>1. p \in DOMAIN c.pending /\ q \in DOMAIN c.pending /\ r \in Rel /\ s \in Rel
      BY <1>1
    <2>2. p \in Path /\ q \in Path /\ p[1] = i /\ q[1] = i /\ Tail(p) = r /\ Tail(q) = s
      BY <2>1, Within
    <2>3. ~IsStrictPrefix(p, q)
      BY <2>1 DEF Inputs, Apart
    <2> HIDE DEF p, q
    <2>4. IsStrictPrefix(p, q) <=> p[1] = q[1] /\ IsStrictPrefix(Tail(p), Tail(q))
      BY <2>2, PathWithin
    <2> QED
      BY <2>2, <2>3, <2>4
  <1>3. Current(c, i) = [fields |-> c.actions[i].fields, pending |-> f]
    BY CurrentIs
  <1> HIDE DEF f
  <1> QED
    BY <1>1, <1>2, <1>3 DEF Input, Apart

\* An action whose inputs and fields are those of another shows the same.
LEMMA SameCurrent ==
  ASSUME NEW c, Inputs(c), NEW d, Inputs(d), NEW i \in Nat, NEW j \in Nat,
         c.actions[i].fields = d.actions[j].fields,
         \A r \in Rel : /\ <<i>> \o r \in DOMAIN c.pending <=> <<j>> \o r \in DOMAIN d.pending
                        /\ <<i>> \o r \in DOMAIN c.pending =>
                             c.pending[<<i>> \o r] = d.pending[<<j>> \o r]
  PROVE  Current(c, i) = Current(d, j)
  <1>1. Under(c, i) = Under(d, j)
    BY DEF Under
  <1> QED
    BY <1>1, CurrentIs

\* One action is changed under its own type, everything else stays.
Edited(c, d, i) ==
  /\ Known(d) /\ d.variants = c.variants
  /\ Plan(d.actions) /\ Len(d.actions) = Len(c.actions)
  /\ \A j \in DOMAIN c.actions : j # i => d.actions[j] = c.actions[j]
  /\ d.actions[i].name = c.actions[i].name /\ d.actions[i].type = c.actions[i].type
  /\ Inputs(d)
  /\ \A q \in Path : q[1] # i =>
       /\ q \in DOMAIN d.pending <=> q \in DOMAIN c.pending
       /\ q \in DOMAIN c.pending => d.pending[q] = c.pending[q]

LEMMA PlanDomain ==
  ASSUME NEW actions, Plan(actions)
  PROVE  DOMAIN actions = 1 .. Len(actions) /\ Len(actions) \in Nat /\ DOMAIN actions \subseteq Nat
  BY DEF Plan

LEMMA EditedContent ==
  ASSUME NEW c, Content(c), NEW d, NEW i \in DOMAIN c.actions, Edited(c, d, i)
  PROVE  Content(d)
  <1>1. DOMAIN d.actions = DOMAIN c.actions
    BY PlanDomain DEF Content, Edited
  <1>2. Kept(d)
    BY <1>1 DEF Content, Kept, Edited
  <1> QED
    BY <1>2 DEF Content, Edited

LEMMA EditedTwice ==
  ASSUME NEW c, Content(c), NEW d, NEW e, NEW i \in DOMAIN c.actions,
         Edited(c, d, i), Edited(d, e, i)
  PROVE  Edited(c, e, i)
  <1>1. DOMAIN d.actions = DOMAIN c.actions
    BY PlanDomain DEF Content, Edited
  <1> QED
    BY <1>1 DEF Edited

-----------------------------------------------------------------------------
(* Each edit of an action is one under its own type. *)

SetFields(c, i, f) == [c.actions EXCEPT ![i].fields = f]

LEMMA FieldsSet ==
  ASSUME NEW c, Content(c), NEW i \in DOMAIN c.actions, NEW f
  PROVE  LET acts == SetFields(c, i, f) IN
         /\ Plan(acts) /\ Len(acts) = Len(c.actions) /\ DOMAIN acts = DOMAIN c.actions
         /\ \A j \in DOMAIN c.actions : j # i => acts[j] = c.actions[j]
         /\ acts[i].name = c.actions[i].name /\ acts[i].type = c.actions[i].type
  <1> DEFINE a == c.actions  b == [a[i] EXCEPT !.fields = f]  acts == [a EXCEPT ![i] = b]
  <1>1. Plan(a) /\ DOMAIN a = 1 .. Len(a) /\ Len(a) \in Nat
    BY PlanDomain DEF Content
  <1>2. a[i] = [name |-> a[i].name, type |-> a[i].type, fields |-> a[i].fields] /\ a[i].type \in Types
    BY <1>1 DEF Plan
  <1>3. b = [name |-> a[i].name, type |-> a[i].type, fields |-> f]
    BY <1>2
  <1>4. b = [name |-> b.name, type |-> b.type, fields |-> b.fields] /\ b.type \in Types
        /\ b.name = a[i].name /\ b.type = a[i].type
    BY <1>2, <1>3
  <1>5. SetFields(c, i, f) = acts
    BY DEF SetFields
  <1> HIDE DEF b
  <1>6. /\ acts \in Seq({a[j] : j \in 1 .. Len(a)} \union {b}) /\ Len(acts) = Len(a)
        /\ acts = [j \in 1 .. Len(a) |-> acts[j]] /\ DOMAIN acts = 1 .. Len(a)
        /\ \A j \in 1 .. Len(a) : acts[j] = IF j = i THEN b ELSE a[j]
    BY <1>1 DEF Plan
  <1> HIDE DEF a, acts
  <1>7. Plan(acts)
    <2>1. acts = [j \in 1 .. Len(acts) |-> acts[j]]
      BY <1>6
    <2>2. ASSUME NEW j \in 1 .. Len(acts)
          PROVE  /\ acts[j] = [name |-> acts[j].name, type |-> acts[j].type, fields |-> acts[j].fields]
                 /\ acts[j].type \in Types
      <3>1. CASE j = i
        BY <3>1, <1>4, <1>6
      <3>2. CASE j # i
        BY <3>2, <1>1, <1>6 DEF Plan
      <3> QED
        BY <3>1, <3>2
    <2> QED
      BY <1>1, <1>6, <2>1, <2>2 DEF Plan
  <1>8. DOMAIN acts = DOMAIN a
    BY <1>1, <1>6
  <1> QED
    BY <1>1, <1>4, <1>5, <1>6, <1>7, <1>8 DEF a

LEMMA Resolving ==
  ASSUME NEW c, Inputs(c), NEW path \in Path
  PROVE  LET p == Resolve(c.pending, path) IN
         /\ IsMap(p) /\ DOMAIN p \subseteq DOMAIN c.pending
         /\ \A q \in DOMAIN p : p[q] = c.pending[q]
         /\ \A q \in Path : q[1] # path[1] => (q \in DOMAIN p <=> q \in DOMAIN c.pending)
  <1> DEFINE D == {q \in DOMAIN c.pending : ~IsPrefix(path, q)}
  <1>1. /\ IsMap(Resolve(c.pending, path)) /\ DOMAIN Resolve(c.pending, path) = D
        /\ \A q \in D : Resolve(c.pending, path)[q] = c.pending[q]
    BY Restricting DEF Resolve
  <1>2. \A q \in DOMAIN c.pending : q \in Path
    BY DEF Inputs
  <1>3. \A q \in DOMAIN c.pending : q[1] # path[1] => ~IsPrefix(path, q)
    BY <1>2, OfOther
  <1> QED
    BY <1>1, <1>3

LEMMA ValueEdits ==
  ASSUME NEW c, Content(c), NEW path \in Path, path[1] \in DOMAIN c.actions, NEW f
  PROVE  Edited(c, Rec(c.parses, SetFields(c, path[1], f), Resolve(c.pending, path), c.variants),
                path[1])
  <1> DEFINE i == path[1]  acts == SetFields(c, i, f)  p == Resolve(c.pending, path)
             d == Rec(c.parses, acts, p, c.variants)
  <1>1. Known(d) /\ d.actions = acts /\ d.pending = p /\ d.variants = c.variants
    BY Parts
  <1>2. /\ Plan(acts) /\ Len(acts) = Len(c.actions) /\ DOMAIN acts = DOMAIN c.actions
        /\ \A j \in DOMAIN c.actions : j # i => acts[j] = c.actions[j]
        /\ acts[i].name = c.actions[i].name /\ acts[i].type = c.actions[i].type
    BY FieldsSet
  <1>3. /\ IsMap(p) /\ DOMAIN p \subseteq DOMAIN c.pending
        /\ \A q \in DOMAIN p : p[q] = c.pending[q]
        /\ \A q \in Path : q[1] # i => (q \in DOMAIN p <=> q \in DOMAIN c.pending)
    BY Resolving DEF Content
  <1> HIDE DEF acts, p, i, d
  <1>4. Inputs(d)
    BY <1>1, <1>2, <1>3 DEF Inputs, Apart, Content
  <1>5. Edited(c, d, i)
    BY <1>1, <1>2, <1>3, <1>4 DEF Edited
  <1> QED
    BY <1>5 DEF d, acts, p, i

LEMMA SetEdits ==
  ASSUME NEW c, Content(c), NEW path \in Path, path[1] \in DOMAIN c.actions, NEW value
  PROVE  Edited(c, setValue(c, path, value), path[1])
  <1> DEFINE f == SetAt(c.actions[path[1]].fields, Tail(path), value)
  <1>1. setValue(c, path, value) =
          [c EXCEPT !.actions = SetFields(c, path[1], f), !.pending = Resolve(c.pending, path)]
    BY DEF setValue, SetFields
  <1>2. @ = Rec(c.parses, SetFields(c, path[1], f), Resolve(c.pending, path), c.variants)
    BY TwoParts DEF Content
  <1> QED
    BY <1>1, <1>2, ValueEdits

LEMMA OmitEdits ==
  ASSUME NEW c, Content(c), NEW path \in Path, path[1] \in DOMAIN c.actions
  PROVE  Edited(c, omitValue(c, path), path[1])
  <1> DEFINE f == OmitAt(c.actions[path[1]].fields, Tail(path))
  <1>1. omitValue(c, path) =
          [c EXCEPT !.actions = SetFields(c, path[1], f), !.pending = Resolve(c.pending, path)]
    BY DEF omitValue, SetFields
  <1>2. @ = Rec(c.parses, SetFields(c, path[1], f), Resolve(c.pending, path), c.variants)
    BY TwoParts DEF Content
  <1> QED
    BY <1>1, <1>2, ValueEdits

\* Any pending input of an action may be retyped, and one may be added where
\* nothing is in the way.
LEMMA PendingEdits ==
  ASSUME NEW c, Content(c), NEW path \in Path, path[1] \in DOMAIN c.actions,
         NEW p, IsMap(p), DOMAIN p = DOMAIN c.pending \union {path},
         \A q \in DOMAIN c.pending : q # path => p[q] = c.pending[q],
         path \in DOMAIN c.pending \/ ~pendingBlocks(c, path)
  PROVE  Edited(c, [c EXCEPT !.pending = p], path[1])
  <1> DEFINE d == Rec(c.parses, c.actions, p, c.variants)
  <1>1. Known(d) /\ d.actions = c.actions /\ d.pending = p /\ d.variants = c.variants
    BY Parts
  <1>2. [c EXCEPT !.pending = p] = d
    BY PendingPart DEF Content
  <1>3. Apart(DOMAIN p)
    <2>1. CASE path \in DOMAIN c.pending
      BY <2>1 DEF Content, Inputs
    <2>2. CASE ~pendingBlocks(c, path)
      <3>1. \A q \in DOMAIN c.pending : ~IsStrictPrefix(path, q) /\ ~IsStrictPrefix(q, path)
        BY <2>2 DEF pendingBlocks
      <3>2. ~IsStrictPrefix(path, path)
        BY DEF IsStrictPrefix
      <3> QED
        BY <3>1, <3>2 DEF Content, Inputs, Apart
    <2> QED
      BY <2>1, <2>2
  <1> HIDE DEF d
  <1>4. Inputs(d)
    BY <1>1, <1>3 DEF Inputs, Content
  <1>5. Edited(c, d, path[1])
    BY <1>1, <1>4 DEF Edited, Content
  <1> QED
    BY <1>2, <1>5

LEMMA EditEdits ==
  ASSUME NEW c, Content(c), NEW path \in Path, path[1] \in DOMAIN c.actions, NEW text,
         ~pendingBlocks(c, path)
  PROVE  Edited(c, editValue(c, path, text), path[1])
  <1> DEFINE p == With(c.pending, path, text)
  <1>1. /\ IsMap(p) /\ DOMAIN p = DOMAIN c.pending \union {path}
        /\ \A q \in DOMAIN c.pending : q # path => p[q] = c.pending[q]
    BY DEF IsMap, With
  <1>2. editValue(c, path, text) = setValue(c, path, text.of)
        \/ editValue(c, path, text) = [c EXCEPT !.pending = p]
    BY DEF editValue
  <1> HIDE DEF p
  <1>3. CASE editValue(c, path, text) = setValue(c, path, text.of)
    BY <1>3, SetEdits
  <1>4. CASE editValue(c, path, text) = [c EXCEPT !.pending = p]
    BY <1>1, <1>4, PendingEdits
  <1> QED
    BY <1>2, <1>3, <1>4

-----------------------------------------------------------------------------
(* What is entered stays when an action changes. *)

Shown(c, i, t) ==
  CASE t = "name" -> c.actions[i].name
    [] t = c.actions[i].type -> Current(c, i)
    [] OTHER -> Restored(c, i, t)
Views == Types \union {"name"}

LEMMA EnteredIs ==
  ASSUME NEW c
  PROVE  Entered(c) = [i \in DOMAIN c.actions |-> [t \in Views |-> Shown(c, i, t)]]
  BY DEF Entered, Views, Shown

LEMMA SameRestored ==
  ASSUME NEW c, NEW d, NEW i, NEW j, NEW t,
         i \in DOMAIN c.variants <=> j \in DOMAIN d.variants,
         i \in DOMAIN c.variants => c.variants[i] = d.variants[j]
  PROVE  Restored(c, i, t) = Restored(d, j, t)
  BY DEF Restored, Variants, Has

LEMMA RestoredInput ==
  ASSUME NEW c, Kept(c), NEW i, NEW t
  PROVE  Input(Restored(c, i, t))
  BY NothingWithin DEF Restored, Variants, Has, Kept

\* Whoever is left alone shows what it showed.
LEMMA SameShown ==
  ASSUME NEW c, Content(c), NEW d, Content(d), NEW i \in DOMAIN c.actions, NEW j \in DOMAIN d.actions,
         c.actions[i] = d.actions[j],
         i \in DOMAIN c.variants <=> j \in DOMAIN d.variants,
         i \in DOMAIN c.variants => c.variants[i] = d.variants[j],
         \A r \in Rel : /\ <<i>> \o r \in DOMAIN c.pending <=> <<j>> \o r \in DOMAIN d.pending
                        /\ <<i>> \o r \in DOMAIN c.pending =>
                             c.pending[<<i>> \o r] = d.pending[<<j>> \o r]
  PROVE  \A t \in Views : Shown(c, i, t) = Shown(d, j, t)
  <1>1. i \in Nat /\ j \in Nat
    BY PlanDomain DEF Content
  <1>2. Current(c, i) = Current(d, j)
    BY <1>1, SameCurrent DEF Content
  <1>3. \A t \in Views : Restored(c, i, t) = Restored(d, j, t)
    BY SameRestored
  <1> QED
    BY <1>2, <1>3 DEF Shown

\* The paths of another action are the same below it.
LEMMA OthersPaths ==
  ASSUME NEW p, NEW s, NEW i, NEW j \in Nat, j # i,
         \A q \in Path : q[1] # i =>
            /\ q \in DOMAIN s <=> q \in DOMAIN p
            /\ q \in DOMAIN p => s[q] = p[q]
  PROVE  \A r \in Rel : /\ <<j>> \o r \in DOMAIN p <=> <<j>> \o r \in DOMAIN s
                        /\ <<j>> \o r \in DOMAIN p => p[<<j>> \o r] = s[<<j>> \o r]
  <1> TAKE r \in Rel
  <1> DEFINE q == <<j>> \o r
  <1>1. q \in Path /\ q[1] = j
    BY Within
  <1> HIDE DEF q
  <1>2. /\ q \in DOMAIN p <=> q \in DOMAIN s
        /\ q \in DOMAIN p => p[q] = s[q]
    BY <1>1
  <1> QED
    BY <1>2 DEF q

LEMMA EditedKeeps ==
  ASSUME NEW c, Content(c), NEW d, NEW i \in DOMAIN c.actions, Edited(c, d, i)
  PROVE  Entered(d) = [Entered(c) EXCEPT
           ![i] = [@ EXCEPT ![c.actions[i].type] = Entered(d)[i][c.actions[i].type]]]
  <1> DEFINE type == c.actions[i].type
  <1>1. Content(d) /\ DOMAIN d.actions = DOMAIN c.actions /\ i \in Nat
    BY EditedContent, PlanDomain DEF Content, Edited
  <1>2. type \in Types /\ type # "name"
    <2>1. type \in Types
      BY PlanDomain DEF Content, Plan
    <2> QED
      BY <2>1 DEF Types
  <1>3. ASSUME NEW j \in DOMAIN c.actions, j # i
        PROVE  \A t \in Views : Shown(d, j, t) = Shown(c, j, t)
    <2>1. c.actions[j] = d.actions[j] /\ c.variants = d.variants /\ j \in Nat
      BY <1>3, PlanDomain DEF Edited, Content
    <2>2. \A r \in Rel : /\ <<j>> \o r \in DOMAIN c.pending <=> <<j>> \o r \in DOMAIN d.pending
                         /\ <<j>> \o r \in DOMAIN c.pending =>
                              c.pending[<<j>> \o r] = d.pending[<<j>> \o r]
      <3> DEFINE p == c.pending  s == d.pending
      <3>1. \A q \in Path : q[1] # i => /\ q \in DOMAIN s <=> q \in DOMAIN p
                                        /\ q \in DOMAIN p => s[q] = p[q]
        BY DEF Edited
      <3> HIDE DEF p, s
      <3>2. \A r \in Rel : /\ <<j>> \o r \in DOMAIN p <=> <<j>> \o r \in DOMAIN s
                           /\ <<j>> \o r \in DOMAIN p => p[<<j>> \o r] = s[<<j>> \o r]
        BY <1>3, <2>1, <3>1, OthersPaths
      <3> QED
        BY <3>2 DEF p, s
    <2>3. \A t \in Views : Shown(c, j, t) = Shown(d, j, t)
      BY <1>1, <2>1, <2>2, SameShown
    <2> QED
      BY <2>3
  <1>4. ASSUME NEW t \in Views, t # type
        PROVE  Shown(d, i, t) = Shown(c, i, t)
    <2>1. d.actions[i].name = c.actions[i].name /\ d.actions[i].type = type
      BY DEF Edited
    <2>2. Restored(d, i, t) = Restored(c, i, t)
      BY SameRestored DEF Edited
    <2> HIDE DEF type
    <2>3. CASE t = "name"
      BY <1>2, <2>1, <2>3 DEF Shown, type
    <2>4. CASE t # "name"
      <3>1. Shown(d, i, t) = Restored(d, i, t)
        BY <1>4, <2>1, <2>4 DEF Shown
      <3>2. Shown(c, i, t) = Restored(c, i, t)
        BY <1>4, <2>4 DEF Shown, type
      <3> QED
        BY <2>2, <3>1, <3>2
    <2> QED
      BY <2>3, <2>4
  <1> DEFINE old == Entered(c)  new == Entered(d)
  <1>5. old = [j \in DOMAIN c.actions |-> [t \in Views |-> Shown(c, j, t)]]
        /\ new = [j \in DOMAIN c.actions |-> [t \in Views |-> Shown(d, j, t)]]
    BY <1>1, EnteredIs
  <1> HIDE DEF old, new, type
  <1>6. type \in Views
    BY <1>2 DEF Views
  <1> DEFINE x == [old[i] EXCEPT ![type] = new[i][type]]
  <1>7. x = new[i]
    BY <1>4, <1>5, <1>6
  <1>8. \A j \in DOMAIN c.actions : j # i => new[j] = old[j]
    BY <1>3, <1>5
  <1> HIDE DEF x
  <1>9. new = [old EXCEPT ![i] = x]
    BY <1>5, <1>7, <1>8
  <1> QED
    BY <1>9 DEF x, old, new, type

-----------------------------------------------------------------------------
(* A change of type. *)

\* A plan with one action replaced.
LEMMA ActionSet ==
  ASSUME NEW c, Content(c), NEW i \in DOMAIN c.actions, NEW b, b.type \in Types,
         b = [name |-> b.name, type |-> b.type, fields |-> b.fields]
  PROVE  LET acts == [c.actions EXCEPT ![i] = b] IN
         /\ Plan(acts) /\ Len(acts) = Len(c.actions) /\ DOMAIN acts = DOMAIN c.actions
         /\ acts[i] = b /\ \A j \in DOMAIN c.actions : j # i => acts[j] = c.actions[j]
  <1> DEFINE a == c.actions  acts == [a EXCEPT ![i] = b]
  <1>1. Plan(a) /\ DOMAIN a = 1 .. Len(a) /\ Len(a) \in Nat
    BY PlanDomain DEF Content
  <1>2. /\ acts \in Seq({a[j] : j \in 1 .. Len(a)} \union {b}) /\ Len(acts) = Len(a)
        /\ acts = [j \in 1 .. Len(a) |-> acts[j]] /\ DOMAIN acts = 1 .. Len(a)
        /\ \A j \in 1 .. Len(a) : acts[j] = IF j = i THEN b ELSE a[j]
    BY <1>1 DEF Plan
  <1> HIDE DEF a, acts
  <1>3. ASSUME NEW j \in 1 .. Len(acts)
        PROVE  /\ acts[j] = [name |-> acts[j].name, type |-> acts[j].type, fields |-> acts[j].fields]
               /\ acts[j].type \in Types
    <2>1. CASE j = i
      BY <2>1, <1>2
    <2>2. CASE j # i
      BY <2>2, <1>1, <1>2 DEF Plan
    <2> QED
      BY <2>1, <2>2
  <1>4. Plan(acts)
    BY <1>1, <1>2, <1>3 DEF Plan
  <1>5. acts[i] = b /\ \A j \in DOMAIN a : j # i => acts[j] = a[j]
    BY <1>1, <1>2 DEF a
  <1> QED
    BY <1>1, <1>2, <1>4, <1>5 DEF a, acts

Typed(a, t, f) == [a EXCEPT !.type = t, !.fields = f]

LEMMA Retyped ==
  ASSUME NEW a, NEW t, NEW f, a = [name |-> a.name, type |-> a.type, fields |-> a.fields]
  PROVE  Typed(a, t, f) = [name |-> a.name, type |-> t, fields |-> f]
  <1> DEFINE b == [a EXCEPT !.type = t]
  <1>1. Typed(a, t, f) = [b EXCEPT !.fields = f]
    BY DEF Typed
  <1>2. b = [name |-> a.name, type |-> t, fields |-> a.fields]
    OBVIOUS
  <1> HIDE DEF b
  <1>3. b = [name |-> b.name, type |-> b.type, fields |-> b.fields] /\ b.name = a.name /\ b.type = t
    BY <1>2
  <1>4. [b EXCEPT !.fields = f] = [name |-> b.name, type |-> b.type, fields |-> f]
    BY <1>3
  <1> QED
    BY <1>1, <1>3, <1>4

Others(c, i, type) ==
  Restrict(Variants(c, i), DOMAIN Variants(c, i) \ {type, c.actions[i].type})
Remaining(c, i, type) ==
  IF Current(c, i) = Blank THEN Others(c, i, type)
  ELSE With(Others(c, i, type), c.actions[i].type, Current(c, i))
NewPending(c, i, p) ==
  [q \in (DOMAIN c.pending \ PathsOf(c, i)) \union {<<i>> \o r : r \in DOMAIN p} |->
     IF q[1] = i THEN p[Tail(q)] ELSE c.pending[q]]
NewVariants(c, i, remaining) ==
  IF remaining = <<>> THEN Without(c.variants, i) ELSE With(c.variants, i, remaining)

LEMMA SwitchIs ==
  ASSUME NEW c, Known(c), NEW i, NEW type
  PROVE  switchActionType(c, i, type) =
           Rec(c.parses,
               [c.actions EXCEPT ![i] = Typed(@, type, Restored(c, i, type).fields)],
               NewPending(c, i, Restored(c, i, type).pending),
               NewVariants(c, i, Remaining(c, i, type)))
  <1>1. switchActionType(c, i, type) =
          Rewritten(c, [c.actions EXCEPT ![i] = Typed(@, type, Restored(c, i, type).fields)],
                    NewPending(c, i, Restored(c, i, type).pending),
                    NewVariants(c, i, Remaining(c, i, type)))
    BY DEF Rewritten, switchActionType, NewPending, NewVariants, Remaining, Others, Typed
  <1> QED
    BY <1>1, ThreeParts

OrBlank(m, t) == IF t \in DOMAIN m THEN m[t] ELSE Blank

\* What was entered under the other types, after a change of type.
LEMMA RemainingIs ==
  ASSUME NEW c, Content(c), NEW i \in DOMAIN c.actions, NEW type
  PROVE  LET m == Remaining(c, i, type)
             now == c.actions[i].type IN
         /\ IsMap(m)
         /\ type # now => type \notin DOMAIN m
         /\ \A t \in DOMAIN m : Input(m[t])
         /\ \A t : t \notin {type, now} => OrBlank(m, t) = Restored(c, i, t)
         /\ OrBlank(m, now) = Current(c, i)
  <1> DEFINE v == Variants(c, i)  now == c.actions[i].type
             o == Others(c, i, type)  m == Remaining(c, i, type)  cur == Current(c, i)
  <1>1. \A t \in DOMAIN v : Input(v[t])
    BY NothingWithin DEF Variants, Has, Content, Kept
  <1>2. /\ IsMap(o) /\ DOMAIN o = DOMAIN v \ {type, now}
        /\ \A t \in DOMAIN o : o[t] = v[t]
    BY Restricting DEF Others
  <1>3. Input(cur)
    BY UnderIsInput, PlanDomain DEF Content
  <1>4. \A t : Restored(c, i, t) = OrBlank(v, t)
    BY DEF Restored, Has, OrBlank
  <1> HIDE DEF v
  <1>5. CASE cur = Blank
    <2>1. m = o
      BY <1>5 DEF Remaining
    <2> HIDE DEF o, m, cur, now
    <2> QED
      BY <1>1, <1>2, <1>3, <1>4, <1>5, <2>1 DEF m, cur, now, OrBlank
  <1>6. CASE cur # Blank
    <2>1. m = With(o, now, cur)
      BY <1>6 DEF Remaining
    <2> HIDE DEF o, m, cur, now
    <2>2. /\ IsMap(m) /\ DOMAIN m = DOMAIN o \union {now} /\ m[now] = cur
          /\ \A t \in DOMAIN o : t # now => m[t] = o[t]
      BY <2>1 DEF With, IsMap
    <2> QED
      BY <1>1, <1>2, <1>3, <1>4, <1>6, <2>2 DEF m, cur, now, OrBlank
  <1> QED
    BY <1>5, <1>6

\* The paths after a change of type: those of the others, and the restored ones.
LEMMA NewPaths ==
  ASSUME NEW c, Inputs(c), NEW i \in DOMAIN c.actions, i \in Nat, NEW x, Input(x)
  PROVE  LET p == NewPending(c, i, x.pending) IN
         /\ IsMap(p) /\ Apart(DOMAIN p)
         /\ \A q \in DOMAIN p : q \in Path /\ q[1] \in DOMAIN c.actions
         /\ \A q \in Path : q[1] # i => /\ q \in DOMAIN p <=> q \in DOMAIN c.pending
                                        /\ q \in DOMAIN c.pending => p[q] = c.pending[q]
         /\ \A r \in Rel : /\ <<i>> \o r \in DOMAIN p <=> r \in DOMAIN x.pending
                           /\ r \in DOMAIN x.pending => p[<<i>> \o r] = x.pending[r]
  <1> DEFINE s == x.pending  p == NewPending(c, i, s)
             own == {<<i>> \o r : r \in DOMAIN s}
             others == {q \in DOMAIN c.pending : q[1] # i}
  <1>1. DOMAIN s \subseteq Rel /\ Apart(DOMAIN s)
    BY DEF Input
  <1> HIDE DEF s
  <1>2. DOMAIN c.pending \ PathsOf(c, i) = others
    BY PathsOfIs
  <1>3. /\ IsMap(p) /\ DOMAIN p = others \union own
        /\ \A q \in DOMAIN p : p[q] = IF q[1] = i THEN s[Tail(q)] ELSE c.pending[q]
    BY <1>2 DEF NewPending, IsMap
  <1>4. ASSUME NEW q \in own
        PROVE  q \in Path /\ q[1] = i /\ Tail(q) \in DOMAIN s
    <2>1. PICK r \in DOMAIN s : q = <<i>> \o r
      OBVIOUS
    <2> QED
      BY <1>1, <2>1, Within
  <1>5. ASSUME NEW r \in Rel
        PROVE  /\ <<i>> \o r \in Path /\ (<<i>> \o r)[1] = i /\ Tail(<<i>> \o r) = r
               /\ <<i>> \o r \in own <=> r \in DOMAIN s
    <2>1. <<i>> \o r \in Path /\ (<<i>> \o r)[1] = i /\ Tail(<<i>> \o r) = r
      BY Within
    <2>2. r \in DOMAIN s => <<i>> \o r \in own
      OBVIOUS
    <2>3. <<i>> \o r \in own => r \in DOMAIN s
      BY <1>4, <2>1
    <2> QED
      BY <2>1, <2>2, <2>3
  <1> HIDE DEF own
  <1>6. \A q \in others : q \in Path /\ q[1] \in DOMAIN c.actions /\ q[1] # i /\ q \in DOMAIN c.pending
    BY DEF Inputs
  <1>7. \A q \in Path : q[1] # i => (q \in others <=> q \in DOMAIN c.pending)
    OBVIOUS
  <1> HIDE DEF others, p
  <1>8. \A q \in DOMAIN p : q \in Path /\ q[1] \in DOMAIN c.actions
    BY <1>3, <1>4, <1>6
  <1>9. \A q \in Path : q[1] # i => /\ q \in DOMAIN p <=> q \in DOMAIN c.pending
                                    /\ q \in DOMAIN c.pending => p[q] = c.pending[q]
    BY <1>3, <1>4, <1>7
  <1>10. ASSUME NEW r \in Rel
         PROVE  /\ <<i>> \o r \in DOMAIN p <=> r \in DOMAIN s
                /\ r \in DOMAIN s => p[<<i>> \o r] = s[r]
    <2> DEFINE q == <<i>> \o r
    <2>1. q \in Path /\ q[1] = i /\ Tail(q) = r /\ (q \in own <=> r \in DOMAIN s)
      BY <1>5
    <2> HIDE DEF q
    <2>2. q \in DOMAIN p <=> r \in DOMAIN s
      BY <1>3, <1>6, <2>1
    <2>3. r \in DOMAIN s => p[q] = s[r]
      BY <1>3, <2>1, <2>2
    <2> QED
      BY <2>2, <2>3 DEF q
  <1>11. ASSUME NEW q \in DOMAIN p, NEW u \in DOMAIN p, IsStrictPrefix(q, u)
         PROVE  FALSE
    <2>1. q \in Path /\ u \in Path
      BY <1>8
    <2>2. q[1] = u[1] /\ IsStrictPrefix(Tail(q), Tail(u))
      BY <1>11, <2>1, PathWithin
    <2>3. CASE q[1] = i
      <3>1. q \in own /\ u \in own
        BY <1>3, <1>6, <2>2, <2>3
      <3>2. Tail(q) \in DOMAIN s /\ Tail(u) \in DOMAIN s
        BY <1>4, <3>1
      <3> QED
        BY <1>1, <2>2, <3>2 DEF Apart
    <2>4. CASE q[1] # i
      <3>1. q \in DOMAIN c.pending /\ u \in DOMAIN c.pending
        BY <1>3, <1>4, <1>6, <2>2, <2>4
      <3> QED
        BY <1>11, <3>1 DEF Inputs, Apart
    <2> QED
      BY <2>3, <2>4
  <1>12. Apart(DOMAIN p)
    BY <1>11 DEF Apart
  <1>13. IsMap(p)
    BY <1>3
  <1> QED
    BY <1>8, <1>9, <1>10, <1>12, <1>13 DEF p, s

LEMMA NewVariantsIs ==
  ASSUME NEW c, NEW i, NEW m
  PROVE  LET v == NewVariants(c, i, m) IN
         /\ IsMap(v) /\ DOMAIN v \subseteq DOMAIN c.variants \union {i}
         /\ \A j : j # i => /\ j \in DOMAIN v <=> j \in DOMAIN c.variants
                            /\ j \in DOMAIN c.variants => v[j] = c.variants[j]
         /\ i \in DOMAIN v => v[i] = m
         /\ i \notin DOMAIN v => m = <<>>
  <1> DEFINE v == NewVariants(c, i, m)
  <1>1. CASE m = <<>>
    <2>1. v = Restrict(c.variants, DOMAIN c.variants \ {i})
      BY <1>1 DEF NewVariants, Without
    <2>2. /\ IsMap(v) /\ DOMAIN v = DOMAIN c.variants \ {i}
          /\ \A j \in DOMAIN v : v[j] = c.variants[j]
      BY <2>1, Restricting
    <2> HIDE DEF v
    <2> QED
      BY <1>1, <2>2 DEF v
  <1>2. CASE m # <<>>
    <2>1. v = With(c.variants, i, m)
      BY <1>2 DEF NewVariants
    <2>2. /\ IsMap(v) /\ DOMAIN v = DOMAIN c.variants \union {i} /\ v[i] = m
          /\ \A j \in DOMAIN c.variants : j # i => v[j] = c.variants[j]
      BY <2>1 DEF With, IsMap
    <2> HIDE DEF v
    <2> QED
      BY <1>2, <2>2 DEF v
  <1> QED
    BY <1>1, <1>2

\* A change of type keeps everything entered, under whichever type.
LEMMA SwitchKeeps ==
  ASSUME NEW c, Content(c), NEW i \in DOMAIN c.actions, NEW type \in Types,
         type # c.actions[i].type
  PROVE  LET d == switchActionType(c, i, type) IN Content(d) /\ Entered(d) = Entered(c)
  <1> DEFINE x == Restored(c, i, type)
             b == Typed(c.actions[i], type, x.fields)
             acts == [c.actions EXCEPT ![i] = b]
             p == NewPending(c, i, x.pending)
             m == Remaining(c, i, type)
             v == NewVariants(c, i, m)
             d == Rec(c.parses, acts, p, v)
             now == c.actions[i].type
  <1>1. switchActionType(c, i, type) = d
    BY SwitchIs DEF Content
  <1>2. Known(d) /\ d.actions = acts /\ d.pending = p /\ d.variants = v
    BY Parts
  <1>3. i \in Nat /\ Plan(c.actions) /\ Inputs(c) /\ Kept(c)
    BY PlanDomain DEF Content
  <1>4. now \in Types /\ now # "name" /\ type # "name"
    <2>1. now \in Types
      BY <1>3, PlanDomain DEF Plan
    <2> QED
      BY <2>1 DEF Types
  <1>5. b = [name |-> c.actions[i].name, type |-> type, fields |-> x.fields]
    <2>1. c.actions[i] = [name |-> c.actions[i].name, type |-> c.actions[i].type,
                          fields |-> c.actions[i].fields]
      BY <1>3, PlanDomain DEF Plan
    <2> HIDE DEF x
    <2> QED
      BY <2>1, Retyped
  <1>6. Input(x)
    BY <1>3, RestoredInput
  <1> HIDE DEF b
  <1>7. /\ b = [name |-> b.name, type |-> b.type, fields |-> b.fields] /\ b.type \in Types
        /\ b.name = c.actions[i].name /\ b.type = type /\ b.fields = x.fields
    BY <1>5
  <1>8. /\ Plan(acts) /\ Len(acts) = Len(c.actions) /\ DOMAIN acts = DOMAIN c.actions
        /\ acts[i] = b /\ \A j \in DOMAIN c.actions : j # i => acts[j] = c.actions[j]
    BY <1>7, ActionSet
  <1>9. /\ IsMap(p) /\ Apart(DOMAIN p)
        /\ \A q \in DOMAIN p : q \in Path /\ q[1] \in DOMAIN c.actions
        /\ \A q \in Path : q[1] # i => /\ q \in DOMAIN p <=> q \in DOMAIN c.pending
                                       /\ q \in DOMAIN c.pending => p[q] = c.pending[q]
        /\ \A r \in Rel : /\ <<i>> \o r \in DOMAIN p <=> r \in DOMAIN x.pending
                          /\ r \in DOMAIN x.pending => p[<<i>> \o r] = x.pending[r]
    BY <1>3, <1>6, NewPaths
  <1>10. /\ IsMap(m) /\ type \notin DOMAIN m /\ \A t \in DOMAIN m : Input(m[t])
         /\ \A t : t \notin {type, now} => OrBlank(m, t) = Restored(c, i, t)
         /\ OrBlank(m, now) = Current(c, i)
    <2>1. /\ IsMap(m)
          /\ type # now => type \notin DOMAIN m
          /\ \A t \in DOMAIN m : Input(m[t])
          /\ \A t : t \notin {type, now} => OrBlank(m, t) = Restored(c, i, t)
          /\ OrBlank(m, now) = Current(c, i)
      BY RemainingIs
    <2>2. type # now
      OBVIOUS
    <2> HIDE DEF m, now
    <2> QED
      BY <2>1, <2>2
  <1>11. /\ IsMap(v) /\ DOMAIN v \subseteq DOMAIN c.variants \union {i}
         /\ \A j : j # i => /\ j \in DOMAIN v <=> j \in DOMAIN c.variants
                            /\ j \in DOMAIN c.variants => v[j] = c.variants[j]
         /\ i \in DOMAIN v => v[i] = m
         /\ i \notin DOMAIN v => m = <<>>
    BY NewVariantsIs
  <1> HIDE DEF acts, p, m, v, d, now, x
  <1>12. Inputs(d)
    BY <1>2, <1>8, <1>9 DEF Inputs
  <1>13. Kept(d)
    <2>1. DOMAIN v \subseteq DOMAIN c.actions
      BY <1>3, <1>11 DEF Kept
    <2>2. ASSUME NEW j \in DOMAIN v
          PROVE  IsMap(v[j]) /\ \A t \in DOMAIN v[j] : Input(v[j][t])
      <3>1. CASE j = i
        BY <3>1, <1>10, <1>11
      <3>2. CASE j # i
        BY <3>2, <1>3, <1>11 DEF Kept
      <3> QED
        BY <3>1, <3>2
    <2> QED
      BY <1>2, <1>8, <1>11, <2>1, <2>2 DEF Kept
  <1>14. Content(d)
    BY <1>2, <1>8, <1>12, <1>13 DEF Content
  <1>15. \A t : Restored(d, i, t) = OrBlank(m, t)
    BY <1>2, <1>11, NothingWithin DEF Restored, Variants, Has, OrBlank
  <1>16. Current(d, i) = x
    <2>1. Under(d, i) = [r \in {y \in Rel : y \in DOMAIN x.pending} |-> x.pending[r]]
      BY <1>2, <1>9 DEF Under
    <2>2. DOMAIN x.pending \subseteq Rel /\ x.pending = [r \in DOMAIN x.pending |-> x.pending[r]]
          /\ x = [fields |-> x.fields, pending |-> x.pending]
      BY <1>6 DEF Input, IsMap
    <2>3. {y \in Rel : y \in DOMAIN x.pending} = DOMAIN x.pending
      BY <2>2
    <2>4. Under(d, i) = x.pending
      BY <2>1, <2>2, <2>3
    <2>5. d.actions[i].fields = x.fields
      BY <1>2, <1>7, <1>8
    <2> QED
      BY <1>3, <1>12, <2>2, <2>4, <2>5, CurrentIs
  <1>17. ASSUME NEW t \in Views
         PROVE  Shown(d, i, t) = Shown(c, i, t)
    <2>1. d.actions[i].name = c.actions[i].name /\ d.actions[i].type = type
      BY <1>2, <1>7, <1>8
    <2>2. CASE t = "name"
      BY <1>4, <2>1, <2>2 DEF Shown, now
    <2>3. CASE t = type
      <3>1. Shown(d, i, t) = Current(d, i)
        BY <1>4, <2>1, <2>3 DEF Shown
      <3>2. Shown(c, i, t) = Restored(c, i, type)
        BY <1>4, <2>3 DEF Shown
      <3> QED
        BY <1>16, <3>1, <3>2 DEF x
    <2>4. CASE t = now
      <3>1. Shown(d, i, t) = Restored(d, i, now)
        BY <1>4, <2>1, <2>4 DEF Shown, now
      <3>2. Shown(c, i, t) = Current(c, i)
        BY <1>4, <2>4 DEF Shown, now
      <3> QED
        BY <1>10, <1>15, <3>1, <3>2
    <2>5. CASE t \notin {"name", type, now}
      <3>1. Shown(d, i, t) = Restored(d, i, t)
        BY <2>1, <2>5 DEF Shown
      <3>2. Shown(c, i, t) = Restored(c, i, t)
        BY <2>5 DEF Shown, now
      <3> QED
        BY <1>10, <1>15, <2>5, <3>1, <3>2
    <2> QED
      BY <2>2, <2>3, <2>4, <2>5
  <1>18. ASSUME NEW j \in DOMAIN c.actions, j # i
         PROVE  \A t \in Views : Shown(d, j, t) = Shown(c, j, t)
    <2>1. c.actions[j] = d.actions[j] /\ j \in Nat /\ j \in DOMAIN d.actions
      BY <1>2, <1>3, <1>8, <1>18, PlanDomain
    <2>2. \A r \in Rel : /\ <<j>> \o r \in DOMAIN c.pending <=> <<j>> \o r \in DOMAIN p
                         /\ <<j>> \o r \in DOMAIN c.pending =>
                              c.pending[<<j>> \o r] = p[<<j>> \o r]
      BY <1>9, <1>18, <2>1, OthersPaths
    <2>3. \A t \in Views : Shown(c, j, t) = Shown(d, j, t)
      BY <1>2, <1>11, <1>14, <1>18, <2>1, <2>2, SameShown
    <2> QED
      BY <2>3
  <1>19. Entered(d) = Entered(c)
    <2>1. /\ Entered(d) = [j \in DOMAIN c.actions |-> [t \in Views |-> Shown(d, j, t)]]
          /\ Entered(c) = [j \in DOMAIN c.actions |-> [t \in Views |-> Shown(c, j, t)]]
      BY <1>2, <1>8, EnteredIs
    <2>2. \A j \in DOMAIN c.actions : \A t \in Views : Shown(d, j, t) = Shown(c, j, t)
      BY <1>17, <1>18
    <2> QED
      BY <2>1, <2>2
  <1> QED
    BY <1>1, <1>14, <1>19

-----------------------------------------------------------------------------
(* Another name. *)

Named(a, n) == [a EXCEPT !.name = n]
Renamed(c, i, n) == [c EXCEPT !.actions[i].name = n]

LEMMA RenameKeeps ==
  ASSUME NEW c, Content(c), NEW i \in DOMAIN c.actions, NEW n
  PROVE  LET d == Renamed(c, i, n) IN
         /\ Content(d) /\ d.actions[i].type = c.actions[i].type
         /\ Entered(d) = [Entered(c) EXCEPT ![i] = [@ EXCEPT !["name"] = Entered(d)[i]["name"]]]
  <1> DEFINE a == c.actions[i]
             b == Named(a, n)
             acts == [c.actions EXCEPT ![i] = b]
             d == Rec(c.parses, acts, c.pending, c.variants)
  <1>1. Known(c) /\ i \in Nat /\ Plan(c.actions) /\ Inputs(c) /\ Kept(c)
    BY PlanDomain DEF Content
  <1>2. Renamed(c, i, n) = d
    <2>1. Renamed(c, i, n) = [c EXCEPT !.actions = acts]
      BY DEF Renamed, Named
    <2> HIDE DEF acts
    <2> QED
      BY <1>1, <2>1, ActionsPart
  <1>3. a = [name |-> a.name, type |-> a.type, fields |-> a.fields] /\ a.type \in Types
    BY <1>1, PlanDomain DEF Plan
  <1>4. a.type # "name"
    BY <1>3 DEF Types
  <1>5. b = [name |-> n, type |-> a.type, fields |-> a.fields]
    <2> HIDE DEF a
    <2> QED
      BY <1>3 DEF Named
  <1> HIDE DEF b
  <1>6. /\ b = [name |-> b.name, type |-> b.type, fields |-> b.fields] /\ b.type \in Types
        /\ b.type = a.type /\ b.fields = a.fields
    BY <1>3, <1>5
  <1>7. /\ Plan(acts) /\ Len(acts) = Len(c.actions) /\ DOMAIN acts = DOMAIN c.actions
        /\ acts[i] = b /\ \A j \in DOMAIN c.actions : j # i => acts[j] = c.actions[j]
    BY <1>6, ActionSet
  <1>8. Known(d) /\ d.actions = acts /\ d.pending = c.pending /\ d.variants = c.variants
    BY Parts
  <1> HIDE DEF acts, d
  <1>9. Content(d)
    BY <1>1, <1>7, <1>8 DEF Content, Inputs, Kept
  <1>10. \A j \in DOMAIN c.actions : j # i => \A t \in Views : Shown(c, j, t) = Shown(d, j, t)
    BY <1>7, <1>8, <1>9, SameShown
  <1>11. Current(c, i) = Current(d, i) /\ \A t \in Views : Restored(c, i, t) = Restored(d, i, t)
    <2>1. c.actions[i].fields = d.actions[i].fields
      BY <1>6, <1>7, <1>8
    <2>2. \A r \in Rel : /\ <<i>> \o r \in DOMAIN c.pending <=> <<i>> \o r \in DOMAIN d.pending
                         /\ <<i>> \o r \in DOMAIN c.pending =>
                              c.pending[<<i>> \o r] = d.pending[<<i>> \o r]
      BY <1>8
    <2>3. Inputs(d)
      BY <1>9 DEF Content
    <2>4. Current(c, i) = Current(d, i)
      BY <1>1, <2>1, <2>2, <2>3, SameCurrent
    <2>5. \A t \in Views : Restored(c, i, t) = Restored(d, i, t)
      BY <1>8, SameRestored
    <2> QED
      BY <2>4, <2>5
  <1>12. ASSUME NEW t \in Views, t # "name"
         PROVE  Shown(d, i, t) = Shown(c, i, t)
    <2>1. d.actions[i].type = c.actions[i].type
      BY <1>6, <1>7, <1>8
    <2> QED
      BY <1>11, <1>12, <2>1 DEF Shown
  <1> DEFINE old == Entered(c)  new == Entered(d)
  <1>13. old = [j \in DOMAIN c.actions |-> [t \in Views |-> Shown(c, j, t)]]
         /\ new = [j \in DOMAIN c.actions |-> [t \in Views |-> Shown(d, j, t)]]
    BY <1>7, <1>8, EnteredIs
  <1> HIDE DEF old, new
  <1> DEFINE x == [old[i] EXCEPT !["name"] = new[i]["name"]]
  <1>14. x = new[i]
    BY <1>12, <1>13 DEF Views
  <1>15. \A j \in DOMAIN c.actions : j # i => new[j] = old[j]
    BY <1>10, <1>13
  <1> HIDE DEF x
  <1>16. new = [old EXCEPT ![i] = x]
    BY <1>13, <1>14, <1>15
  <1> QED
    BY <1>2, <1>6, <1>7, <1>8, <1>9, <1>16 DEF x, old, new

-----------------------------------------------------------------------------
(* A new action, which nothing was entered for. *)

LEMMA AddKeeps ==
  ASSUME NEW c, Content(c)
  PROVE  LET d == appendDraftAction(c)
             first == Entered(d)[Len(Entered(d))] IN
         /\ Content(d) /\ Entered(d) = Append(Entered(c), first)
         /\ \A t \in Types : first[t] = Blank
  <1> DEFINE n == Len(c.actions)
             b == [name |-> DefaultName(n + 1), type |-> "none", fields |-> Empty]
             acts == Append(c.actions, b)
             d == Rec(c.parses, acts, c.pending, c.variants)
  <1>1. /\ Known(c) /\ Plan(c.actions) /\ Inputs(c) /\ Kept(c)
        /\ DOMAIN c.actions = 1 .. n /\ n \in Nat
    BY PlanDomain DEF Content
  <1>2. appendDraftAction(c) = d
    <2>1. appendDraftAction(c) = [c EXCEPT !.actions = acts]
      BY DEF appendDraftAction
    <2> HIDE DEF acts
    <2> QED
      BY <1>1, <2>1, ActionsPart
  <1>3. b = [name |-> b.name, type |-> b.type, fields |-> b.fields] /\ b.type = "none"
        /\ b.fields = Empty /\ "none" \in Types /\ "none" # "name" /\ "name" \notin Types
    BY DEF Types
  <1> HIDE DEF b
  <1>4. /\ Len(acts) = n + 1 /\ acts = [j \in 1 .. n + 1 |-> acts[j]] /\ DOMAIN acts = 1 .. n + 1
        /\ acts[n + 1] = b /\ \A j \in 1 .. n : acts[j] = c.actions[j]
    <2>1. c.actions \in Seq({c.actions[j] : j \in 1 .. n} \union {b})
      BY <1>1 DEF Plan
    <2> QED
      BY <2>1, <1>1
  <1> HIDE DEF acts
  <1>5. Plan(acts)
    <2>1. ASSUME NEW j \in 1 .. n + 1
          PROVE  /\ acts[j] = [name |-> acts[j].name, type |-> acts[j].type, fields |-> acts[j].fields]
                 /\ acts[j].type \in Types
      <3>1. CASE j = n + 1
        BY <3>1, <1>3, <1>4
      <3>2. CASE j # n + 1
        <4>1. j \in 1 .. n
          BY <1>1, <3>2
        <4> QED
          BY <1>1, <1>4, <4>1 DEF Plan
      <3> QED
        BY <3>1, <3>2
    <2>2. n + 1 \in Nat
      BY <1>1
    <2>3. /\ Len(acts) \in Nat /\ acts = [j \in 1 .. Len(acts) |-> acts[j]]
          /\ 1 .. Len(acts) = 1 .. n + 1
      BY <1>4, <2>2
    <2> QED
      BY <2>1, <2>3 DEF Plan
  <1>6. Known(d) /\ d.actions = acts /\ d.pending = c.pending /\ d.variants = c.variants
    BY Parts
  <1> HIDE DEF d, n
  <1>7. 1 .. n \subseteq 1 .. n + 1 /\ n + 1 \notin 1 .. n /\ n + 1 \in 1 .. n + 1 /\ n + 1 \in Nat
    BY <1>1
  <1>8. Content(d)
    <2>1. Inputs(d)
      BY <1>1, <1>4, <1>6, <1>7 DEF Inputs
    <2>2. DOMAIN c.variants \subseteq DOMAIN acts
      BY <1>1, <1>4, <1>7 DEF Kept
    <2>3. Kept(d)
      BY <1>1, <1>6, <2>2 DEF Kept
    <2> QED
      BY <1>5, <1>6, <2>1, <2>3 DEF Content
  <1>9. ASSUME NEW j \in 1 .. n
        PROVE  \A t \in Views : Shown(c, j, t) = Shown(d, j, t)
    <2>1. j \in DOMAIN c.actions /\ j \in DOMAIN d.actions /\ c.actions[j] = d.actions[j]
      BY <1>1, <1>4, <1>6, <1>7
    <2>2. \A r \in Rel : /\ <<j>> \o r \in DOMAIN c.pending <=> <<j>> \o r \in DOMAIN d.pending
                         /\ <<j>> \o r \in DOMAIN c.pending =>
                              c.pending[<<j>> \o r] = d.pending[<<j>> \o r]
      BY <1>6
    <2> QED
      BY <1>6, <1>8, <2>1, <2>2, SameShown
  <1>10. ASSUME NEW t \in Types
         PROVE  Shown(d, n + 1, t) = Blank
    <2>1. n + 1 \notin DOMAIN d.variants
      BY <1>1, <1>6, <1>7 DEF Kept
    <2>2. Restored(d, n + 1, t) = Blank
      BY <2>1, NothingWithin DEF Restored, Variants, Has
    <2>3. \A r \in Rel : <<n + 1>> \o r \notin DOMAIN d.pending
      <3> TAKE r \in Rel
      <3> DEFINE q == <<n + 1>> \o r
      <3>1. q[1] = n + 1
        BY <1>7, Within
      <3> HIDE DEF q
      <3>2. q \notin DOMAIN d.pending
        BY <1>1, <1>6, <1>7, <3>1 DEF Inputs
      <3> QED
        BY <3>2 DEF q
    <2>4. Under(d, n + 1) = [r \in {} |-> d.pending[<<n + 1>> \o r]]
      BY <2>3 DEF Under
    <2>5. Under(d, n + 1) = <<>>
      BY <2>4
    <2>6. Current(d, n + 1) = Blank
      BY <1>3, <1>4, <1>6, <1>7, <1>8, <2>5, CurrentIs DEF Blank, Content
    <2> QED
      BY <1>3, <1>4, <1>6, <2>2, <2>6 DEF Shown
  <1> DEFINE old == Entered(c)  new == Entered(d)
  <1>11. old = [j \in 1 .. n |-> [t \in Views |-> Shown(c, j, t)]]
         /\ new = [j \in 1 .. n + 1 |-> [t \in Views |-> Shown(d, j, t)]]
    BY <1>1, <1>4, <1>6, EnteredIs
  <1> HIDE DEF old, new
  <1>12. \A j \in 1 .. n : new[j] = old[j]
    BY <1>7, <1>9, <1>11
  <1>13. \A t \in Types : new[n + 1][t] = Blank
    BY <1>7, <1>10, <1>11 DEF Views
  <1>14. Len(new) = n + 1 /\ new = Append(old, new[n + 1])
    <2> DEFINE S == {new[j] : j \in 1 .. n + 1}
    <2>1. old \in Seq(S) /\ new \in Seq(S) /\ Len(old) = n /\ Len(new) = n + 1 /\ new[n + 1] \in S
      <3>1. \A j \in 1 .. n : old[j] \in S
        BY <1>7, <1>12
      <3>2. \A j \in 1 .. n + 1 : new[j] \in S
        OBVIOUS
      <3> HIDE DEF S
      <3>3. old = [j \in 1 .. n |-> old[j]] /\ new = [j \in 1 .. n + 1 |-> new[j]]
        BY <1>11
      <3> QED
        BY <1>1, <1>7, <3>1, <3>2, <3>3
    <2> HIDE DEF S
    <2> DEFINE z == new[n + 1]  w == Append(old, z)
    <2>2. w \in Seq(S) /\ Len(w) = n + 1 /\ w[n + 1] = z /\ \A j \in 1 .. n : w[j] = old[j]
      BY <1>1, <2>1
    <2> HIDE DEF w
    <2>3. \A j \in 1 .. n + 1 : w[j] = new[j]
      <3> TAKE j \in 1 .. n + 1
      <3>1. CASE j = n + 1
        BY <2>2, <3>1
      <3>2. CASE j # n + 1
        <4>1. j \in 1 .. n
          BY <1>1, <3>2
        <4> QED
          BY <1>12, <2>2, <4>1
      <3> QED
        BY <3>1, <3>2
    <2>4. w = new
      BY <2>1, <2>2, <2>3, SeqEqual
    <2> QED
      BY <2>1, <2>4 DEF w
  <1> QED
    BY <1>2, <1>8, <1>13, <1>14 DEF old, new

-----------------------------------------------------------------------------
(* An action is removed, and the later ones move down. *)

LEMMA Positions ==
  ASSUME NEW n \in Nat, NEW i \in 1 .. n
  PROVE  /\ n - 1 \in Nat
         /\ \A k \in 1 .. n - 1 : Before(i, k) \in 1 .. n /\ Before(i, k) # i
                                  /\ After(i, Before(i, k)) = k
         /\ \A j \in 1 .. n : j # i => After(i, j) \in 1 .. n - 1 /\ Before(i, After(i, j)) = j
         /\ \A k \in Nat : Before(i, k) \in Nat /\ Before(i, k) # i
                           /\ After(i, Before(i, k)) = k
         /\ \A j \in Nat : j # i => After(i, j) \in Nat /\ Before(i, After(i, j)) = j
  BY DEF Before, After

LEMMA RemovedAt ==
  ASSUME NEW S, NEW s \in Seq(S), NEW i \in 1 .. Len(s)
  PROVE  /\ RemoveAt(s, i) \in Seq(S) /\ Len(RemoveAt(s, i)) = Len(s) - 1
         /\ \A k \in 1 .. Len(s) - 1 : RemoveAt(s, i)[k] = s[Before(i, k)]
  <1> DEFINE n == Len(s)
  <1>0. n \in Nat /\ i \in 1 .. n
    OBVIOUS
  <1> DEFINE a == SubSeq(s, 1, i - 1)  b == SubSeq(s, i + 1, n)  t == a \o b
  <1>1. a \in Seq(S) /\ Len(a) = i - 1 /\ \A k \in 1 .. i - 1 : a[k] = s[k]
    BY <1>0
  <1>2. b \in Seq(S) /\ Len(b) = n - i /\ \A k \in 1 .. n - i : b[k] = s[i + k]
    BY <1>0
  <1>3. RemoveAt(s, i) = t
    BY DEF RemoveAt, n
  <1> HIDE DEF a, b, n
  <1>4. /\ t \in Seq(S) /\ Len(t) = n - 1
        /\ \A k \in 1 .. n - 1 : t[k] = IF k < i THEN a[k] ELSE b[k - (i - 1)]
    <2>1. Len(a) + Len(b) = n - 1 /\ Len(a) \in Nat /\ Len(b) \in Nat
      BY <1>0, <1>1, <1>2
    <2>2. /\ t \in Seq(S) /\ Len(t) = Len(a) + Len(b)
          /\ \A k \in 1 .. Len(a) + Len(b) : t[k] = IF k <= Len(a) THEN a[k] ELSE b[k - Len(a)]
      BY <1>1, <1>2, <2>1, ConcatProperties
    <2>3. \A k \in 1 .. n - 1 : k <= Len(a) <=> k < i
      BY <1>1
    <2> HIDE DEF t
    <2> QED
      BY <1>1, <2>1, <2>2, <2>3
  <1> HIDE DEF t
  <1>5. ASSUME NEW k \in 1 .. n - 1
        PROVE  t[k] = s[Before(i, k)]
    <2>1. CASE k < i
      <3>1. k \in 1 .. i - 1 /\ Before(i, k) = k
        BY <2>1 DEF Before
      <3> QED
        BY <1>1, <1>4, <2>1, <3>1
    <2>2. CASE ~(k < i)
      <3>1. k - (i - 1) \in 1 .. n - i /\ i + (k - (i - 1)) = k + 1 /\ Before(i, k) = k + 1
        BY <1>0, <2>2 DEF Before
      <3>2. b[k - (i - 1)] = s[k + 1]
        BY <1>2, <3>1
      <3> QED
        BY <1>4, <2>2, <3>1, <3>2
    <2> QED
      BY <2>1, <2>2
  <1> QED
    BY <1>3, <1>4, <1>5 DEF n

\* A path of the plan, seen from within its action, with the action moved.
Moved(k, q) == <<k>> \o Tail(q)

LEMMA Moving ==
  ASSUME NEW k \in Nat, NEW q \in Path
  PROVE  /\ Moved(k, q) \in Path /\ Moved(k, q)[1] = k /\ Tail(Moved(k, q)) = Tail(q)
         /\ Moved(q[1], Moved(k, q)) = q
  <1>1. Tail(q) \in Rel /\ <<q[1]>> \o Tail(q) = q
    BY Apiece
  <1> QED
    BY <1>1, Within DEF Moved

Shifted(p, i) ==
  [q \in {Moved(After(i, u[1]), u) : u \in {d \in DOMAIN p : d[1] # i}} |->
     p[Moved(Before(i, q[1]), q)]]

LEMMA Shifting ==
  ASSUME NEW c, Content(c), NEW i \in DOMAIN c.actions
  PROVE  LET s == Shifted(c.pending, i) IN
         /\ IsMap(s) /\ Apart(DOMAIN s)
         /\ \A q \in DOMAIN s : q \in Path /\ q[1] \in 1 .. Len(c.actions) - 1
         /\ \A q \in Path :
              /\ q \in DOMAIN s <=> Moved(Before(i, q[1]), q) \in DOMAIN c.pending
              /\ q \in DOMAIN s => s[q] = c.pending[Moved(Before(i, q[1]), q)]
  <1> DEFINE n == Len(c.actions)  p == c.pending
  <1>0. /\ n \in Nat /\ i \in 1 .. n /\ Apart(DOMAIN p)
        /\ \A q \in DOMAIN p : q \in Path /\ q[1] \in 1 .. n
    BY PlanDomain DEF Content, Inputs
  <1> HIDE DEF n, p
  <1> DEFINE s == Shifted(p, i)
             D == {Moved(After(i, u[1]), u) : u \in {d \in DOMAIN p : d[1] # i}}
  <1>1. /\ IsMap(s) /\ DOMAIN s = D
        /\ \A q \in D : s[q] = p[Moved(Before(i, q[1]), q)]
    BY DEF IsMap, Shifted
  <1> HIDE DEF s
  <1>2. ASSUME NEW q \in D
        PROVE  q \in Path /\ q[1] \in 1 .. n - 1 /\ Moved(Before(i, q[1]), q) \in DOMAIN p
    <2>1. PICK u \in DOMAIN p : u[1] # i /\ q = Moved(After(i, u[1]), u)
      OBVIOUS
    <2>2. u \in Path /\ u[1] \in 1 .. n
      BY <1>0, <2>1
    <2>3. After(i, u[1]) \in 1 .. n - 1 /\ Before(i, After(i, u[1])) = u[1] /\ After(i, u[1]) \in Nat
      BY <1>0, <2>1, <2>2, Positions
    <2>4. q \in Path /\ q[1] = After(i, u[1]) /\ Moved(u[1], q) = u
      BY <2>1, <2>2, <2>3, Moving
    <2> QED
      BY <2>3, <2>4
  <1>3. ASSUME NEW q \in Path, Moved(Before(i, q[1]), q) \in DOMAIN p
        PROVE  q \in D
    <2> DEFINE u == Moved(Before(i, q[1]), q)
    <2>1. q[1] \in Nat
      BY DEF Path
    <2>2. Before(i, q[1]) \in Nat /\ Before(i, q[1]) # i /\ After(i, Before(i, q[1])) = q[1]
      BY <1>0, <2>1, Positions
    <2>3. u[1] = Before(i, q[1]) /\ Moved(q[1], u) = q
      BY <2>2, Moving
    <2>4. u \in DOMAIN p
      BY <1>3
    <2> HIDE DEF u
    <2> QED
      BY <2>2, <2>3, <2>4
  <1> HIDE DEF D
  <1>4. ASSUME NEW q \in DOMAIN s, NEW u \in DOMAIN s, IsStrictPrefix(q, u)
        PROVE  FALSE
    <2> DEFINE b == Before(i, q[1])
    <2>1. q \in Path /\ u \in Path /\ Moved(Before(i, q[1]), q) \in DOMAIN p
          /\ Moved(Before(i, u[1]), u) \in DOMAIN p
      BY <1>1, <1>2
    <2>2. q[1] = u[1] /\ IsStrictPrefix(Tail(q), Tail(u))
      BY <1>4, <2>1, PathWithin
    <2>3. b \in Nat
      BY <1>0, <2>1, Positions DEF Path
    <2> HIDE DEF b
    <2>4. /\ Moved(b, q) \in Path /\ Moved(b, u) \in Path /\ Moved(b, q)[1] = b /\ Moved(b, u)[1] = b
          /\ Tail(Moved(b, q)) = Tail(q) /\ Tail(Moved(b, u)) = Tail(u)
      BY <2>1, <2>3, Moving
    <2>5. IsStrictPrefix(Moved(b, q), Moved(b, u))
      BY <2>2, <2>4, PathWithin
    <2>6. Moved(b, q) \in DOMAIN p /\ Moved(b, u) \in DOMAIN p
      BY <2>1, <2>2 DEF b
    <2> QED
      BY <1>0, <2>5, <2>6 DEF Apart
  <1>5. Apart(DOMAIN s)
    BY <1>4 DEF Apart
  <1> QED
    BY <1>1, <1>2, <1>3, <1>5 DEF s, p, n

ShiftedVariants(v, i) == [k \in {After(i, j) : j \in DOMAIN v \ {i}} |-> v[Before(i, k)]]

LEMMA ShiftingVariants ==
  ASSUME NEW n \in Nat, NEW i \in 1 .. n, NEW v, DOMAIN v \subseteq 1 .. n
  PROVE  LET s == ShiftedVariants(v, i) IN
         /\ IsMap(s) /\ DOMAIN s \subseteq 1 .. n - 1
         /\ \A k \in 1 .. n - 1 : k \in DOMAIN s <=> Before(i, k) \in DOMAIN v
         /\ \A k \in DOMAIN s : s[k] = v[Before(i, k)]
  <1> DEFINE s == ShiftedVariants(v, i)  D == {After(i, j) : j \in DOMAIN v \ {i}}
  <1>1. IsMap(s)
    BY DEF IsMap, ShiftedVariants
  <1>2. DOMAIN s = D /\ \A k \in D : s[k] = v[Before(i, k)]
    BY DEF ShiftedVariants
  <1> HIDE DEF s
  <1>3. ASSUME NEW k \in D
        PROVE  k \in 1 .. n - 1 /\ Before(i, k) \in DOMAIN v
    <2>1. PICK j \in DOMAIN v \ {i} : k = After(i, j)
      OBVIOUS
    <2>2. j \in 1 .. n /\ j # i
      BY <2>1
    <2> QED
      BY <2>1, <2>2, Positions
  <1>4. ASSUME NEW k \in 1 .. n - 1, Before(i, k) \in DOMAIN v
        PROVE  k \in D
    <2>1. Before(i, k) # i /\ After(i, Before(i, k)) = k
      BY Positions
    <2> QED
      BY <1>4, <2>1
  <1> HIDE DEF D
  <1> QED
    BY <1>1, <1>2, <1>3, <1>4 DEF s

LEMMA RemoveIs ==
  ASSUME NEW c, Known(c), NEW i
  PROVE  removeAction(c, i) =
           Rec(c.parses, RemoveAt(c.actions, i), Shifted(c.pending, i), ShiftedVariants(c.variants, i))
  <1>1. removeAction(c, i) =
          Rewritten(c, RemoveAt(c.actions, i), Shifted(c.pending, i), ShiftedVariants(c.variants, i))
    BY DEF Rewritten, removeAction, Shifted, ShiftedVariants, Moved
  <1> QED
    BY <1>1, ThreeParts

LEMMA RemoveKeeps ==
  ASSUME NEW c, Content(c), NEW i \in DOMAIN c.actions
  PROVE  LET d == removeAction(c, i) IN Content(d) /\ Entered(d) = RemoveAt(Entered(c), i)
  <1> DEFINE n == Len(c.actions)
             a == c.actions
             acts == RemoveAt(a, i)
             p == Shifted(c.pending, i)
             v == ShiftedVariants(c.variants, i)
             d == Rec(c.parses, acts, p, v)
  <1>1. removeAction(c, i) = d
    BY RemoveIs DEF Content
  <1>2. Known(d) /\ d.actions = acts /\ d.pending = p /\ d.variants = v
    BY Parts
  <1>3. /\ Plan(a) /\ Inputs(c) /\ Kept(c)
        /\ DOMAIN a = 1 .. n /\ n \in Nat /\ i \in 1 .. n
    BY PlanDomain DEF Content
  <1>4. /\ Len(acts) = n - 1 /\ acts = [k \in 1 .. n - 1 |-> acts[k]] /\ DOMAIN acts = 1 .. n - 1
        /\ \A k \in 1 .. n - 1 : acts[k] = a[Before(i, k)]
    <2> DEFINE S == {a[j] : j \in 1 .. n}
    <2>1. a \in Seq(S) /\ Len(a) = n
      BY <1>3 DEF Plan
    <2> HIDE DEF S
    <2>2. /\ acts \in Seq(S) /\ Len(acts) = n - 1
          /\ \A k \in 1 .. n - 1 : acts[k] = a[Before(i, k)]
      BY <1>3, <2>1, RemovedAt
    <2> HIDE DEF acts
    <2> QED
      BY <2>2
  <1>5. /\ IsMap(p) /\ Apart(DOMAIN p)
        /\ \A q \in DOMAIN p : q \in Path /\ q[1] \in 1 .. n - 1
        /\ \A q \in Path : /\ q \in DOMAIN p <=> Moved(Before(i, q[1]), q) \in DOMAIN c.pending
                           /\ q \in DOMAIN p => p[q] = c.pending[Moved(Before(i, q[1]), q)]
    BY Shifting
  <1> HIDE DEF n
  <1>6. /\ IsMap(v) /\ DOMAIN v \subseteq 1 .. n - 1
        /\ \A k \in 1 .. n - 1 : k \in DOMAIN v <=> Before(i, k) \in DOMAIN c.variants
        /\ \A k \in DOMAIN v : v[k] = c.variants[Before(i, k)]
    BY <1>3, ShiftingVariants DEF Kept
  <1>7. /\ n - 1 \in Nat /\ 1 .. n - 1 \subseteq Nat
        /\ \A k \in 1 .. n - 1 : Before(i, k) \in 1 .. n /\ Before(i, k) \in Nat
    <2>1. n - 1 \in Nat
      BY <1>3
    <2>2. \A k \in 1 .. n - 1 : Before(i, k) \in 1 .. n
      BY <1>3, Positions
    <2> QED
      BY <1>3, <2>1, <2>2
  <1> HIDE DEF acts, p, v, d, a
  <1>8. Plan(acts)
    <2>1. \A k \in 1 .. n - 1 :
            /\ acts[k] = [name |-> acts[k].name, type |-> acts[k].type, fields |-> acts[k].fields]
            /\ acts[k].type \in Types
      <3> TAKE k \in 1 .. n - 1
      <3> DEFINE b == a[Before(i, k)]
      <3>1. /\ b = [name |-> b.name, type |-> b.type, fields |-> b.fields]
            /\ b.type \in Types
        BY <1>3, <1>7 DEF Plan
      <3> HIDE DEF b
      <3>2. acts[k] = b
        BY <1>4 DEF b
      <3> QED
        BY <3>1, <3>2
    <2>2. Len(acts) \in Nat /\ acts = [k \in 1 .. Len(acts) |-> acts[k]]
          /\ 1 .. Len(acts) = 1 .. n - 1
      BY <1>4, <1>7
    <2> QED
      BY <2>1, <2>2 DEF Plan
  <1>9. Inputs(d)
    BY <1>2, <1>4, <1>5 DEF Inputs
  <1>10. Kept(d)
    <2>1. ASSUME NEW k \in DOMAIN v
          PROVE  IsMap(v[k]) /\ \A t \in DOMAIN v[k] : Input(v[k][t])
      BY <1>3, <1>6, <2>1 DEF Kept
    <2> QED
      BY <1>2, <1>4, <1>6, <2>1 DEF Kept
  <1>11. Content(d)
    BY <1>2, <1>8, <1>9, <1>10 DEF Content
  <1>12. ASSUME NEW k \in 1 .. n - 1
         PROVE  \A t \in Views : Shown(c, Before(i, k), t) = Shown(d, k, t)
    <2> DEFINE j == Before(i, k)
    <2>1. /\ j \in DOMAIN c.actions /\ k \in DOMAIN d.actions /\ c.actions[j] = d.actions[k]
          /\ j \in Nat /\ k \in Nat
      BY <1>2, <1>3, <1>4, <1>7 DEF a
    <2>2. /\ j \in DOMAIN c.variants <=> k \in DOMAIN d.variants
          /\ j \in DOMAIN c.variants => c.variants[j] = d.variants[k]
      BY <1>2, <1>6
    <2>3. ASSUME NEW r \in Rel
          PROVE  /\ <<j>> \o r \in DOMAIN c.pending <=> <<k>> \o r \in DOMAIN d.pending
                 /\ <<j>> \o r \in DOMAIN c.pending =>
                      c.pending[<<j>> \o r] = d.pending[<<k>> \o r]
      <3> DEFINE q == <<k>> \o r
      <3>1. q \in Path /\ q[1] = k /\ Tail(q) = r
        BY <2>1, Within
      <3> HIDE DEF q
      <3>2. Moved(Before(i, q[1]), q) = <<j>> \o r
        BY <3>1 DEF Moved
      <3> DEFINE u == <<j>> \o r
      <3> HIDE DEF u, j
      <3>3. /\ q \in DOMAIN p <=> u \in DOMAIN c.pending
            /\ q \in DOMAIN p => p[q] = c.pending[u]
        BY <1>5, <3>1, <3>2 DEF u
      <3> QED
        BY <1>2, <3>3 DEF q, u
    <2> HIDE DEF j
    <2>4. \A t \in Views : Shown(c, j, t) = Shown(d, k, t)
      BY <1>11, <2>1, <2>2, <2>3, SameShown
    <2> QED
      BY <2>4 DEF j
  <1> DEFINE old == Entered(c)  new == Entered(d)
  <1>13. old = [j \in 1 .. n |-> [t \in Views |-> Shown(c, j, t)]]
         /\ new = [k \in 1 .. n - 1 |-> [t \in Views |-> Shown(d, k, t)]]
    BY <1>2, <1>3, <1>4, EnteredIs DEF a
  <1> HIDE DEF old, new
  <1>14. \A k \in 1 .. n - 1 : new[k] = old[Before(i, k)]
    BY <1>7, <1>12, <1>13
  <1>15. new = RemoveAt(old, i)
    <2> DEFINE S == {old[j] : j \in 1 .. n}  w == RemoveAt(old, i)
    <2>1. \A j \in 1 .. n : old[j] \in S
      OBVIOUS
    <2> HIDE DEF S
    <2>2. old = [j \in 1 .. n |-> old[j]] /\ new = [k \in 1 .. n - 1 |-> new[k]]
      BY <1>13
    <2>3. \A k \in 1 .. n - 1 : new[k] \in S
      BY <1>7, <1>14, <2>1
    <2>4. old \in Seq(S) /\ new \in Seq(S) /\ Len(old) = n /\ Len(new) = n - 1
      BY <1>3, <1>7, <2>1, <2>2, <2>3
    <2>5. /\ w \in Seq(S) /\ Len(w) = n - 1
          /\ \A k \in 1 .. n - 1 : w[k] = old[Before(i, k)]
      BY <1>3, <2>4, RemovedAt
    <2> HIDE DEF w
    <2>6. w = new
      BY <1>14, <2>4, <2>5, SeqEqual
    <2> QED
      BY <2>6 DEF w
  <1> QED
    BY <1>1, <1>11, <1>15 DEF old, new

-----------------------------------------------------------------------------
(* The steps of the page. *)

LEMMA Pair ==
  ASSUME NEW S, NEW x \in S, NEW y \in S, NEW z \in S
  PROVE  /\ <<x, y>> \in Seq(S) /\ Len(<<x, y>>) = 2 /\ <<x, y>>[1] = x
         /\ <<x, y, z>> \in Seq(S) /\ Len(<<x, y, z>>) = 3 /\ <<x, y, z>>[1] = x
  OBVIOUS

LEMMA FieldPath ==
  ASSUME NEW i \in Nat, NEW f \in Names
  PROVE  <<i, f>> \in Path /\ <<i, f>>[1] = i
  <1>1. i \in Key /\ f \in Key
    BY DEF Key
  <1> DEFINE p == <<i, f>>
  <1>2. p \in Seq(Key) /\ Len(p) = 2 /\ p[1] = i
    BY <1>1, Pair
  <1> HIDE DEF p
  <1>3. p \in Path /\ p[1] = i
    BY <1>2 DEF Path
  <1> QED
    BY <1>3 DEF p

LEMMA KeyPath ==
  ASSUME NEW i \in Nat, NEW f \in Names, NEW g \in Names
  PROVE  <<i, f, g>> \in Path /\ <<i, f, g>>[1] = i
  <1>1. i \in Key /\ f \in Key /\ g \in Key
    BY DEF Key
  <1> DEFINE p == <<i, f, g>>
  <1>2. p \in Seq(Key) /\ Len(p) = 3 /\ p[1] = i
    BY <1>1, Pair
  <1> HIDE DEF p
  <1>3. p \in Path /\ p[1] = i
    BY <1>2 DEF Path
  <1> QED
    BY <1>3 DEF p

Changes(e) == content' = e /\ UNCHANGED <<exported, requests, coverage>>
Kind(i) ==
  /\ UNCHANGED <<exported, requests, coverage>>
  /\ \/ content' = content
     \/ Edited(content, content', i)
     \/ \E name \in ActionNames : content' = Renamed(content, i, name)
     \/ \E type \in Types :
          type # content.actions[i].type /\ content' = switchActionType(content, i, type)

LEMMA NamesOf ==
  /\ "params" \in Names /\ "policy" \in Names /\ "group" \in Names /\ "type" \in Names
  /\ "length" \in Names /\ "max_delay_ms" \in Names /\ "source" \in Names
  /\ "output_ids" \in Names /\ "after_report_id" \in Names
  BY DEF Names

LEMMA EditorSteps ==
  ASSUME EditInv, NEW i \in Actions, ActionEditor(i)
  PROVE  Kind(i)
  <1>1. Content(content) /\ i \in DOMAIN content.actions /\ i \in Nat
    BY PlanDomain DEF EditInv, Actions, Content
  <1>2. ASSUME NEW p \in Path, p[1] = i, NEW v
        PROVE  /\ Edited(content, setValue(content, p, v), i)
               /\ Edited(content, omitValue(content, p), i)
               /\ ~pendingBlocks(content, p) => Edited(content, editValue(content, p, v), i)
    BY <1>1, <1>2, SetEdits, OmitEdits, EditEdits
  <1>3. ASSUME NEW f \in Names, NEW v
        PROVE  /\ Edited(content, setValue(content, <<i, f>>, v), i)
               /\ Edited(content, omitValue(content, <<i, f>>), i)
               /\ ~pendingBlocks(content, <<i, f>>) => Edited(content, editValue(content, <<i, f>>, v), i)
    <2> DEFINE p == <<i, f>>
    <2>1. p \in Path /\ p[1] = i
      BY <1>1, FieldPath
    <2> HIDE DEF p
    <2> QED
      BY <1>2, <2>1 DEF p
  <1>4. ASSUME NEW f \in Names, NEW g \in Names, NEW v
        PROVE  /\ Edited(content, setValue(content, <<i, f, g>>, v), i)
               /\ Edited(content, omitValue(content, <<i, f, g>>), i)
               /\ ~pendingBlocks(content, <<i, f, g>>) =>
                    Edited(content, editValue(content, <<i, f, g>>, v), i)
    <2> DEFINE p == <<i, f, g>>
    <2>1. p \in Path /\ p[1] = i
      BY <1>1, KeyPath
    <2> HIDE DEF p
    <2> QED
      BY <1>2, <2>1 DEF p
  <1>0. ASSUME NEW e, Edited(content, e, i), Changes(e)
        PROVE  Kind(i)
    BY <1>0 DEF Kind, Changes
  <1>5. ASSUME NEW name \in ActionNames, Rename(i, name)
        PROVE  Kind(i)
    <2>1. Changes(Renamed(content, i, name))
      BY <1>5 DEF Rename, change, Changes, Renamed
    <2> QED
      BY <2>1 DEF Kind, Changes
  <1>6. ASSUME Group(i, "g")
        PROVE  Kind(i)
    <2>1. Changes(setValue(content, <<i, "group">>, "g"))
      BY <1>6 DEF Group, put, change, Changes
    <2>2. Edited(content, setValue(content, <<i, "group">>, "g"), i)
      BY <1>3, NamesOf
    <2> QED
      BY <1>0, <2>1, <2>2
  <1>7. ASSUME NEW field \in {"group", "policy"}, Clear(i, field)
        PROVE  Kind(i)
    <2>1. Changes(omitValue(content, <<i, field>>))
      BY <1>7 DEF Clear, change, Changes
    <2>2. Edited(content, omitValue(content, <<i, field>>), i)
      BY <1>3, NamesOf
    <2> QED
      BY <1>0, <2>1, <2>2
  <1>8. ASSUME NEW type \in Types, SelectType(i, type)
        PROVE  Kind(i)
    <2>1. Changes(switchActionType(content, i, type)) /\ type # content.actions[i].type
      BY <1>8 DEF SelectType, change, Changes, TypeOf
    <2> QED
      BY <2>1 DEF Kind, Changes
  <1>9. ASSUME NEW field \in {"params", "policy"}, NEW text, JsonField(i, field, text)
        PROVE  Kind(i)
    <2>1. Changes(editValue(content, <<i, field>>, text)) /\ ~pendingBlocks(content, <<i, field>>)
      BY <1>9 DEF JsonField, change, Changes
    <2>2. Edited(content, editValue(content, <<i, field>>, text), i)
      BY <1>3, NamesOf, <2>1
    <2> QED
      BY <1>0, <2>1, <2>2
  <1>10. ASSUME NEW f \in Names, NEW g \in Names, NEW text, NumberField(i, <<i, f, g>>, text)
         PROVE  Kind(i)
    <2>1. Changes(editValue(content, <<i, f, g>>, text)) /\ ~pendingBlocks(content, <<i, f, g>>)
      BY <1>10 DEF NumberField, change, Changes
    <2>2. Edited(content, editValue(content, <<i, f, g>>, text), i)
      BY <1>4, NamesOf, <2>1
    <2> QED
      BY <1>0, <2>1, <2>2
  <1>11. ASSUME ParameterType(i)
         PROVE  Kind(i)
    <2>1. Changes(setValue(content, <<i, "params", "type">>, "t"))
      BY <1>11 DEF ParameterType, put, change, Changes
    <2>2. Edited(content, setValue(content, <<i, "params", "type">>, "t"), i)
      BY <1>4, NamesOf
    <2> QED
      BY <1>0, <2>1, <2>2
  <1>12. ASSUME NEW params, ApplyPreset(i, params)
         PROVE  Kind(i)
    <2>1. Changes(setValue(content, <<i, "params">>, params))
      BY <1>12 DEF ApplyPreset, change, Changes
    <2>2. Edited(content, setValue(content, <<i, "params">>, params), i)
      BY <1>3, NamesOf
    <2> QED
      BY <1>0, <2>1, <2>2
  <1>13. ASSUME savePreset(i)
         PROVE  Kind(i)
    BY <1>13 DEF savePreset, Kind
  <1>14. ASSUME ResetParams(i)
         PROVE  Kind(i)
    <2>1. Changes(setValue(content, <<i, "params">>, Empty))
      BY <1>14 DEF ResetParams, change, Changes
    <2>2. Edited(content, setValue(content, <<i, "params">>, Empty), i)
      BY <1>3, NamesOf
    <2> QED
      BY <1>0, <2>1, <2>2
  <1>15. ASSUME NEW by, ChooseSource(i, by)
         PROVE  Kind(i)
    <2> DEFINE next == setValue(content, <<i, "params", "source">>, [by |-> by, is |-> ""])
               last == omitValue(next, <<i, "params", "output_ids">>)
    <2>1. Edited(content, next, i)
      BY <1>4, NamesOf
    <2>2. Content(next) /\ i \in DOMAIN next.actions
      <3> HIDE DEF next
      <3>1. Content(next)
        BY <1>1, <2>1, EditedContent
      <3> QED
        BY <1>1, <2>1, <3>1, PlanDomain DEF Edited, Content
    <2> DEFINE p == <<i, "params", "output_ids">>
    <2>3. p \in Path /\ p[1] = i
      BY <1>1, KeyPath, NamesOf
    <2>4. Edited(next, last, i)
      <3> HIDE DEF next, p
      <3>1. Edited(next, omitValue(next, p), p[1])
        BY <2>2, <2>3, OmitEdits
      <3> QED
        BY <2>3, <3>1 DEF p
    <2>5. content' \in {next, last} /\ UNCHANGED <<exported, requests, coverage>>
      BY <1>15 DEF ChooseSource, change
    <2> HIDE DEF next, last, p
    <2>6. Edited(content, last, i)
      BY <1>1, <2>1, <2>4, EditedTwice
    <2> QED
      BY <2>1, <2>5, <2>6 DEF Kind
  <1>16. ASSUME NEW is, ReferTo(i, is)
         PROVE  Kind(i)
    <2> DEFINE value == [by |-> Params(i)["source"].by, is |-> is]
    <2>1. Changes(setValue(content, <<i, "params", "source">>, value))
      BY <1>16 DEF ReferTo, change, Changes
    <2> HIDE DEF value
    <2>2. Edited(content, setValue(content, <<i, "params", "source">>, value), i)
      BY <1>4, NamesOf
    <2> QED
      BY <1>0, <2>1, <2>2
  <1>17. ASSUME NEW list, OutputIds(i, list)
         PROVE  Kind(i)
    <2>1. \/ Changes(setValue(content, <<i, "params", "output_ids">>, list))
          \/ Changes(omitValue(content, <<i, "params", "output_ids">>))
      BY <1>17 DEF OutputIds, change, Changes
    <2>2. /\ Edited(content, setValue(content, <<i, "params", "output_ids">>, list), i)
          /\ Edited(content, omitValue(content, <<i, "params", "output_ids">>), i)
      BY <1>4, NamesOf
    <2> QED
      BY <1>0, <2>1, <2>2
  <1>18. ASSUME NEW scope, ChooseScope(i, scope)
         PROVE  Kind(i)
    <2> DEFINE value == [scope |-> scope]
    <2>1. Changes(setValue(content, <<i, "params">>, value))
      BY <1>18 DEF ChooseScope, change, Changes
    <2> HIDE DEF value
    <2>2. Edited(content, setValue(content, <<i, "params">>, value), i)
      BY <1>3, NamesOf
    <2> QED
      BY <1>0, <2>1, <2>2
  <1>19. ASSUME NEW report, ChooseBasis(i, report)
         PROVE  Kind(i)
    <2>1. Changes(setValue(content, <<i, "params", "after_report_id">>, report))
      BY <1>19 DEF ChooseBasis, change, Changes
    <2>2. Edited(content, setValue(content, <<i, "params", "after_report_id">>, report), i)
      BY <1>4, NamesOf
    <2> QED
      BY <1>0, <2>1, <2>2
  <1> QED
    BY <1>5, <1>6, <1>7, <1>8, <1>9, <1>10, <1>11, <1>12, <1>13, <1>14, <1>15, <1>16, <1>17,
       <1>18, <1>19, NamesOf DEF ActionEditor

Toggled(x) == [x EXCEPT !.whole = ~@]

LEMMA Toggling ==
  ASSUME NEW f, IsMap(f), NEW q \in DOMAIN f, NEW v
  PROVE  /\ IsMap([f EXCEPT ![q] = v]) /\ DOMAIN [f EXCEPT ![q] = v] = DOMAIN f
         /\ \A x \in DOMAIN f : x # q => [f EXCEPT ![q] = v][x] = f[x]
  BY DEF IsMap

LEMMA PendingSteps ==
  ASSUME EditInv, NEW q \in DOMAIN content.pending, PendingInput(q)
  PROVE  q[1] \in DOMAIN content.actions /\ Kind(q[1])
  <1>1. Content(content) /\ q \in Path /\ q[1] \in DOMAIN content.actions
    BY DEF EditInv, Content, Inputs
  <1>2. ASSUME NEW e, Edited(content, e, q[1]), Changes(e)
        PROVE  Kind(q[1])
    BY <1>2 DEF Kind, Changes
  <1>3. CASE Retype(q)
    <2> DEFINE v == Toggled(content.pending[q])
               p == [content.pending EXCEPT ![q] = v]
               e == [content EXCEPT !.pending = p]
    <2>1. Changes(e)
      BY <1>3 DEF Retype, change, Changes, Toggled
    <2> HIDE DEF v
    <2>2. /\ IsMap(p) /\ DOMAIN p = DOMAIN content.pending
          /\ \A x \in DOMAIN content.pending : x # q => p[x] = content.pending[x]
      BY <1>1, Toggling DEF Content, Inputs
    <2> HIDE DEF p
    <2>3. Edited(content, e, q[1])
      BY <1>1, <2>2, PendingEdits
    <2> HIDE DEF e
    <2> QED
      BY <1>1, <1>2, <2>1, <2>3
  <1>4. CASE ApplyInput(q)
    <2>1. Changes(editValue(content, q, content.pending[q])) /\ ~pendingBlocks(content, q)
      BY <1>4 DEF ApplyInput, change, Changes
    <2>2. Edited(content, editValue(content, q, content.pending[q]), q[1])
      BY <1>1, <2>1, EditEdits
    <2> QED
      BY <1>1, <1>2, <2>1, <2>2
  <1>5. CASE OmitInput(q)
    <2>1. Changes(omitValue(content, q))
      BY <1>5 DEF OmitInput, change, Changes
    <2>2. Edited(content, omitValue(content, q), q[1])
      BY <1>1, OmitEdits
    <2> QED
      BY <1>1, <1>2, <2>1, <2>2
  <1> QED
    BY <1>1, <1>3, <1>4, <1>5 DEF PendingInput

\* The plans that are typed in, and drafts with nothing beside the text.
LEMMA PlanOfTwo ==
  ASSUME NEW a, NEW b,
         a = [name |-> a.name, type |-> a.type, fields |-> a.fields], a.type \in Types,
         b = [name |-> b.name, type |-> b.type, fields |-> b.fields], b.type \in Types
  PROVE  Plan(<<a, b>>)
  <1> DEFINE p == <<a, b>>
  <1>1. Len(p) = 2 /\ p = [i \in 1 .. 2 |-> p[i]] /\ p[1] = a /\ p[2] = b
    OBVIOUS
  <1> HIDE DEF p
  <1>2. \A i \in 1 .. 2 : i = 1 \/ i = 2
    OBVIOUS
  <1>3. Plan(p)
    BY <1>1, <1>2 DEF Plan
  <1> QED
    BY <1>3 DEF p

LEMMA TextsArePlans ==
  /\ \A plan \in PlanTexts : Plan(plan)
  /\ Plan(<<Capture, Retrieval("2", From("action_name", "1"))>>)
  /\ Plan(<<>>)
  <1>1. /\ Capture = [name |-> Capture.name, type |-> Capture.type, fields |-> Capture.fields]
        /\ Capture.type \in Types
    BY DEF Capture, Types
  <1>2. ASSUME NEW name, NEW source
        PROVE  LET r == Retrieval(name, source) IN
               r = [name |-> r.name, type |-> r.type, fields |-> r.fields] /\ r.type \in Types
    BY DEF Retrieval, Types
  <1>3. ASSUME NEW name, NEW source
        PROVE  /\ Plan(<<Capture, Retrieval(name, source)>>)
               /\ Plan(<<Retrieval(name, source), Capture>>)
    BY <1>1, <1>2, PlanOfTwo
  <1>4. Plan(<<>>)
    BY DEF Plan
  <1> QED
    BY <1>3, <1>4 DEF PlanTexts

LEMMA FreshContent ==
  ASSUME NEW plan, Plan(plan)
  PROVE  Content(Fresh(plan)) /\ Content([Fresh(plan) EXCEPT !.parses = FALSE])
  <1>1. ASSUME NEW w
        PROVE  Content(Rec(w, plan, <<>>, <<>>))
    <2> DEFINE c == Rec(w, plan, <<>>, <<>>)
    <2>1. Known(c) /\ c.actions = plan /\ c.pending = <<>> /\ c.variants = <<>>
      BY Parts
    <2> HIDE DEF c
    <2>2. Inputs(c) /\ Kept(c)
      BY <2>1, NothingWithin DEF Inputs, Kept, Apart
    <2>3. Content(c)
      BY <2>1, <2>2 DEF Content
    <2> QED
      BY <2>3 DEF c
  <1>2. Fresh(plan) = Rec(TRUE, plan, <<>>, <<>>)
    BY DEF Fresh, Rec
  <1>3. [Fresh(plan) EXCEPT !.parses = FALSE] = Rec(FALSE, plan, <<>>, <<>>)
    <2> DEFINE c == Fresh(plan)
    <2> HIDE DEF c
    <2>1. PICK w : c = Rec(w, plan, <<>>, <<>>)
      BY <1>2 DEF c
    <2>2. Known(c) /\ c.actions = plan /\ c.pending = <<>> /\ c.variants = <<>>
      BY <2>1, Parts
    <2>3. ASSUME NEW x
          PROVE  [c EXCEPT !.parses = x] = Rec(x, plan, <<>>, <<>>)
      BY <2>2, ParsesPart
    <2> QED
      BY <2>3 DEF c
  <1> QED
    BY <1>1, <1>2, <1>3

-----------------------------------------------------------------------------
(* The invariant. *)

\* What a step of the draft does to its content.
LEMMA Steps ==
  ASSUME EditInv, Next
  PROVE  \/ \E i \in DOMAIN content.actions : Kind(i)
         \/ \E i \in DOMAIN content.actions :
              content' = removeAction(content, i) /\ UNCHANGED <<exported, requests, coverage>>
         \/ content' = appendDraftAction(content) /\ UNCHANGED <<exported, requests, coverage>>
         \/ PlanText
         \/ exportDraft \/ ReportArrives
         \/ \E plan \in requests : copyRequest(plan)
  <1>1. ASSUME NEW i \in Actions, ActionEditor(i)
        PROVE  i \in DOMAIN content.actions /\ Kind(i)
    BY <1>1, EditorSteps DEF Actions
  <1>2. ASSUME NEW i \in Actions, remove(i)
        PROVE  /\ i \in DOMAIN content.actions /\ content' = removeAction(content, i)
               /\ UNCHANGED <<exported, requests, coverage>>
    BY <1>2 DEF remove, change, Actions
  <1>3. add => content' = appendDraftAction(content) /\ UNCHANGED <<exported, requests, coverage>>
    BY DEF add, change
  <1> QED
    BY <1>1, <1>2, <1>3, PendingSteps DEF Next

LEMMA KindKeeps ==
  ASSUME EditInv, NEW i \in DOMAIN content.actions, Kind(i)
  PROVE  Content(content') /\ KeepsEntries
  <1>1. Content(content)
    BY DEF EditInv
  <1> DEFINE old == Entered(content)  new == Entered(content')
  <1>2. DOMAIN old = DOMAIN content.actions /\ DOMAIN new = DOMAIN content'.actions
    BY EnteredIs
  <1>3. CASE content' = content
    BY <1>1, <1>3 DEF KeepsEntries
  <1>4. CASE Edited(content, content', i)
    <2> DEFINE t == content.actions[i].type
    <2>1. Content(content')
      BY <1>1, <1>4, EditedContent
    <2>2. /\ i \in DOMAIN content'.actions /\ content'.actions[i].type = t
      BY <1>1, <1>4, <2>1, PlanDomain DEF Edited, Content
    <2>3. new = [old EXCEPT ![i] = [@ EXCEPT ![t] = new[i][t]]]
      BY <1>1, <1>4, EditedKeeps
    <2> HIDE DEF old, new
    <2>4. /\ i \in DOMAIN old \intersect DOMAIN new /\ t \in {"name", TypeOf(i)}
          /\ content'.actions[i].type = TypeOf(i) /\ new = [old EXCEPT ![i][t] = new[i][t]]
      BY <1>2, <2>2, <2>3 DEF TypeOf
    <2> QED
      BY <2>1, <2>4 DEF KeepsEntries, old, new
  <1>5. CASE \E name \in ActionNames : content' = Renamed(content, i, name)
    <2>1. PICK name \in ActionNames : content' = Renamed(content, i, name)
      BY <1>5
    <2>2. /\ Content(content') /\ content'.actions[i].type = content.actions[i].type
          /\ new = [old EXCEPT ![i] = [@ EXCEPT !["name"] = new[i]["name"]]]
      BY <1>1, <2>1, RenameKeeps
    <2> HIDE DEF old, new
    <2>3. i \in DOMAIN old /\ DOMAIN new = DOMAIN old
      BY <1>2, <2>2
    <2>4. /\ i \in DOMAIN old \intersect DOMAIN new /\ "name" \in {"name", TypeOf(i)}
          /\ content'.actions[i].type = TypeOf(i)
          /\ new = [old EXCEPT ![i]["name"] = new[i]["name"]]
      BY <2>2, <2>3 DEF TypeOf
    <2> QED
      BY <2>2, <2>4 DEF KeepsEntries, old, new
  <1>6. CASE \E type \in Types :
               type # content.actions[i].type /\ content' = switchActionType(content, i, type)
    <2>1. Content(content') /\ new = old
      BY <1>1, <1>6, SwitchKeeps
    <2> QED
      BY <2>1 DEF KeepsEntries
  <1> QED
    BY <1>3, <1>4, <1>5, <1>6 DEF Kind

\* Every step of the draft keeps its invariant and what was entered.
LEMMA StepKeeps ==
  ASSUME EditInv, Next
  PROVE  /\ Content(content')
         /\ PlanText \/ (\E plan \in requests : copyRequest(plan)) \/ KeepsEntries
         /\ requests' = requests \/ requests' = requests \union {content.actions}
  <1>1. Content(content) /\ \A plan \in requests : Plan(plan)
    BY DEF EditInv
  <1>2. CASE \E i \in DOMAIN content.actions : Kind(i)
    BY <1>2, KindKeeps DEF Kind
  <1>3. CASE \E i \in DOMAIN content.actions :
               content' = removeAction(content, i) /\ UNCHANGED <<exported, requests, coverage>>
    <2>1. PICK i \in DOMAIN content.actions :
            content' = removeAction(content, i) /\ UNCHANGED <<exported, requests, coverage>>
      BY <1>3
    <2>2. Content(content') /\ Entered(content') = RemoveAt(Entered(content), i)
      BY <1>1, <2>1, RemoveKeeps
    <2>3. i \in DOMAIN Entered(content)
      BY EnteredIs
    <2> QED
      BY <2>1, <2>2, <2>3 DEF KeepsEntries
  <1>4. CASE content' = appendDraftAction(content) /\ UNCHANGED <<exported, requests, coverage>>
    <2> DEFINE new == Entered(content')  first == new[Len(new)]
    <2>1. Content(content') /\ new = Append(Entered(content), first) /\ \A t \in Types : first[t] = Blank
      BY <1>1, <1>4, AddKeeps
    <2>2. KeepsEntries
      BY <2>1 DEF KeepsEntries
    <2> QED
      BY <1>4, <2>1, <2>2
  <1>5. CASE PlanText
    <2>1. PICK plan \in PlanTexts : content' \in {Fresh(plan), Broken} /\ requests' = requests
      BY <1>5 DEF PlanText, editPlanText, change
    <2>2. Content(Fresh(plan)) /\ Content(Broken)
      BY TextsArePlans, FreshContent DEF Broken
    <2> QED
      BY <1>5, <2>1, <2>2
  <1>6. CASE exportDraft \/ ReportArrives
    <2>1. content' = content /\ (requests' = requests \/ requests' = requests \union {content.actions})
      BY <1>6 DEF exportDraft, ReportArrives
    <2> QED
      BY <1>1, <2>1 DEF KeepsEntries
  <1>7. CASE \E plan \in requests : copyRequest(plan)
    <2>1. PICK plan \in requests : content' = Fresh(plan) /\ requests' = requests
      BY <1>7 DEF copyRequest
    <2> QED
      BY <1>1, <1>7, <2>1, FreshContent
  <1> QED
    BY <1>2, <1>3, <1>4, <1>5, <1>6, <1>7, Steps

LEMMA EditInvInit == Init => EditInv
  <1> SUFFICES ASSUME Init PROVE EditInv
    OBVIOUS
  <1>1. CASE content = Fresh(<<>>) /\ requests = {}
    BY <1>1, TextsArePlans, FreshContent DEF EditInv
  <1>2. CASE ~(content = Fresh(<<>>) /\ requests = {})
    <2> DEFINE plan == <<Capture, Retrieval("2", From("action_name", "1"))>>
               path == <<1, "params", "length">>
               cut == editValue(Fresh(plan), path, Cut("5"))
    <2>1. content \in {Fresh(plan), switchActionType(cut, 1, "report_status")} /\ requests = {plan}
      BY <1>2 DEF Init
    <2>2. Plan(plan) /\ Len(plan) = 2 /\ plan[1].type = "camera_record"
      BY TextsArePlans DEF Capture
    <2>3. path \in Path /\ path[1] = 1
      BY KeyPath, NamesOf
    <2> HIDE DEF plan, path
    <2> DEFINE c == Fresh(plan)
    <2>4. Content(c) /\ c.actions = plan /\ c.pending = <<>>
      BY <2>2, FreshContent DEF Fresh
    <2> HIDE DEF c
    <2>5. 1 \in DOMAIN c.actions /\ ~pendingBlocks(c, path)
      BY <2>2, <2>4, PlanDomain, NothingWithin DEF pendingBlocks
    <2> DEFINE d == editValue(c, path, Cut("5"))
    <2>6. Edited(c, d, 1)
      BY <2>3, <2>4, <2>5, EditEdits
    <2> HIDE DEF d
    <2>7. Content(d) /\ 1 \in DOMAIN d.actions /\ d.actions[1].type = "camera_record"
      <3>1. Content(d)
        BY <2>4, <2>5, <2>6, EditedContent
      <3> QED
        BY <2>2, <2>4, <2>5, <2>6, <3>1, PlanDomain DEF Edited, Content
    <2>8. Content(switchActionType(d, 1, "report_status"))
      <3>1. "report_status" \in Types /\ "report_status" # d.actions[1].type
        BY <2>7 DEF Types
      <3> QED
        BY <2>7, <3>1, SwitchKeeps
    <2> QED
      BY <2>1, <2>2, <2>4, <2>8 DEF EditInv, c, d
  <1> QED
    BY <1>1, <1>2

LEMMA EditInvNext == EditInv /\ [Next]_vars => EditInv'
  <1>1. ASSUME EditInv, Next
        PROVE  EditInv'
    BY <1>1, StepKeeps DEF EditInv, Content
  <1>2. ASSUME EditInv, UNCHANGED vars
        PROVE  EditInv'
    BY <1>2 DEF EditInv, vars
  <1> QED
    BY <1>1, <1>2

\* In every draft what lies beside the text belongs to the actions of the text.
THEOREM EditInvariant == Spec => []EditInv
  BY EditInvInit, EditInvNext, PTL DEF Spec

\* Nothing entered is lost or ends up with another action, however the text
\* and the inputs beside it move (removeAction, switchActionType).
THEOREM NothingEnteredIsLost == Spec => EntriesKept
  <1>1. EditInv /\ [Next]_vars =>
          [PlanText \/ (\E plan \in requests : copyRequest(plan)) \/ KeepsEntries]_vars
    <2>1. EditInv /\ Next => PlanText \/ (\E plan \in requests : copyRequest(plan)) \/ KeepsEntries
      BY StepKeeps
    <2> QED
      BY <2>1
  <1> QED
    BY <1>1, EditInvariant, PTL DEF Spec, EntriesKept

\* Every unfinished input can be corrected by itself (Editor.tsx:348).
THEOREM InputsCorrectable == Spec => []EachCorrectable
  <1>1. EditInv => EachCorrectable
    <2> SUFFICES ASSUME EditInv, NEW i \in DOMAIN Entered(content), NEW t \in Types
                 PROVE  LET paths == DOMAIN Entered(content)[i][t].pending IN
                        /\ \A p, q \in paths : ~IsStrictPrefix(p, q)
                        /\ \A q \in DOMAIN content.pending : q[1] \in DOMAIN content.actions
      BY DEF EachCorrectable
    <2>1. Content(content) /\ i \in DOMAIN content.actions /\ i \in Nat
      BY EnteredIs, PlanDomain DEF EditInv, Content
    <2>2. Entered(content)[i][t] = Shown(content, i, t) /\ t # "name"
      BY <2>1, EnteredIs DEF Views, Types
    <2>3. Shown(content, i, t) \in {Current(content, i), Restored(content, i, t)}
      BY <2>2 DEF Shown
    <2>4. Input(Shown(content, i, t))
      BY <2>1, <2>3, UnderIsInput, RestoredInput DEF Content
    <2> QED
      BY <2>1, <2>2, <2>4 DEF Input, Apart, Content, Inputs
  <1> QED
    BY <1>1, EditInvariant, PTL

-----------------------------------------------------------------------------
(* What is exported. *)

SourceSound(plan, i, params) ==
  LET source == params["source"] IN
  /\ source.by = "action_name" =>
       \E j \in DOMAIN plan : {k \in DOMAIN plan : plan[k].name = source.is} = {j}
                              /\ isCameraAction(plan[j].type)
  /\ source.by = "group" =>
       \E j \in DOMAIN plan \ {i} : isCameraAction(plan[j].type) /\ InGroup(plan[j], source.is)
  /\ source.by \in {"group", "plan_group"} => ~Has(params, "output_ids")
SoundAt(plan, mark) ==
  \A i \in DOMAIN plan :
    Has(plan[i].fields, "params") =>
      LET params == plan[i].fields["params"] IN
      /\ Has(params, "source") => SourceSound(plan, i, params)
      /\ Has(params, "after_report_id") =>
           params["after_report_id"] \in {1, 2} /\ params["after_report_id"] <= mark

SoundInv == coverage \in Nat /\ \A plan \in requests : SoundAt(plan, coverage)

LEMMA CaptureAt ==
  ASSUME NEW plan, NEW a \in Captures(plan)
  PROVE  \E j \in DOMAIN plan : plan[j] = a /\ isCameraAction(plan[j].type)
  BY DEF Captures, Range

\* A plan that passes validatePlan is sound.
LEMMA ValidIsSound ==
  ASSUME NEW plan, validatePlan(plan)
  PROVE  SoundAt(plan, coverage)
  <1> SUFFICES ASSUME NEW i \in DOMAIN plan, Has(plan[i].fields, "params")
               PROVE  LET params == plan[i].fields["params"] IN
                      /\ Has(params, "source") => SourceSound(plan, i, params)
                      /\ Has(params, "after_report_id") =>
                           params["after_report_id"] \in {1, 2} /\ params["after_report_id"] <= coverage
    BY DEF SoundAt
  <1> DEFINE action == plan[i]  params == action.fields["params"]
  <1>1. ActionValid(plan, action)
    BY DEF validatePlan, Range
  <1>2. CASE isCameraAction(action.type)
    <2>1. DOMAIN params = {"type", "length"}
      BY <1>1, <1>2 DEF ActionValid, validateParams
    <2> HIDE DEF params
    <2>2. ~Has(params, "source") /\ ~Has(params, "after_report_id")
      BY <2>1 DEF Has
    <2> QED
      BY <2>2 DEF params
  <1>3. CASE ~isCameraAction(action.type)
    <2>1. /\ validateBuiltinParams(action.type, params)
          /\ Has(params, "source") => SourceFound(plan, params["source"])
          /\ Has(params, "after_report_id") => isSyncBasis(params["after_report_id"])
      BY <1>1, <1>3 DEF ActionValid
    <2> HIDE DEF params
    <2>2. ASSUME Has(params, "source")
          PROVE  SourceSound(plan, i, params)
      <3> DEFINE source == params["source"]
      <3>1. SourceFound(plan, source)
        BY <2>1, <2>2
      <3>2. Has(params, "output_ids") => source.by \notin {"group", "plan_group"}
        <4>1. CASE action.type = "obtain_action_outputs"
          BY <2>1, <4>1 DEF validateBuiltinParams
        <4>2. CASE params = [scope |-> "full"]
          BY <2>2, <4>2 DEF Has
        <4>3. CASE DOMAIN params = {"scope", "after_report_id"}
          BY <2>2, <4>3 DEF Has
        <4> QED
          BY <2>1, <4>1, <4>2, <4>3 DEF validateBuiltinParams
      <3> HIDE DEF source
      <3>3. ASSUME source.by = "action_name"
            PROVE  \E j \in DOMAIN plan : {k \in DOMAIN plan : plan[k].name = source.is} = {j}
                                          /\ isCameraAction(plan[j].type)
        <4>1. PICK a \in Captures(plan) : a.name = source.is
          BY <3>1, <3>3 DEF SourceFound
        <4>2. PICK j \in DOMAIN plan : plan[j] = a /\ isCameraAction(plan[j].type)
          BY CaptureAt
        <4>3. \A k \in DOMAIN plan : plan[k].name = plan[j].name => k = j
          BY DEF validatePlan, NamesDiffer
        <4>4. {k \in DOMAIN plan : plan[k].name = source.is} = {j}
          BY <4>1, <4>2, <4>3
        <4> QED
          BY <4>2, <4>4
      <3>4. ASSUME source.by = "group"
            PROVE  \E j \in DOMAIN plan \ {i} :
                     isCameraAction(plan[j].type) /\ InGroup(plan[j], source.is)
        <4>1. PICK a \in Captures(plan) : InGroup(a, source.is)
          BY <3>1, <3>4 DEF SourceFound
        <4>2. PICK j \in DOMAIN plan : plan[j] = a /\ isCameraAction(plan[j].type)
          BY CaptureAt
        <4> QED
          BY <1>3, <4>1, <4>2
      <3> QED
        BY <3>2, <3>3, <3>4 DEF SourceSound, source
    <2>3. Has(params, "after_report_id") =>
            params["after_report_id"] \in {1, 2} /\ params["after_report_id"] <= coverage
      BY <2>1 DEF isSyncBasis
    <2> QED
      BY <2>2, <2>3 DEF params
  <1> QED
    BY <1>2, <1>3

\* A basis that was covered stays covered.
LEMMA SoundLater ==
  ASSUME NEW plan, NEW m \in Nat, NEW n \in Nat, m <= n, SoundAt(plan, m)
  PROVE  SoundAt(plan, n)
  <1>1. \A report \in {1, 2} : report <= m => report <= n
    OBVIOUS
  <1> QED
    BY <1>1 DEF SoundAt

LEMMA FirstIsValid == validatePlan(<<Capture, Retrieval("2", From("action_name", "1"))>>)
  <1> DEFINE a == Capture  source == [by |-> "action_name", is |-> "1"]  params == [source |-> source]
             b == [name |-> "2", type |-> "obtain_action_outputs", fields |-> [params |-> params]]
             plan == <<a, b>>
  <1>1. plan = <<Capture, Retrieval("2", From("action_name", "1"))>>
    BY DEF Retrieval, From
  <1>2. /\ a.name = "1" /\ a.type = "camera_record" /\ DOMAIN a.fields = {"params", "policy", "group"}
        /\ a.fields["params"] = Length /\ DOMAIN a.fields["policy"] = {"max_delay_ms"}
    BY DEF Capture
  <1>3. DOMAIN Length = {"type", "length"}
    BY DEF Length
  <1>4. ActionValid(plan, a)
    <2> HIDE DEF a, plan
    <2>1. Has(a.fields, "params") /\ Has(a.fields, "policy") /\ isObject(a.fields["params"])
      BY <1>2, <1>3 DEF Has, isObject
    <2> QED
      BY <1>2, <1>3, <2>1 DEF ActionValid, isCameraAction, validateParams
  <1>5. /\ b.name = "2" /\ b.type = "obtain_action_outputs" /\ DOMAIN b.fields = {"params"}
        /\ b.fields["params"] = params
    OBVIOUS
  <1>6. DOMAIN params = {"source"} /\ params["source"] = source
    OBVIOUS
  <1>7. source.by = "action_name" /\ source.is = "1"
    OBVIOUS
  <1> HIDE DEF a, b, params, source
  <1>8. /\ plan[1] = a /\ plan[2] = b /\ DOMAIN plan = {1, 2} /\ plan # <<>>
    OBVIOUS
  <1> HIDE DEF plan
  <1>9. a \in Captures(plan)
    BY <1>2, <1>8 DEF Captures, Range, isCameraAction
  <1>10. ActionValid(plan, b)
    <2>1. SourceFound(plan, source)
      BY <1>2, <1>7, <1>9 DEF SourceFound
    <2>2. /\ Has(params, "source") /\ ~Has(params, "output_ids") /\ ~Has(params, "after_report_id")
          /\ isObject(params) /\ DOMAIN params \subseteq {"source", "output_ids"}
      BY <1>6 DEF Has, isObject
    <2>3. validateBuiltinParams(b.type, params)
      BY <1>5, <1>6, <1>7, <2>2 DEF validateBuiltinParams
    <2>4. Has(b.fields, "params") /\ ~Has(b.fields, "group") /\ ~Has(b.fields, "policy")
      BY <1>5 DEF Has
    <2> QED
      BY <1>5, <1>6, <2>1, <2>2, <2>3, <2>4 DEF ActionValid, isCameraAction
  <1>11. NamesDiffer(plan)
    BY <1>2, <1>5, <1>8 DEF NamesDiffer
  <1>12. \A x \in Range(plan) : x = a \/ x = b
    BY <1>8 DEF Range
  <1> QED
    BY <1>1, <1>4, <1>8, <1>10, <1>11, <1>12 DEF validatePlan

LEMMA SoundInvInit == Init => SoundInv
  BY FirstIsValid, ValidIsSound DEF Init, SoundInv

LEMMA SoundInvNext == EditInv /\ SoundInv /\ [Next]_vars => SoundInv'
  <1> SUFFICES ASSUME EditInv, SoundInv, [Next]_vars
               PROVE  SoundInv'
    OBVIOUS
  <1>1. CASE UNCHANGED <<requests, coverage>>
    BY <1>1 DEF SoundInv
  <1>2. CASE exportDraft
    <2>1. validatePlan(content.actions)
      BY <1>2 DEF exportDraft
    <2>2. SoundAt(content.actions, coverage)
      BY <2>1, ValidIsSound
    <2> QED
      BY <1>2, <2>2 DEF exportDraft, SoundInv
  <1>3. CASE ReportArrives
    <2>1. coverage \in Nat /\ coverage + 1 \in Nat /\ coverage <= coverage + 1
      BY DEF SoundInv
    <2>2. \A plan \in requests : SoundAt(plan, coverage + 1)
      BY <2>1, SoundLater DEF SoundInv
    <2> QED
      BY <1>3, <2>1, <2>2 DEF ReportArrives, SoundInv
  <1> QED
    BY <1>1, <1>2, <1>3, Steps DEF vars, Kind, PlanText, editPlanText, change, copyRequest

\* An exported plan means one capture by each name, has a capture in each group
\* fetched from, and asks for reports since a mark that is covered
\* (validatePlan, exportDraft).
THEOREM ExportsSound == Spec => []ExportedIsSound
  <1>1. SoundInv => ExportedIsSound
    BY DEF SoundInv, SoundAt, SourceSound, ExportedIsSound
  <1> QED
    BY <1>1, SoundInvInit, SoundInvNext, EditInvariant, PTL DEF Spec
=============================================================================
